---------------------------- MODULE AddonsProofs ----------------------------
(***************************************************************************)
(* What pg.yaml and the data of an add-on say, for any add-ons, settings   *)
(* and kinds.  No update of pg.yaml is lost (Addons.NoLostUpdate), for any *)
(* programs, commands and faults.  And, for kinds whose programs are in    *)
(* order (AddonsOrder) and one command at a time: pg.yaml knows the secret *)
(* that the data is bound to (Addons.KnownSecret), and an install that     *)
(* built leaves what the entry says (Addons.BuildApplies).                 *)
(***************************************************************************)
EXTENDS AddonsLifeProofs

-----------------------------------------------------------------------------
\* The updates.  A command that may save is alone, unless the loss is marked,
\* so what it loaded agrees with the file outside its own entry; and a command
\* of the other kind has no step left that saves.

\* A program that neither saves nor chooses another one.
LeavesConf(s) == s \in Seq(STRING) /\ \A i \in DOMAIN s : s[i] \notin {"save", "choose"}

\* A value that is a function on S.
Over(S, f) == f = [x \in S |-> f[x]]

CmdOK(c) ==
  /\ {"op", "name", "todo", "seen"} \subseteq DOMAIN c
  /\ c.name \in Names
  /\ Over(Names, c.seen)
  /\ ~Writer(c) => LeavesConf(c.todo)

\* A command that may save.
Saver(p) == cmd[p] # None /\ Writer(cmd[p])

\* What it loaded is the file, but for its own entry.
Current(p) == \A n \in Names : n # cmd[p].name => cmd[p].seen[n] = conf[n]

ShapeInv ==
  /\ Over(Procs, cmd)
  /\ Over(Names, conf)
  /\ Over(Names, last)
  /\ kind \in [Names -> Kinds]
  /\ \A p \in Procs : cmd[p] # None => CmdOK(cmd[p])

UpdateInv ==
  /\ conf = last
  /\ \A p, q \in Procs : Saver(p) /\ Saver(q) => p = q
  /\ \A p \in Procs : Saver(p) => Current(p)

WInv == ShapeInv /\ (lossy \/ UpdateInv)

-----------------------------------------------------------------------------
\* A step of the command p that leaves pg.yaml and the history alone: the
\* command goes on as it was, or ends, or has just loaded the file.

Continues(c, d) ==
  \/ d = None
  \/ /\ {"op", "name", "todo", "seen"} \subseteq DOMAIN d
     /\ d.op = c.op
     /\ d.name = c.name
     /\ d.seen \in {c.seen, conf}
     /\ ~Writer(c) => LeavesConf(d.todo)

Moves(p) ==
  /\ cmd[p] # None
  /\ UNCHANGED <<kind, conf, last, lossy>>
  /\ cmd' = [cmd EXCEPT ![p] = cmd'[p]]
  /\ Continues(cmd[p], cmd'[p])

\* Such a step preserves the invariant.
LEMMA MoveKeeps ==
  ASSUME WInv, NEW p \in Procs, Moves(p)
  PROVE  WInv'
<1>1. ShapeInv'
  <2>1. Over(Procs, cmd)'
    BY DEF Moves, WInv, ShapeInv, Over
  <2>2. \A q \in Procs : cmd'[q] = (IF q = p THEN cmd'[p] ELSE cmd[q])
    BY DEF Moves, WInv, ShapeInv, Over
  <2>3. cmd'[p] # None => CmdOK(cmd'[p])
    <3>. SUFFICES ASSUME cmd'[p] # None PROVE CmdOK(cmd'[p])
      OBVIOUS
    <3>1. CmdOK(cmd[p]) /\ Over(Names, conf)
      BY DEF Moves, WInv, ShapeInv
    <3>. QED
      BY <3>1 DEF Moves, Continues, CmdOK, Writer
  <2>4. \A q \in Procs : (cmd'[q] # None => CmdOK(cmd'[q]))
    BY <2>2, <2>3 DEF WInv, ShapeInv
  <2>. QED
    BY <2>1, <2>4 DEF Moves, WInv, ShapeInv, Over, CmdOK, LeavesConf, Writer
<1>2. ASSUME UpdateInv PROVE UpdateInv'
  <2>1. \A q \in Procs : cmd'[q] = (IF q = p THEN cmd'[p] ELSE cmd[q])
    BY DEF Moves, WInv, ShapeInv, Over
  <2>2. \A q \in Procs : Saver(q)' => Saver(q)
    BY <2>1 DEF Saver, Moves, Continues, Writer
  <2>3. \A q \in Procs : Saver(q)' => Current(q)'
    BY <2>1, <2>2, <1>2 DEF UpdateInv, Current, Moves, Continues, Saver
  <2>. QED
    BY <1>2, <2>2, <2>3 DEF UpdateInv, Moves
<1>. QED
  BY <1>1, <1>2 DEF WInv, Moves

\* The rest of a program that neither saves nor chooses does not either.
LEMMA TailReads ==
  ASSUME NEW s, LeavesConf(s), s # <<>>
  PROVE  LeavesConf(Tail(s))
<1>1. Tail(s) \in Seq(STRING) /\ Len(Tail(s)) = Len(s) - 1
  BY DEF LeavesConf
<1>2. \A i \in DOMAIN Tail(s) : Tail(s)[i] = s[i + 1] /\ i + 1 \in DOMAIN s
  BY DEF LeavesConf
<1>. QED
  BY <1>1, <1>2 DEF LeavesConf

-----------------------------------------------------------------------------
\* The three ways a step ends: go on as the record c, go on, or stop.

\* The record c is the command p with something else changed, or reloaded.
Like(p, c) ==
  /\ {"op", "name", "todo", "seen"} \subseteq DOMAIN c
  /\ c.op = cmd[p].op
  /\ c.name = cmd[p].name
  /\ c.todo = cmd[p].todo
  /\ c.seen \in {cmd[p].seen, conf}

Quiet == UNCHANGED <<kind, conf, last, lossy>>

\* A step that goes on as c moves the command.
LEMMA GoMoves ==
  ASSUME ShapeInv, Quiet, NEW p \in Procs, cmd[p] # None, cmd[p].todo # <<>>,
         NEW c, Like(p, c), Go(p, c)
  PROVE  Moves(p)
<1> DEFINE d == [c EXCEPT !.todo = Tail(@)]
<1>1. cmd' = [cmd EXCEPT ![p] = d]
  BY DEF Go
<1>2. cmd'[p] = d
  BY <1>1 DEF ShapeInv, Over
<1>3. DOMAIN d = DOMAIN c /\ d.op = c.op /\ d.name = c.name /\ d.seen = c.seen
      /\ d.todo = Tail(c.todo)
  BY DEF Like
<1>4. ~Writer(cmd[p]) => LeavesConf(Tail(c.todo))
  BY TailReads DEF ShapeInv, CmdOK, Like
<1>5. Continues(cmd[p], d)
  BY <1>3, <1>4 DEF Continues, Like
<1>. QED
  BY <1>1, <1>2, <1>5 DEF Moves, Quiet

\* So does one that only goes on.
LEMMA SkipMoves ==
  ASSUME ShapeInv, Quiet, NEW p \in Procs, cmd[p] # None, cmd[p].todo # <<>>, Skip(p)
  PROVE  Moves(p)
<1>1. Like(p, cmd[p])
  BY DEF ShapeInv, CmdOK, Like
<1>. QED
  BY <1>1, GoMoves DEF Skip

\* So does one that returns.
LEMMA EndMoves ==
  ASSUME ShapeInv, Quiet, NEW p \in Procs, cmd[p] # None, End(p)
  PROVE  Moves(p)
BY DEF ShapeInv, Over, End, Quiet, Moves, Continues

\* The fields an action may set without touching what Like speaks of.
LEMMA FieldLike ==
  ASSUME ShapeInv, NEW p \in Procs, cmd[p] # None, NEW v, NEW w
  PROVE  /\ Like(p, [cmd[p] EXCEPT !.work = v])
         /\ Like(p, [cmd[p] EXCEPT !.old = v])
         /\ Like(p, [cmd[p] EXCEPT !.ok = v])
         /\ Like(p, [cmd[p] EXCEPT !.asked = v])
         /\ Like(p, [cmd[p] EXCEPT !.work.sec = v])
         /\ Like(p, [cmd[p] EXCEPT !.seen = conf, !.work = v])
         /\ Like(p, [cmd[p] EXCEPT !.work = v, !.want = w, !.pw = w])
<1>1. {"op", "name", "todo", "seen"} \subseteq DOMAIN cmd[p]
  BY DEF ShapeInv, CmdOK
<1>. QED
  BY <1>1 DEF Like

\* At a step, a command runs and has one.
LEMMA AtRuns ==
  ASSUME NEW p, NEW ops, At(p, ops)
  PROVE  cmd[p] # None /\ cmd[p].todo # <<>>
BY DEF At

-----------------------------------------------------------------------------
\* Every step of a command but Save moves it.

\* The steps that go on or stop, and never change the command itself.
KeepsConf(p) ==
  \/ FindEntry(p) \/ Check(p) \/ NeedFile(p) \/ SetSecret(p) \/ Wipe(p)
  \/ DropFile(p) \/ Halt(p) \/ Rm(p) \/ Create(p) \/ Discard(p) \/ Return(p)

\* They leave pg.yaml alone and the command as it was, or end it.
LEMMA PlainStepMoves ==
  ASSUME ShapeInv, NEW p \in Procs, KeepsConf(p)
  PROVE  Moves(p)
<1>1. Quiet
  BY DEF KeepsConf, FindEntry, Check, NeedFile, SetSecret, Wipe, DropFile, Halt, Rm,
         Create, Discard, Return, Quiet
<1>2. cmd[p] # None /\ (End(p) \/ (cmd[p].todo # <<>> /\ Skip(p)))
  BY AtRuns DEF KeepsConf, FindEntry, Check, NeedFile, SetSecret, Wipe, DropFile, Halt,
         Rm, Create, Discard, Return
<1>. QED
  BY <1>1, <1>2, SkipMoves, EndMoves

\* The steps that change the command's own record.
OwnStep(p) ==
  \/ Load(p) \/ Merge(p) \/ Generate(p) \/ DecideAuth(p) \/ Recall(p) \/ Agree(p) \/ Mint(p)
  \/ Drop(p) \/ WriteFile(p) \/ Vet(p) \/ Signal(p) \/ NeedUp(p) \/ Startup(p)
  \/ Recreate(p)

\* They leave pg.yaml alone too, and change nothing of the command that the
\* invariant speaks of but what Load has read.
LEMMA OwnStepMoves ==
  ASSUME ShapeInv, NEW p \in Procs, OwnStep(p)
  PROVE  Moves(p)
<1>1. Quiet
  BY DEF OwnStep, Load, Merge, Generate, DecideAuth, Recall, Agree, Mint, Drop, WriteFile, Vet,
         Signal, NeedUp, Startup, Recreate, Quiet
<1>2. cmd[p] # None /\ cmd[p].todo # <<>>
  BY AtRuns DEF OwnStep, Load, Merge, Generate, DecideAuth, Recall, Agree, Mint, Drop, WriteFile,
         Vet, Signal, NeedUp, Startup, Recreate
<1> DEFINE Onward == \E c : Like(p, c) /\ Go(p, c)
<1>3. End(p) \/ Skip(p) \/ Onward
  <2>1. CASE Load(p)
    BY <2>1, <1>2, FieldLike DEF Load
  <2>2. CASE Merge(p)
    BY <2>2, <1>2, FieldLike DEF Merge
  <2>3. CASE Generate(p)
    BY <2>3, <1>2, FieldLike DEF Generate
  <2>4. CASE Recall(p)
    BY <2>4, <1>2, FieldLike DEF Recall
  <2>5. CASE Agree(p)
    BY <2>5, <1>2, FieldLike DEF Agree
  <2>6. CASE Mint(p)
    BY <2>6, <1>2, FieldLike DEF Mint
  <2>7. CASE Drop(p)
    BY <2>7, <1>2, FieldLike DEF Drop
  <2>8. CASE WriteFile(p)
    BY <2>8, <1>2, FieldLike DEF WriteFile
  <2>9. CASE Vet(p)
    BY <2>9, <1>2, FieldLike DEF Vet
  <2>10. CASE Signal(p)
    BY <2>10, <1>2, FieldLike DEF Signal
  <2>11. CASE NeedUp(p)
    BY <2>11, <1>2, FieldLike DEF NeedUp
  <2>12. CASE Startup(p)
    BY <2>12, <1>2, FieldLike DEF Startup
  <2>13. CASE Recreate(p)
    BY <2>13, <1>2, FieldLike DEF Recreate
  <2>14. CASE DecideAuth(p)
    BY <2>14, <1>2, FieldLike DEF DecideAuth
  <2>. QED
    BY <2>1, <2>2, <2>3, <2>4, <2>5, <2>6, <2>7, <2>8, <2>9, <2>10, <2>11, <2>12, <2>13,
       <2>14
       DEF OwnStep
<1>. QED
  BY <1>1, <1>2, <1>3, SkipMoves, EndMoves, GoMoves

\* Only a command that may save is at a step that saves or chooses.
LEMMA AtSaver ==
  ASSUME ShapeInv, NEW p \in Procs, At(p, {"save"}) \/ At(p, {"choose"})
  PROVE  Saver(p)
<1>1. cmd[p] # None /\ cmd[p].todo # <<>> /\ Head(cmd[p].todo) \in {"save", "choose"}
  BY DEF At
<1>2. ASSUME ~Writer(cmd[p]) PROVE FALSE
  <2>1. LeavesConf(cmd[p].todo)
    BY <1>1, <1>2 DEF ShapeInv, CmdOK
  <2>2. Head(cmd[p].todo) = cmd[p].todo[1] /\ 1 \in DOMAIN cmd[p].todo
    BY <2>1, <1>1 DEF LeavesConf
  <2>. QED
    BY <2>1, <2>2, <1>1 DEF LeavesConf
<1>. QED
  BY <1>1, <1>2 DEF Saver

\* An install takes its branch.
LEMMA ChooseMoves ==
  ASSUME ShapeInv, NEW p \in Procs, Choose(p)
  PROVE  Moves(p)
<1>1. Saver(p) /\ cmd[p] # None
  BY AtSaver DEF Choose, Saver
<1>2. PICK t, b : cmd' = [cmd EXCEPT ![p].todo = t, ![p].force = FALSE,
                                     ![p].asked = FALSE, ![p].built = b]
  BY DEF Choose
<1> DEFINE d == [cmd[p] EXCEPT !.todo = t, !.force = FALSE, !.asked = FALSE, !.built = b]
<1>3. cmd' = [cmd EXCEPT ![p] = d]
  BY <1>2 DEF ShapeInv, Over
<1>4. cmd'[p] = d
  BY <1>3 DEF ShapeInv, Over
<1>5. {"op", "name", "todo", "seen"} \subseteq DOMAIN cmd[p]
  BY <1>1 DEF ShapeInv, CmdOK
<1>6. DOMAIN d = DOMAIN cmd[p] /\ d.op = cmd[p].op /\ d.name = cmd[p].name
      /\ d.seen = cmd[p].seen
  BY <1>5
<1>7. Continues(cmd[p], d)
  BY <1>1, <1>5, <1>6 DEF Continues, Saver
<1>. QED
  BY <1>1, <1>3, <1>4, <1>7 DEF Moves, Choose

-----------------------------------------------------------------------------
\* The steps that write pg.yaml, begin a command or are faults.

\* Save writes the command's entry over what it loaded: while the loss is not
\* marked, that is the file with one entry changed.
LEMMA SaveKeeps ==
  ASSUME WInv, NEW p \in Procs, Save(p)
  PROVE  WInv'
<1>1. ShapeInv /\ cmd[p] # None /\ cmd[p].todo # <<>> /\ Saver(p) /\ CmdOK(cmd[p])
  BY AtRuns, AtSaver DEF Save, WInv, ShapeInv
<1> DEFINE n == cmd[p].name
           e == Kept(K(p), Work(p))
           d == [cmd[p] EXCEPT !.todo = Tail(@)]
<1>2. conf' = [cmd[p].seen EXCEPT ![n] = e] /\ last' = [last EXCEPT ![n] = e]
  BY DEF Save, Written, N
<1>3. cmd' = [cmd EXCEPT ![p] = d] /\ kind' = kind /\ lossy' = lossy
  BY DEF Save, Skip, Go
<1>4. \A q \in Procs : cmd'[q] = (IF q = p THEN d ELSE cmd[q])
  BY <1>1, <1>3 DEF ShapeInv, Over
<1>5. DOMAIN d = DOMAIN cmd[p] /\ d.op = cmd[p].op /\ d.name = cmd[p].name
      /\ d.seen = cmd[p].seen
  BY <1>1 DEF CmdOK
<1>6. n \in Names /\ Over(Names, cmd[p].seen) /\ Over(Names, conf) /\ Over(Names, last)
  BY <1>1 DEF CmdOK, ShapeInv
<1>7. ShapeInv'
  <2>1. Over(Procs, cmd')
    BY <1>1, <1>3 DEF ShapeInv, Over
  <2>2. Over(Names, conf') /\ Over(Names, last')
    BY <1>2, <1>6 DEF Over
  <2>3. CmdOK(d)
    BY <1>1, <1>5, <1>6 DEF CmdOK, Saver, Writer
  <2>4. \A q \in Procs : cmd'[q] # None => CmdOK(cmd'[q])
    BY <1>1, <1>4, <2>3 DEF ShapeInv
  <2>. QED
    BY <1>1, <1>3, <2>1, <2>2, <2>4 DEF ShapeInv, Over, CmdOK, LeavesConf, Writer
<1>8. ASSUME UpdateInv PROVE UpdateInv'
  <2>1. \A m \in Names : m # n => cmd[p].seen[m] = conf[m]
    BY <1>1, <1>8 DEF UpdateInv, Current
  <2>2. \A m \in Names : conf'[m] = (IF m = n THEN e ELSE conf[m])
    BY <1>2, <1>6, <2>1 DEF Over
  <2>3. \A m \in Names : last'[m] = (IF m = n THEN e ELSE last[m])
    BY <1>2, <1>6 DEF Over
  <2>4. Over(Names, conf') /\ Over(Names, last')
    BY <1>2, <1>6 DEF Over
  <2>5. conf = last
    BY <1>8 DEF UpdateInv
  <2>6. [m \in Names |-> conf'[m]] = [m \in Names |-> last'[m]]
    BY <2>2, <2>3, <2>5
  <2>7. conf' = last'
    BY <2>4, <2>6 DEF Over
  <2>8. \A q \in Procs : Saver(q)' => Saver(q)
    BY <1>1, <1>4 DEF Saver
  <2>9. \A q \in Procs : Saver(q)' => q = p
    BY <2>8, <1>1, <1>8 DEF UpdateInv
  <2>10. Current(p)'
    BY <1>4, <1>5, <2>1, <2>2 DEF Current
  <2>. QED
    BY <2>7, <2>9, <2>10 DEF UpdateInv
<1>. QED
  BY <1>3, <1>7, <1>8 DEF WInv

\* A new command has loaded nothing yet, and is alone or marks the loss.
LEMMA BeginKeeps ==
  ASSUME WInv, NEW p \in Procs, NEW c, Begin(p, c), CmdOK(c), c.seen = conf
  PROVE  WInv'
<1>1. \A q \in Procs : cmd'[q] = (IF q = p THEN c ELSE cmd[q])
  BY DEF Begin, WInv, ShapeInv, Over
<1>2. ShapeInv'
  <2>1. Over(Procs, cmd')
    BY DEF Begin, WInv, ShapeInv, Over
  <2>2. \A q \in Procs : cmd'[q] # None => CmdOK(cmd'[q])
    BY <1>1 DEF WInv, ShapeInv
  <2>. QED
    BY <2>1, <2>2 DEF Begin, WInv, ShapeInv, Over, CmdOK, LeavesConf, Writer
<1>3. ASSUME ~lossy' PROVE UpdateInv'
  <2>1. UpdateInv
    BY <1>3 DEF WInv, Begin
  <2>2. ASSUME Writer(c), NEW q \in Procs, q # p PROVE ~Saver(q)
    BY <1>3, <2>2 DEF Begin, Saver
  <2>3. \A q \in Procs : q # p => (Saver(q)' <=> Saver(q))
    BY <1>1 DEF Saver
  <2>4. Saver(p)' => Writer(c)
    BY <1>1 DEF Saver
  <2>5. \A q, r \in Procs : Saver(q)' /\ Saver(r)' => q = r
    BY <2>1, <2>2, <2>3, <2>4 DEF UpdateInv
  <2>6. \A q \in Procs : Saver(q)' => Current(q)'
    BY <1>1, <2>1, <2>3 DEF UpdateInv, Current, Begin
  <2>. QED
    BY <2>1, <2>5, <2>6 DEF UpdateInv, Begin
<1>. QED
  BY <1>2, <1>3 DEF WInv

\* Every command of the program begins that way.
LEMMA CallKeeps ==
  ASSUME WInv, NEW p \in Procs, Call(p)
  PROVE  WInv'
<1>1. PICK n \in Names : \/ Install(p, n) \/ Start(p, n) \/ Stop(p, n) \/ Remove(p, n)
                         \/ Reload(p, n) \/ Set(p, n) \/ Serve(p, n)
  BY DEF Call
<1>2. Over(Names, conf) /\ kind[n] \in Kinds
  BY DEF WInv, ShapeInv
<1>3. CASE Install(p, n)
  <2>1. PICK force, asked, want, pw :
          Begin(p, [NewCommand(n, "install", kind[n].install.prepare)
                      EXCEPT !.force = force, !.asked = asked, !.want = want, !.pw = pw])
    BY <1>3, ZenonT(40) DEF Install
  <2> DEFINE c == [NewCommand(n, "install", kind[n].install.prepare)
                      EXCEPT !.force = force, !.asked = asked, !.want = want, !.pw = pw]
  <2>2. CmdOK(c) /\ c.seen = conf
    BY <1>2 DEF NewCommand, CmdOK, Writer
  <2>. QED
    BY <2>1, <2>2, BeginKeeps
<1>4. CASE Start(p, n)
  <2> DEFINE c == NewCommand(n, "start", kind[n].use.start)
  <2>1. LeavesConf(kind[n].use.start)
    BY <1>2, ReadersAssumption DEF LeavesConf
  <2>2. CmdOK(c) /\ c.seen = conf
    BY <1>2, <2>1 DEF NewCommand, CmdOK, Writer
  <2>. QED
    BY <1>4, <2>2, BeginKeeps DEF Start
<1>5. CASE Stop(p, n)
  <2> DEFINE c == NewCommand(n, "stop", kind[n].use.stop)
  <2>1. LeavesConf(kind[n].use.stop)
    BY <1>2, ReadersAssumption DEF LeavesConf
  <2>2. CmdOK(c) /\ c.seen = conf
    BY <1>2, <2>1 DEF NewCommand, CmdOK, Writer
  <2>. QED
    BY <1>5, <2>2, BeginKeeps DEF Stop
<1>6. CASE Remove(p, n)
  <2>1. PICK clean : Begin(p, [NewCommand(n, "remove", kind[n].use.remove)
                                 EXCEPT !.clean = clean])
    BY <1>6 DEF Remove
  <2> DEFINE c == [NewCommand(n, "remove", kind[n].use.remove) EXCEPT !.clean = clean]
  <2>2. CmdOK(c) /\ c.seen = conf
    BY <1>2 DEF NewCommand, CmdOK, Writer
  <2>. QED
    BY <2>1, <2>2, BeginKeeps
<1>7. CASE Reload(p, n)
  <2> DEFINE c == NewCommand(n, "reload", kind[n].use.reload)
  <2>1. LeavesConf(kind[n].use.reload)
    BY <1>2, ReadersAssumption DEF LeavesConf
  <2>2. CmdOK(c) /\ c.seen = conf
    BY <1>2, <2>1 DEF NewCommand, CmdOK, Writer
  <2>. QED
    BY <1>7, <2>2, BeginKeeps DEF Reload
<1>8. CASE Set(p, n)
  <2>1. PICK asked, want : Begin(p, [NewCommand(n, "set", kind[n].use.set)
                                       EXCEPT !.asked = asked, !.want = want])
    BY <1>8 DEF Set
  <2> DEFINE c == [NewCommand(n, "set", kind[n].use.set)
                     EXCEPT !.asked = asked, !.want = want]
  <2>2. CmdOK(c) /\ c.seen = conf
    BY <1>2 DEF NewCommand, CmdOK, Writer
  <2>. QED
    BY <2>1, <2>2, BeginKeeps
<1>9. CASE Serve(p, n)
  <2> DEFINE c == NewCommand(n, "serve", <<"load", "save">>)
  <2>1. CmdOK(c) /\ c.seen = conf
    BY <1>2 DEF NewCommand, CmdOK, Writer
  <2>. QED
    BY <1>9, <2>1, BeginKeeps DEF Serve
<1>. QED
  BY <1>1, <1>3, <1>4, <1>5, <1>6, <1>7, <1>8, <1>9

\* Faults end commands, or change nothing the invariant speaks of; a save that
\* is cut short marks the loss.
LEMMA FaultKeeps ==
  ASSUME WInv, Fault
  PROVE  WInv'
<1>0. ShapeInv
  BY DEF WInv
<1>1. ASSUME NEW p \in Procs, Fail(p) PROVE WInv'
  <2>1. Quiet
    BY <1>1 DEF Fail, Quiet
  <2>2. cmd[p] # None /\ cmd[p].todo # <<>> /\ (Skip(p) \/ End(p))
    BY <1>1 DEF Fail
  <2>3. Moves(p)
    BY <1>0, <2>1, <2>2, SkipMoves, EndMoves
  <2>. QED
    BY <2>3, MoveKeeps
<1>2. ASSUME NEW p \in Procs, Kill(p) PROVE WInv'
  <2>1. Quiet /\ cmd[p] # None /\ End(p)
    BY <1>2 DEF Kill, Quiet
  <2>2. Moves(p)
    BY <1>0, <2>1, EndMoves
  <2>. QED
    BY <2>2, MoveKeeps
<1>3. ASSUME NEW p \in Procs, Tear(p) PROVE WInv'
  <2>1. cmd' = [cmd EXCEPT ![p] = None] /\ last' = last /\ kind' = kind /\ lossy'
    BY <1>3 DEF Tear, End
  <2>2. Over(Procs, cmd') /\ \A q \in Procs : cmd'[q] # None => cmd'[q] = cmd[q]
    BY <1>0, <2>1 DEF ShapeInv, Over
  <2>3. PICK kept : conf' = [n \in Names |-> IF n \in kept THEN Written(p)[n] ELSE None]
    BY <1>3 DEF Tear
  <2>4. Over(Names, conf')
    BY <2>3 DEF Over
  <2>. QED
    BY <1>0, <2>1, <2>2, <2>4 DEF WInv, ShapeInv, CmdOK, LeavesConf, Writer, Over
<1>4. ASSUME NEW n \in Names, Die(n) PROVE WInv'
  BY <1>4 DEF Die, WInv, ShapeInv, UpdateInv, CmdOK, LeavesConf, Writer, Over, Saver, Current
<1>5. ASSUME Reboot PROVE WInv'
  <2>1. cmd' = [p \in Procs |-> None] /\ UNCHANGED <<kind, conf, last, lossy>>
    BY <1>5 DEF Reboot
  <2>2. Over(Procs, cmd') /\ \A q \in Procs : cmd'[q] = None
    BY <2>1 DEF Over
  <2>. QED
    BY <2>1, <2>2 DEF WInv, ShapeInv, UpdateInv, Over, Saver
<1>. QED
  BY <1>1, <1>2, <1>3, <1>4, <1>5 DEF Fault

-----------------------------------------------------------------------------
\* The invariant holds when nothing is installed and no command runs.
LEMMA WInvInit ==
  ASSUME Init
  PROVE  WInv
BY DEF Init, WInv, ShapeInv, UpdateInv, Over, Saver

\* One case for each group of steps, for the calls and for the faults.
LEMMA WInvStep ==
  ASSUME WInv, [Next]_vars
  PROVE  WInv'
<1>0. ShapeInv
  BY DEF WInv
<1>1. ASSUME NEW p \in Procs, Step(p) PROVE WInv'
  <2>1. CASE Save(p)
    BY <2>1, SaveKeeps
  <2>2. CASE Choose(p)
    BY <1>0, <2>2, ChooseMoves, MoveKeeps
  <2>3. CASE KeepsConf(p)
    BY <1>0, <2>3, PlainStepMoves, MoveKeeps
  <2>4. CASE OwnStep(p)
    BY <1>0, <2>4, OwnStepMoves, MoveKeeps
  <2>. QED
    BY <1>1, <2>1, <2>2, <2>3, <2>4 DEF Step, KeepsConf, OwnStep
<1>2. CASE UNCHANGED vars
  BY <1>2 DEF vars, WInv, ShapeInv, UpdateInv, CmdOK, LeavesConf, Writer, Over, Saver, Current
<1>. QED
  BY <1>1, <1>2, CallKeeps, FaultKeeps DEF Next

\* pg.yaml has of every add-on what the last command on it saved, unless two
\* commands that save overlapped or a save was cut short: for any add-ons, any
\* number of commands at once, any faults, and any kinds whose start, stop and
\* reload do not save (Config.Save and the handlers around it).
THEOREM UpdatesKept == Spec => []NoLostUpdate
<1>1. Init => WInv
  BY WInvInit
<1>2. WInv /\ [Next]_vars => WInv'
  BY WInvStep
<1>3. WInv => NoLostUpdate
  BY DEF WInv, UpdateInv, NoLostUpdate
<1>. QED
  BY <1>1, <1>2, <1>3, PTL DEF Spec

-----------------------------------------------------------------------------
\* Programs, once more.

\* What Left says of the rest of a program, when its first step is done.
LEMMA LeftTail ==
  ASSUME NEW s \in Seq(Ops), s # <<>>, NEW t \in BOOLEAN, NEW u \in BOOLEAN,
         NEW give, NEW lose, Left(s, t, give, lose),
         Head(s) \in give \/ (t /\ Head(s) \notin lose) => u
  PROVE  Left(Tail(s), u, give, lose)
<1>1. Tail(s) \in Seq(Ops) /\ Len(Tail(s)) = Len(s) - 1 /\ Len(s) \in Nat \ {0} /\ Head(s) = s[1]
  OBVIOUS
<1>2. \A i \in 1..(Len(s) - 1) : Tail(s)[i] = s[i + 1] /\ i + 1 \in DOMAIN s
  OBVIOUS
<1>3. DOMAIN Tail(s) = 1..(Len(s) - 1) /\ DOMAIN s = 1..Len(s) /\ 1 \in DOMAIN s
  BY <1>1
<1>4. ASSUME t, \A j \in DOMAIN s : s[j] \notin lose PROVE Left(Tail(s), u, give, lose)
  <2>1. u
    BY <1>1, <1>3, <1>4
  <2>2. \A j \in DOMAIN Tail(s) : Tail(s)[j] \notin lose
    BY <1>2, <1>3, <1>4
  <2>. QED
    BY <2>1, <2>2 DEF Left
<1>5. ASSUME NEW g \in DOMAIN s, s[g] \in give, \A j \in DOMAIN s : j > g => s[j] \notin lose
      PROVE  Left(Tail(s), u, give, lose)
  <2>1. CASE g = 1
    <3>1. u
      BY <1>1, <1>5, <2>1
    <3>2. ASSUME NEW j \in DOMAIN Tail(s) PROVE Tail(s)[j] \notin lose
      <4>1. j \in 1..(Len(s) - 1) /\ j + 1 > g
        BY <1>3, <2>1
      <4>. QED
        BY <1>2, <1>5, <4>1
    <3>. QED
      BY <3>1, <3>2 DEF Left
  <2>2. CASE g # 1
    <3>1. g - 1 \in 1..(Len(s) - 1)
      BY <1>1, <1>3, <2>2
    <3>2. g - 1 \in DOMAIN Tail(s) /\ Tail(s)[g - 1] \in give
      BY <1>2, <1>3, <1>5, <3>1
    <3>3. ASSUME NEW j \in DOMAIN Tail(s), j > g - 1 PROVE Tail(s)[j] \notin lose
      <4>1. j \in 1..(Len(s) - 1) /\ j + 1 > g
        BY <1>3, <3>1, <3>3
      <4>. QED
        BY <1>2, <1>5, <4>1
    <3>. QED
      BY <3>2, <3>3 DEF Left
  <2>. QED
    BY <2>1, <2>2
<1>. QED
  BY <1>4, <1>5 DEF Left

\* At the end of a program there is what it has left.
LEMMA LeftEnd ==
  ASSUME NEW t \in BOOLEAN, NEW give, NEW lose, Left(<<>>, t, give, lose)
  PROVE  t
BY DEF Left

\* What is there from the start may come from elsewhere.
LEMMA LeftWeaker ==
  ASSUME NEW s, NEW t \in BOOLEAN, NEW u \in BOOLEAN, NEW give, NEW lose,
         Left(s, t, give, lose), t => u
  PROVE  Left(s, u, give, lose)
BY DEF Left

-----------------------------------------------------------------------------
\* What a step does to the secrets, the file and the containers.

\* What a step that goes on as the record d does to the secret in memory.
Draws(p, d) ==
  LET op == Head(cmd[p].todo)
      c == cmd[p]
      n == c.name
  IN /\ op \in {"generate", "rotate"} => d.work.sec # None
     /\ op \in {"generate", "recall"} /\ c.work.sec # None => d.work = c.work
     /\ op \in {"adopt", "mint"} /\ c.work.sec # None => d.work.sec # None
     /\ op \in Proves => \/ data[n] = None
                         \/ data[n].sec = None
                         \/ d.work.sec = data[n].sec

\* The steps that give the entry in memory another secret draw it so.
LEMMA StepDraws ==
  ASSUME TypeInv, NEW p \in Procs, Step(p), cmd[p] # None, cmd[p].todo # <<>>,
         NEW d, cmd'[p] = d, d # None
  PROVE  Draws(p, d)
<1>0. PICK op, c, n : op = Head(cmd[p].todo) /\ c = cmd[p] /\ n = c.name
  OBVIOUS
<1>1. /\ {"todo", "work"} \subseteq DOMAIN c
      /\ c \in Command
      /\ N(p) = n
      /\ Work(p) = c.work
      /\ op \in Uses => c.work \in Entry
  BY <1>0, AtStep DEF Command
<1>2. ~End(p)
  BY EndGone
<1>3. ASSUME Skip(p) PROVE d.work = c.work
  <2>1. d = [c EXCEPT !.todo = Tail(@)]
    BY <1>0, <1>3, GoFields DEF Skip
  <2>. QED
    BY <1>1, <2>1
<1>4. ASSUME NEW x, Go(p, [c EXCEPT !.work.sec = x]), op \in Uses PROVE d.work.sec = x
  <2>1. d = [[c EXCEPT !.work.sec = x] EXCEPT !.todo = Tail(@)]
    BY <1>0, <1>4, GoFields
  <2>2. d.work = [c.work EXCEPT !.sec = x]
    BY <1>1, <2>1
  <2>3. "sec" \in DOMAIN c.work
    BY <1>1, <1>4 DEF Entry
  <2>. QED
    BY <2>2, <2>3
<1>5. CASE Generate(p)
  <2>1. op \in {"generate", "rotate"} /\ op \in Uses
    BY <1>0, <1>5 DEF Generate, At, Uses
  <2>2. \/ op = "generate" /\ c.work.sec # None /\ Skip(p)
        \/ /\ ~(op = "generate" /\ c.work.sec # None)
           /\ Fresh # None
           /\ Go(p, [c EXCEPT !.work.sec = Fresh])
    BY <1>0, <1>1, <1>2, <1>5 DEF Generate
  <2>3. CASE op = "generate" /\ c.work.sec # None /\ Skip(p)
    BY <1>0, <1>3, <2>1, <2>3 DEF Draws, Proves
  <2>4. CASE /\ ~(op = "generate" /\ c.work.sec # None)
             /\ Fresh # None
             /\ Go(p, [c EXCEPT !.work.sec = Fresh])
    <3>1. d.work.sec = Fresh
      BY <1>4, <2>1, <2>4
    <3>. QED
      BY <1>0, <2>1, <2>4, <3>1 DEF Draws, Proves
  <2>. QED
    BY <2>2, <2>3, <2>4
<1>6. CASE Recall(p)
  <2>1. op = "recall"
    BY <1>0, <1>6 DEF Recall, At
  <2>2. c.work.sec # None => Skip(p)
    BY <1>0, <1>1, <1>6 DEF Recall
  <2>. QED
    BY <1>0, <1>3, <2>1, <2>2 DEF Draws, Proves
<1>7. CASE Agree(p)
  <2>1. op \in {"adopt", "fit"} /\ op \in Uses
    BY <1>0, <1>7 DEF Agree, At, Uses
  <2> DEFINE clash == data[n] # None /\ data[n].sec # None /\ c.work.sec # data[n].sec
  <2>2. \/ ~clash /\ Skip(p)
        \/ clash /\ op = "adopt" /\ Go(p, [c EXCEPT !.work.sec = data[n].sec])
    BY <1>0, <1>1, <1>2, <1>7 DEF Agree
  <2>3. CASE ~clash /\ Skip(p)
    BY <1>0, <1>3, <2>1, <2>3 DEF Draws, Proves
  <2>4. CASE clash /\ op = "adopt" /\ Go(p, [c EXCEPT !.work.sec = data[n].sec])
    <3>1. d.work.sec = data[n].sec
      BY <1>4, <2>1, <2>4
    <3>. QED
      BY <1>0, <2>4, <3>1 DEF Draws, Proves
  <2>. QED
    BY <2>2, <2>3, <2>4
<1>8. CASE Mint(p)
  <2>1. op = "mint" /\ op \in Uses
    BY <1>0, <1>8 DEF Mint, At, Uses
  <2>2. Skip(p) \/ (Fresh # None /\ Go(p, [c EXCEPT !.work.sec = Fresh]))
    BY <1>0, <1>8 DEF Mint
  <2>3. d.work = c.work \/ (Fresh # None /\ d.work.sec = Fresh)
    BY <1>3, <1>4, <2>1, <2>2
  <2>. QED
    BY <1>0, <2>1, <2>3 DEF Draws, Proves
<1>9. CASE ~KeyStep(p)
  <2>1. op \notin {"generate", "rotate", "auth", "recall", "adopt", "fit", "mint"}
    <3>1. ~(Load(p) \/ FindEntry(p) \/ Check(p) \/ Merge(p) \/ Choose(p) \/ Save(p) \/ Drop(p)
            \/ WriteFile(p) \/ Vet(p) \/ Signal(p) \/ NeedFile(p) \/ NeedUp(p))
          \/ op \notin {"generate", "rotate", "auth", "recall", "adopt", "fit", "mint"}
      BY <1>0 DEF Load, FindEntry, Check, Merge, Choose, Save, Drop, WriteFile, Vet, Signal,
           NeedFile, NeedUp, At
    <3>2. ~(SetSecret(p) \/ Wipe(p) \/ DropFile(p) \/ Halt(p) \/ Rm(p) \/ Create(p)
            \/ Startup(p) \/ Discard(p) \/ Recreate(p) \/ Return(p))
          \/ op \notin {"generate", "rotate", "auth", "recall", "adopt", "fit", "mint"}
      BY <1>0 DEF SetSecret, Wipe, DropFile, Halt, Rm, Create, Startup, Discard, Recreate,
           Return, At
    <3>. QED
      BY <1>9, <3>1, <3>2 DEF Step, KeyStep
  <2>. QED
    BY <1>0, <2>1 DEF Draws, Proves
<1>10. CASE DecideAuth(p)
  <2>1. op = "auth"
    BY <1>0, <1>10 DEF DecideAuth, At
  <2>. QED
    BY <1>0, <2>1 DEF Draws, Proves
<1>. QED
  BY <1>5, <1>6, <1>7, <1>8, <1>9, <1>10 DEF KeyStep

\* The data of n has got the secret x, which is known when pg.yaml has it.
Sealed(n, x) ==
  /\ data'[n] = [sec |-> x]
  /\ x = None => known'[n]
  /\ conf[n] # None /\ conf[n].sec = x => known'[n]
  /\ known[n] /\ data[n] # None /\ data[n].sec = x => known'[n]

\* What a step of the command p does to the data of its add-on: they stay, go,
\* get the secret in memory, or are laid out without one.
Treats(p) ==
  LET op == Head(cmd[p].todo)
      c == cmd[p]
      n == c.name
      d == cmd'[p]
  IN \/ data'[n] = data[n] /\ (known[n] => known'[n])
     \/ data'[n] = None /\ known'[n] /\ op \in Erases
     \/ op \in Keys(kind[n]) /\ d # None /\ Sealed(n, d.work.sec)
     \/ /\ op \in Makes1 \cup Makes2 /\ kind[n].traits.binds # "data"
        /\ data[n] = None /\ data'[n] = [sec |-> None] /\ known'[n]

\* What it leaves: a save makes the secret known, and setting one binds it, as
\* does the first container of a kind whose data has it.
DataMoves(p) ==
  LET op == Head(cmd[p].todo)
      c == cmd[p]
      n == c.name
  IN /\ \A m \in Names \ {n} : data'[m] = data[m] /\ known'[m] = known[m]
     /\ Treats(p)
     /\ op = "save" /\ c.work # None /\ data[n] # None /\ data[n].sec = c.work.sec => known'[n]
     /\ op \in {"setsecret", "bootstrap", "passwd"} /\ cmd'[p] # None =>
          \/ op = "passwd" /\ c.work.sec = None
          \/ data'[n] = [sec |-> c.work.sec]
     /\ op = "create" /\ kind[n].traits.data /\ kind[n].traits.binds = "data" =>
          data'[n] = IF data[n] = None THEN [sec |-> c.work.sec] ELSE data[n]
     /\ cmd'[p] = None => UNCHANGED <<data, known>>

\* Binding seals.
LEMMA BindSeals ==
  ASSUME Stores, NEW n \in Names, NEW x, Bind(n, x)
  PROVE  /\ Sealed(n, x)
         /\ \A m \in Names \ {n} : data'[m] = data[m] /\ known'[m] = known[m]
<1>1. /\ data' = [data EXCEPT ![n] = [sec |-> x]]
      /\ known' = [known EXCEPT ![n] = \/ x = None
                                       \/ conf[n] # None /\ conf[n].sec = x
                                       \/ known[n] /\ data[n] # None /\ data[n].sec = x]
  BY DEF Bind
<1>2. data'[n] = [sec |-> x] /\ \A m \in Names \ {n} : data'[m] = data[m]
  BY <1>1 DEF Stores
<1>3. \A m \in Names \ {n} : known'[m] = known[m]
  BY <1>1 DEF Stores
<1>4. known'[n] <=> \/ x = None
                    \/ conf[n] # None /\ conf[n].sec = x
                    \/ known[n] /\ data[n] # None /\ data[n].sec = x
  BY <1>1 DEF Stores
<1>. QED
  BY <1>2, <1>3, <1>4 DEF Sealed

\* A command that goes on as it is has the entry it had.
LEMMA SkipWork ==
  ASSUME TypeInv, NEW p \in Procs, cmd[p] # None, cmd[p].todo # <<>>, Skip(p)
  PROVE  cmd'[p] # None /\ cmd'[p].work = cmd[p].work
<1>1. cmd'[p] = [cmd[p] EXCEPT !.todo = Tail(@)]
  BY GoFields DEF Skip
<1>2. cmd[p] \in Command /\ Tail(cmd[p].todo) \in Seq(Ops)
  BY AtStep
<1>3. [cmd[p] EXCEPT !.todo = Tail(@)] \in Command
  BY <1>2 DEF Command
<1>4. "work" \in DOMAIN cmd[p]
  BY <1>2 DEF Command
<1>. QED
  BY <1>1, <1>3, <1>4, NoneAssumption

\* Every step treats the data so.
LEMMA StepBinds ==
  ASSUME TypeInv, NEW p \in Procs, Step(p), cmd[p] # None, cmd[p].todo # <<>>
  PROVE  DataMoves(p)
<1>0. PICK op, c, n, k : op = Head(cmd[p].todo) /\ c = cmd[p] /\ n = c.name /\ k = kind[n]
  OBVIOUS
<1>1. /\ c \in Command /\ n \in Names /\ N(p) = n /\ K(p) = k /\ Work(p) = c.work
      /\ op \in Uses => c.work \in Entry
  BY <1>0, AtStep DEF K, N
<1>2. Stores
  BY DEF TypeInv
<1>3. ASSUME UNCHANGED <<data, known>>,
             op \notin {"save", "setsecret", "bootstrap", "passwd", "create"} \/ cmd'[p] = None,
             op \notin {"save", "create"}
      PROVE  DataMoves(p)
  BY <1>0, <1>3 DEF DataMoves, Treats
<1>4. CASE Save(p)
  <2>1. op = "save"
    BY <1>0, <1>4 DEF Save, At
  <2>2. /\ data' = data
        /\ known' = [known EXCEPT ![n] = \/ known[n]
                                         \/ c.work # None /\ data[n] # None /\ data[n].sec = c.work.sec]
    BY <1>1, <1>4 DEF Save
  <2>3. /\ \A m \in Names \ {n} : known'[m] = known[m]
        /\ known'[n] <=> \/ known[n]
                         \/ c.work # None /\ data[n] # None /\ data[n].sec = c.work.sec
    BY <1>1, <1>2, <2>2 DEF Stores
  <2>4. cmd'[p] # None
    BY <1>4, SkipWork DEF Save
  <2>. QED
    BY <1>0, <2>1, <2>2, <2>3, <2>4 DEF DataMoves, Treats
<1>5. CASE SetSecret(p)
  <2>1. op \in {"setsecret", "admin", "bootstrap", "passwd"}
    BY <1>0, <1>5 DEF SetSecret, At
  <2>2. op \in Keys(k)
    BY <2>1 DEF Keys, Binds
  <2>3. \/ End(p) /\ UNCHANGED <<data, known>>
        \/ /\ op = "admin" \/ (op = "passwd" /\ c.work.sec = None)
           /\ UNCHANGED <<data, known>>
        \/ Skip(p) /\ Bind(n, c.work.sec)
    BY <1>0, <1>1, <1>5 DEF SetSecret
  <2>4. CASE End(p) /\ UNCHANGED <<data, known>>
    BY <1>3, <2>1, <2>4, EndGone
  <2>5. CASE /\ op = "admin" \/ (op = "passwd" /\ c.work.sec = None)
             /\ UNCHANGED <<data, known>>
    BY <1>0, <2>5 DEF DataMoves, Treats
  <2>6. CASE Skip(p) /\ Bind(n, c.work.sec)
    <3>1. cmd'[p] # None /\ cmd'[p].work = c.work
      BY <1>0, <2>6, SkipWork
    <3>2. /\ Sealed(n, c.work.sec)
          /\ \A m \in Names \ {n} : data'[m] = data[m] /\ known'[m] = known[m]
      BY <1>1, <1>2, <2>6, BindSeals
    <3>3. data'[n] = [sec |-> c.work.sec]
      BY <3>2 DEF Sealed
    <3>4. Treats(p)
      BY <1>0, <2>2, <3>1, <3>2 DEF Treats
    <3>. QED
      BY <1>0, <2>1, <3>1, <3>2, <3>3, <3>4 DEF DataMoves
  <2>. QED
    BY <2>3, <2>4, <2>5, <2>6
<1>6. CASE Mint(p)
  <2>1. op = "mint" /\ op \in Uses
    BY <1>0, <1>6 DEF Mint, At, Uses
  <2>2. op \in Keys(k)
    BY <2>1 DEF Keys, Binds
  <2>3. \/ UNCHANGED <<data, known>>
        \/ Go(p, [c EXCEPT !.work.sec = Fresh]) /\ Bind(n, Fresh)
    BY <1>0, <1>1, <1>6 DEF Mint
  <2>4. CASE UNCHANGED <<data, known>>
    BY <1>3, <2>1, <2>4
  <2>5. CASE Go(p, [c EXCEPT !.work.sec = Fresh]) /\ Bind(n, Fresh)
    <3>1. cmd'[p] = [[c EXCEPT !.work.sec = Fresh] EXCEPT !.todo = Tail(@)]
      BY <1>0, <2>5, GoFields
    <3>2. {"todo", "work"} \subseteq DOMAIN c /\ "sec" \in DOMAIN c.work
      BY <1>1, <2>1 DEF Command, Entry
    <3>3. cmd'[p].work.sec = Fresh
      BY <3>1, <3>2
    <3>4. cmd'[p] # None
      <4>1. c.work \in Entry
        BY <1>1, <2>1
      <4>2. [c.work EXCEPT !.sec = Fresh] \in Entry
        BY <4>1, FreshSecret DEF Entry
      <4>3. [c EXCEPT !.work.sec = Fresh] = [c EXCEPT !.work = [c.work EXCEPT !.sec = Fresh]]
        OBVIOUS
      <4>4. Tail(c.todo) \in Seq(Ops)
        BY <1>0, AtStep
      <4> DEFINE b == [c EXCEPT !.work = [c.work EXCEPT !.sec = Fresh]]
      <4>5. b \in Command /\ b.todo = c.todo
        BY <1>1, <4>2 DEF Command
      <4>6. cmd'[p] = [b EXCEPT !.todo = Tail(@)]
        BY <3>1, <4>3
      <4>. HIDE DEF b
      <4>7. [b EXCEPT !.todo = Tail(c.todo)] \in Command
        BY <4>4, <4>5, FieldSet
      <4>8. [b EXCEPT !.todo = Tail(@)] = [b EXCEPT !.todo = Tail(c.todo)]
        BY <4>5
      <4>9. cmd'[p] \in Command
        BY <4>6, <4>7, <4>8
      <4>. QED
        BY <4>9, NoneAssumption
    <3>5. /\ Sealed(n, Fresh)
          /\ \A m \in Names \ {n} : data'[m] = data[m] /\ known'[m] = known[m]
      BY <1>1, <1>2, <2>5, BindSeals
    <3>6. Treats(p)
      BY <1>0, <2>2, <3>3, <3>4, <3>5 DEF Treats
    <3>. QED
      BY <1>0, <2>1, <3>4, <3>5, <3>6 DEF DataMoves
  <2>. QED
    BY <2>3, <2>4, <2>5
<1>7. CASE Wipe(p)
  <2>1. op \in {"wipe", "hardwipe", "wipedirs", "wipeall"}
    BY <1>0, <1>7 DEF Wipe, At
  <2>2. \/ data' = [data EXCEPT ![n] = None] /\ known' = [known EXCEPT ![n] = TRUE]
        \/ UNCHANGED <<data, known>>
    BY <1>1, <1>7 DEF Wipe
  <2>3. CASE data' = [data EXCEPT ![n] = None] /\ known' = [known EXCEPT ![n] = TRUE]
    <3>1. data'[n] = None /\ known'[n]
          /\ \A m \in Names \ {n} : data'[m] = data[m] /\ known'[m] = known[m]
      BY <1>1, <1>2, <2>3 DEF Stores
    <3>2. cmd'[p] # None
      BY <1>7, SkipWork DEF Wipe
    <3>. QED
      BY <1>0, <2>1, <3>1, <3>2 DEF DataMoves, Treats, Erases
  <2>4. CASE UNCHANGED <<data, known>>
    BY <1>3, <2>1, <2>4
  <2>. QED
    BY <2>2, <2>3, <2>4
<1>8. ASSUME op \in Makes1 \cup Makes2, cmd'[p] # None, cmd'[p].work = c.work,
             UNCHANGED <<data, known>> \/ LayOut(n, k, c.work),
             op = "create" => LayOut(n, k, c.work)
      PROVE  DataMoves(p)
  <2>1. op \notin {"save", "setsecret", "bootstrap", "passwd"}
    BY <1>8 DEF Makes1, Makes2
  <2>2. CASE UNCHANGED <<data, known>>
    <3>1. op = "create" /\ k.traits.data /\ k.traits.binds = "data" => data[n] # None
      <4>1. SUFFICES ASSUME LayOut(n, k, c.work), k.traits.data, k.traits.binds = "data",
                            data[n] = None
                     PROVE  FALSE
        BY <1>8
      <4>2. Bind(n, c.work.sec)
        BY <4>1 DEF LayOut
      <4>3. data'[n] = [sec |-> c.work.sec]
        BY <1>1, <1>2, <4>2, BindSeals DEF Sealed
      <4>4. c.work.sec \in Secrets \cup {None}
        BY <1>1, <1>8 DEF Makes1, Makes2, Uses, Entry
      <4>5. [sec |-> c.work.sec] # None
        BY <4>4, NoneAssumption
      <4>. QED
        BY <2>2, <4>1, <4>3, <4>5
    <3>. QED
      BY <1>0, <1>8, <2>1, <2>2, <3>1 DEF DataMoves, Treats
  <2>3. CASE ~UNCHANGED <<data, known>>
    <3>1. data[n] = None /\ Bind(n, IF k.traits.binds = "data" THEN c.work.sec ELSE None)
      BY <1>8, <2>3 DEF LayOut
    <3>2. CASE k.traits.binds = "data"
      <4>1. /\ Sealed(n, c.work.sec)
            /\ \A m \in Names \ {n} : data'[m] = data[m] /\ known'[m] = known[m]
        BY <1>1, <1>2, <3>1, <3>2, BindSeals
      <4>2. op \in Keys(k)
        BY <1>8, <3>2 DEF Keys
      <4>3. Treats(p)
        BY <1>0, <1>8, <4>1, <4>2 DEF Treats
      <4>. QED
        BY <1>0, <1>8, <2>1, <3>1, <4>1, <4>3 DEF DataMoves, Sealed
    <3>3. CASE k.traits.binds # "data"
      <4>1. /\ Sealed(n, None)
            /\ \A m \in Names \ {n} : data'[m] = data[m] /\ known'[m] = known[m]
        BY <1>1, <1>2, <3>1, <3>3, BindSeals
      <4>2. Treats(p)
        BY <1>0, <1>8, <3>1, <3>3, <4>1 DEF Treats, Sealed
      <4>. QED
        BY <1>0, <1>8, <2>1, <3>3, <4>1, <4>2 DEF DataMoves
    <3>. QED
      BY <3>2, <3>3
  <2>. QED
    BY <2>2, <2>3
<1>9. CASE Create(p)
  <2>1. op \in {"create", "create2"} /\ Here(p) = Part(op)
    BY <1>0, <1>9 DEF Create, At, Here
  <2>2. cmd'[p] # None /\ cmd'[p].work = c.work
    BY <1>0, <1>9, SkipWork DEF Create
  <2>3. UNCHANGED <<data, known>> \/ LayOut(n, k, c.work)
    BY <1>1, <1>9 DEF Create
  <2>4. op = "create" => LayOut(n, k, c.work)
    BY <1>1, <1>9, <2>1 DEF Create, Runs, Part
  <2>. QED
    BY <1>8, <2>1, <2>2, <2>3, <2>4 DEF Makes1, Makes2
<1>10. CASE Recreate(p)
  <2>1. op \in {"recreate", "recreate2"}
    BY <1>0, <1>10 DEF Recreate, At
  <2>2. cmd'[p] = [[c EXCEPT !.ok = FALSE] EXCEPT !.todo = Tail(@)]
    BY <1>0, <1>10, GoFields DEF Recreate
  <2>3. Tail(c.todo) \in Seq(Ops)
    BY <1>0, AtStep
  <2>4. cmd'[p] \in Command /\ cmd'[p].work = c.work
    BY <1>1, <2>2, <2>3 DEF Command
  <2>5. UNCHANGED <<data, known>> \/ LayOut(n, k, c.work)
    BY <1>0, <1>1, <1>10 DEF Recreate
  <2>. QED
    BY <1>8, <2>1, <2>4, <2>5, NoneAssumption DEF Makes1, Makes2
<1>11. CASE ~(Save(p) \/ SetSecret(p) \/ Mint(p) \/ Wipe(p) \/ Create(p) \/ Recreate(p))
  <2>1. UNCHANGED <<data, known>>
    BY <1>11 DEF Step, Load, FindEntry, Check, Merge, Generate, DecideAuth, Recall, Agree, Choose, Drop,
       WriteFile, Vet, Signal, NeedFile, NeedUp, DropFile, Halt, Rm, Startup, Discard, Return
  <2>2. op \notin {"save", "setsecret", "bootstrap", "passwd", "create"}
    BY <1>0, <1>11 DEF Step, Load, FindEntry, Check, Merge, Generate, DecideAuth, Recall, Agree, Choose,
       Drop, WriteFile, Vet, Signal, NeedFile, NeedUp, DropFile, Halt, Rm, Startup, Discard,
       Return, At
  <2>. QED
    BY <1>3, <2>1, <2>2
<1>. QED
  BY <1>4, <1>5, <1>6, <1>7, <1>9, <1>10, <1>11

\* What a step of the command p does to the rendered file of its add-on, as far
\* as the entry of the command is in it.
Prints(p) ==
  LET op == Head(cmd[p].todo)
      n == cmd[p].name
      e == cmd[p].work
      Sets(f) == f # None /\ f.set = e.set
      Tells(f) == f # None /\ f.sec = e.sec
  IN /\ op = "files" => Sets(file'[n])
     /\ op \in {"refile", "keepfile"} /\ Sets(file[n]) => Sets(file'[n])
     /\ op = "files" /\ Writes(kind[n]) => Tells(file'[n])
     /\ op \in Renders /\ Writes(kind[n]) /\ Tells(file[n]) => Tells(file'[n])

\* Every step prints so.
LEMMA StepPrints ==
  ASSUME TypeInv, NEW p \in Procs, Step(p), cmd[p] # None, cmd[p].todo # <<>>
  PROVE  Prints(p)
<1>0. PICK op, n, k, e : op = Head(cmd[p].todo) /\ n = cmd[p].name /\ k = kind[n]
                         /\ e = cmd[p].work
  OBVIOUS
<1>1. /\ n \in Names /\ N(p) = n /\ K(p) = k /\ Work(p) = e
      /\ op \in Uses => e \in Entry
  BY <1>0, AtStep DEF K, N
<1>2. CASE WriteFile(p)
  <2>1. op \in Renders /\ op \in Uses
    BY <1>0, <1>2 DEF WriteFile, At, Renders, Uses
  <2>2. PICK f \in Rendered(p) : file' = [file EXCEPT ![n] = f]
    BY <1>1, <1>2 DEF WriteFile
  <2>3. file'[n] = f
    BY <1>1, <2>2 DEF TypeInv, Stores
  <2>4. PICK new : new = [set |-> e.set, sec |-> IF Writes(k) THEN e.sec ELSE None]
    OBVIOUS
  <2>5. /\ op = "files" => f = new
        /\ op \in {"refile", "keepfile"} => f = file[n] \/ f = new
        /\ op = "secretfile" => f = [new EXCEPT !.set = IF file[n] = None THEN None ELSE file[n].set]
        /\ op = "copyfile" => \E x \in Settings \ Alone : f = [new EXCEPT !.set = x]
    BY <1>0, <1>1, <2>2, <2>4, Zenon DEF Rendered
  <2>6. new \in File /\ new.set = e.set /\ (Writes(k) => new.sec = e.sec)
    BY <1>1, <2>1, <2>4 DEF Entry, File
  <2>7. file[n] # None => file[n].set \in Settings \cup {None}
    BY <1>1 DEF TypeInv, Stores, File
  <2>8. ASSUME NEW x \in Settings \cup {None}, f = [new EXCEPT !.set = x]
        PROVE  f \in File /\ f.sec = new.sec
    BY <2>6, <2>8 DEF File
  <2>9. op \in {"secretfile", "copyfile"} => f # None /\ f.sec = new.sec
    BY <2>5, <2>7, <2>8, NoneAssumption
  <2>10. new # None
    BY <2>6, NoneAssumption
  <2>11. op \in {"files", "refile", "keepfile", "secretfile", "copyfile"}
    BY <2>1 DEF Renders
  <2>. QED
    BY <1>0, <2>3, <2>5, <2>6, <2>9, <2>10, <2>11 DEF Prints
<1>3. CASE ~WriteFile(p)
  <2>1. op \notin Renders
    <3>1. ~(Load(p) \/ FindEntry(p) \/ Check(p) \/ Merge(p) \/ Generate(p) \/ DecideAuth(p) \/ Recall(p)
            \/ Agree(p) \/ Choose(p) \/ Mint(p) \/ Save(p) \/ Drop(p) \/ Vet(p) \/ Signal(p)
            \/ NeedFile(p) \/ NeedUp(p)) \/ op \notin Renders
      BY <1>0 DEF Load, FindEntry, Check, Merge, Generate, DecideAuth, Recall, Agree, Choose, Mint, Save,
           Drop, Vet, Signal, NeedFile, NeedUp, At, Renders
    <3>2. ~(SetSecret(p) \/ Wipe(p) \/ DropFile(p) \/ Halt(p) \/ Rm(p) \/ Create(p)
            \/ Startup(p) \/ Discard(p) \/ Recreate(p) \/ Return(p)) \/ op \notin Renders
      BY <1>0 DEF SetSecret, Wipe, DropFile, Halt, Rm, Create, Startup, Discard, Recreate,
           Return, At, Renders
    <3>. QED
      BY <1>3, <3>1, <3>2 DEF Step
  <2>. QED
    BY <1>0, <2>1 DEF Prints, Renders
<1>. QED
  BY <1>2, <1>3

-----------------------------------------------------------------------------
\* The step that makes the container r.
Founds(r) == IF r = 1 THEN "create" ELSE "create2"

\* The container b has read the file f, or its kind has none.
Fresher(k, b, f) == k.traits.files => b.loaded = f

\* What a step of the command p does to the container r of its add-on: unless it
\* makes or removes it, the container keeps its settings and its secret, and has
\* read the file if it had.
Spares(p, r) ==
  LET op == Head(cmd[p].todo)
      n == cmd[p].name
      k == kind[n]
      e == cmd[p].work
  IN /\ op = Founds(r) /\ Runs(e, r) => box'[n][r] = NewBox(n, k, e)
     /\ op \notin Clears(r) \cup {Founds(r)} /\ Exists(n, r) =>
          /\ box'[n][r] # None
          /\ box'[n][r].set = box[n][r].set
          /\ box'[n][r].sec = box[n][r].sec
          /\ Fresher(k, box[n][r], file[n]) => Fresher(k, box'[n][r], file[n])

\* A container in another state is the same.
LEMMA BoxTurned ==
  ASSUME NEW b \in Box, NEW u \in BOOLEAN, NEW d, d = [b EXCEPT !.up = u]
  PROVE  d \in Box /\ d.set = b.set /\ d.sec = b.sec /\ d.loaded = b.loaded
BY DEF Box

\* So is one that has read another file.
LEMMA BoxReread ==
  ASSUME NEW b \in Box, NEW f \in File \cup {None}, NEW d, d = [b EXCEPT !.loaded = f]
  PROVE  d \in Box /\ d.set = b.set /\ d.sec = b.sec /\ d.loaded = f
BY DEF Box

\* Every step on containers spares them so.
LEMMA BoxStepSpares ==
  ASSUME TypeInv, NEW p \in Procs, BoxStep(p), NEW q \in Parts
  PROVE  Spares(p, q)
<1>0. PICK op, n, k, e, r : /\ op = Head(cmd[p].todo) /\ n = cmd[p].name /\ k = kind[n]
                            /\ e = cmd[p].work /\ r = Here(p)
  OBVIOUS
<1>1. cmd[p] # None /\ cmd[p].todo # <<>>
  BY DEF BoxStep, Signal, Halt, Rm, Create, Startup, Discard, Recreate, At
<1>2. /\ n \in Names /\ N(p) = n /\ K(p) = k /\ Work(p) = e
      /\ op \in Uses => e \in Entry
  BY <1>0, <1>1, AtStep DEF K, N
<1>3. /\ box \in [Names -> [Parts -> Box \cup {None}]]
      /\ file[n] \in File \cup {None}
      /\ box[n][q] \in Box \cup {None}
  BY <1>2 DEF TypeInv, Stores
<1>4. Part(op) \in {1, 2} /\ r = Part(op) /\ q \in {1, 2}
  BY <1>0 DEF Here, Part, Parts
<1>5. ASSUME op # Founds(q), op \in Clears(q) \/ box'[n][q] = box[n][q]
      PROVE  Spares(p, q)
  BY <1>0, <1>5 DEF Spares, Exists
<1>6. ASSUME op # Founds(q), box[n][q] \in Box, NEW u \in BOOLEAN,
             \/ box'[n][q] = [box[n][q] EXCEPT !.up = u]
             \/ box'[n][q] = [box[n][q] EXCEPT !.loaded = file[n]]
             \/ box'[n][q] = [[box[n][q] EXCEPT !.up = u] EXCEPT !.loaded =
                                IF k.traits.files THEN file[n] ELSE None]
      PROVE  Spares(p, q)
  <2>1. /\ box'[n][q] \in Box
        /\ box'[n][q].set = box[n][q].set
        /\ box'[n][q].sec = box[n][q].sec
        /\ Fresher(k, box[n][q], file[n]) => Fresher(k, box'[n][q], file[n])
    <3>1. CASE box'[n][q] = [box[n][q] EXCEPT !.up = u]
      BY <1>6, <3>1, BoxTurned DEF Fresher
    <3>2. CASE box'[n][q] = [box[n][q] EXCEPT !.loaded = file[n]]
      <4>1. file[n] \in File \cup {None} /\ box[n][q] \in Box
        BY <1>3, <1>6
      <4>2. /\ box'[n][q] \in Box
            /\ box'[n][q].set = box[n][q].set
            /\ box'[n][q].sec = box[n][q].sec
            /\ box'[n][q].loaded = file[n]
        BY <3>2, <4>1, BoxReread
      <4>. QED
        BY <4>2 DEF Fresher
    <3>3. CASE box'[n][q] = [[box[n][q] EXCEPT !.up = u] EXCEPT !.loaded =
                                IF k.traits.files THEN file[n] ELSE None]
      <4>1. PICK b : b = [box[n][q] EXCEPT !.up = u]
        OBVIOUS
      <4>2. b \in Box /\ b.set = box[n][q].set /\ b.sec = box[n][q].sec
        BY <1>6, <4>1, BoxTurned
      <4>3. PICK f \in File \cup {None} : f = IF k.traits.files THEN file[n] ELSE None
        BY <1>3
      <4>4. box'[n][q] = [b EXCEPT !.loaded = f]
        BY <3>3, <4>1, <4>3
      <4>5. /\ box'[n][q] \in Box /\ box'[n][q].set = b.set /\ box'[n][q].sec = b.sec
            /\ box'[n][q].loaded = f
        BY <4>2, <4>4, BoxReread
      <4>. QED
        BY <4>2, <4>3, <4>5 DEF Fresher
    <3>. QED
      BY <1>6, <3>1, <3>2, <3>3
  <2>2. box'[n][q] # None
    BY <2>1, NoneAssumption
  <2>. QED
    BY <1>0, <1>6, <2>1, <2>2 DEF Spares
<1>7. ASSUME NEW b, box' = [box EXCEPT ![n] = [box[n] EXCEPT ![r] = b]]
      PROVE  box'[n][q] = IF q = r THEN b ELSE box[n][q]
  BY <1>2, <1>3, <1>7
<1>8. CASE Signal(p)
  <2>1. op \in {"signal", "nudge"}
    BY <1>0, <1>8 DEF Signal, At
  <2>2. op # Founds(q) /\ r = 1
    BY <1>4, <2>1 DEF Founds, Part
  <2>3. box' = box \/ (Running(n, 1) /\ box' = [box EXCEPT ![n][1].loaded = file[n]])
    BY <1>2, <1>8 DEF Signal
  <2>4. CASE box' = box
    BY <1>5, <2>2, <2>4
  <2>5. CASE Running(n, 1) /\ box' = [box EXCEPT ![n][1].loaded = file[n]]
    <3>1. box' = [box EXCEPT ![n] = [box[n] EXCEPT ![r] = [box[n][1] EXCEPT !.loaded = file[n]]]]
      BY <2>2, <2>5
    <3>2. box'[n][q] = IF q = r THEN [box[n][1] EXCEPT !.loaded = file[n]] ELSE box[n][q]
      BY <1>7, <3>1
    <3>3. q = 1 => box[n][q] \in Box
      BY <1>3, <2>5 DEF Running, Exists
    <3>. QED
      BY <1>5, <1>6, <2>2, <3>2, <3>3
  <2>. QED
    BY <2>3, <2>4, <2>5
<1>9. CASE Halt(p)
  <2>1. op \in {"halt", "halt2", "softhalt", "softhalt2"}
    BY <1>0, <1>9 DEF Halt, At
  <2>2. op # Founds(q)
    BY <2>1 DEF Founds
  <2>3. box' = box \/ (Running(n, r) /\ box' = [box EXCEPT ![n][r].up = FALSE])
    BY <1>0, <1>2, <1>9 DEF Halt
  <2>4. CASE box' = box
    BY <1>5, <2>2, <2>4
  <2>5. CASE Running(n, r) /\ box' = [box EXCEPT ![n][r].up = FALSE]
    <3>1. box' = [box EXCEPT ![n] = [box[n] EXCEPT ![r] = [box[n][r] EXCEPT !.up = FALSE]]]
      BY <2>5
    <3>2. box'[n][q] = IF q = r THEN [box[n][r] EXCEPT !.up = FALSE] ELSE box[n][q]
      BY <1>7, <3>1
    <3>3. q = r => box[n][q] \in Box
      BY <1>3, <2>5 DEF Running, Exists
    <3>. QED
      BY <1>5, <1>6, <2>2, <3>2, <3>3
  <2>. QED
    BY <2>3, <2>4, <2>5
<1>10. CASE Rm(p)
  <2>1. op \in {"rm", "rm2", "ownrm2", "strayrm2"}
    BY <1>0, <1>10 DEF Rm, At
  <2>2. op # Founds(q)
    BY <2>1 DEF Founds
  <2>3. PICK i : i = IF op = "rm" THEN 1 ELSE 2
    OBVIOUS
  <2>4. box' = box \/ box' = [box EXCEPT ![n][i] = None]
    BY <1>0, <1>2, <1>10, <2>3 DEF Rm
  <2>5. q # i => box'[n][q] = box[n][q]
    <3>1. CASE box' = box
      BY <3>1
    <3>2. CASE box' = [box EXCEPT ![n][i] = None]
      BY <1>2, <1>3, <3>2
    <3>. QED
      BY <2>4, <3>1, <3>2
  <2>6. q = i => op \in Clears(q)
    BY <1>4, <2>1, <2>3 DEF Clears
  <2>. QED
    BY <1>5, <2>2, <2>5, <2>6
<1>11. CASE Create(p)
  <2>1. op \in {"create", "create2"} /\ op \in Uses /\ e \in Entry
    BY <1>0, <1>2, <1>11 DEF Create, At, Uses
  <2>2. IF Runs(e, r) THEN box' = [box EXCEPT ![n][r] = NewBox(n, k, e)] ELSE box' = box
    BY <1>0, <1>2, <1>11 DEF Create
  <2>3. op = Founds(r) /\ (op = Founds(q) => q = r)
    BY <1>4, <2>1 DEF Founds, Part
  <2>4. CASE Runs(e, r)
    <3>1. box' = [box EXCEPT ![n] = [box[n] EXCEPT ![r] = NewBox(n, k, e)]]
      BY <2>2, <2>4
    <3>2. box'[n][q] = IF q = r THEN NewBox(n, k, e) ELSE box[n][q]
      BY <1>7, <3>1
    <3>. QED
      BY <1>0, <1>5, <2>3, <3>2 DEF Spares
  <2>5. CASE ~Runs(e, r)
    BY <1>0, <1>5, <2>2, <2>3, <2>5 DEF Spares
  <2>. QED
    BY <2>4, <2>5
<1>12. CASE Startup(p)
  <2>1. op \in {"startup", "startup2", "look"}
    BY <1>0, <1>12 DEF Startup, At
  <2>2. op # Founds(q)
    BY <2>1 DEF Founds
  <2>3. \/ box' = box
        \/ /\ Exists(n, r)
           /\ box' = [box EXCEPT ![n][r].up = Serves(n, box[n][r].set),
                                 ![n][r].loaded = IF k.traits.files THEN file[n] ELSE None]
    BY <1>0, <1>2, <1>12 DEF Startup
  <2>4. CASE box' = box
    BY <1>5, <2>2, <2>4
  <2>5. CASE Exists(n, r) /\ box' = [box EXCEPT ![n][r].up = Serves(n, box[n][r].set),
                                 ![n][r].loaded = IF k.traits.files THEN file[n] ELSE None]
    <3>0. PICK u, f : /\ u = Serves(n, box[n][r].set)
                      /\ f = IF k.traits.files THEN file[n] ELSE None
      OBVIOUS
    <3>1. u \in BOOLEAN
      BY <3>0 DEF Serves
    <3>2. box' = [box EXCEPT ![n][r].up = u, ![n][r].loaded = f]
      BY <2>5, <3>0
    <3>3. box' = [box EXCEPT ![n] = [box[n] EXCEPT ![r] =
                    [[box[n][r] EXCEPT !.up = u] EXCEPT !.loaded = f]]]
      BY <1>2, <1>3, <1>4, <3>2 DEF Parts
    <3>4. box'[n][q] = IF q = r THEN [[box[n][r] EXCEPT !.up = u] EXCEPT !.loaded = f]
                       ELSE box[n][q]
      BY <1>7, <3>3
    <3>5. q = r => box[n][q] \in Box
      BY <1>3, <2>5 DEF Exists
    <3>. QED
      BY <1>5, <1>6, <2>2, <3>0, <3>1, <3>4, <3>5
  <2>. QED
    BY <2>3, <2>4, <2>5
<1>13. CASE Discard(p)
  <2>1. op \in {"discard", "discard2"}
    BY <1>0, <1>13 DEF Discard, At
  <2>2. box' = box \/ box' = [box EXCEPT ![n][r] = None]
    BY <1>0, <1>2, <1>13 DEF Discard
  <2>3. q # r => box'[n][q] = box[n][q]
    <3>1. CASE box' = box
      BY <3>1
    <3>2. CASE box' = [box EXCEPT ![n][r] = None]
      BY <1>2, <1>3, <3>2
    <3>. QED
      BY <2>2, <3>1, <3>2
  <2>4. op # Founds(q) /\ (q = r => op \in Clears(q))
    BY <1>4, <2>1 DEF Clears, Founds, Part
  <2>. QED
    BY <1>5, <2>3, <2>4
<1>14. CASE Recreate(p)
  <2>1. op \in {"recreate", "recreate2"}
    BY <1>0, <1>14 DEF Recreate, At
  <2>2. box' = box \/ box' = [box EXCEPT ![n][r] = NewBox(n, k, e)]
    BY <1>0, <1>2, <1>14 DEF Recreate
  <2>3. q # r => box'[n][q] = box[n][q]
    <3>1. CASE box' = box
      BY <3>1
    <3>2. CASE box' = [box EXCEPT ![n][r] = NewBox(n, k, e)]
      BY <1>2, <1>3, <3>2
    <3>. QED
      BY <2>2, <3>1, <3>2
  <2>4. op # Founds(q) /\ (q = r => op \in Clears(q))
    BY <1>4, <2>1 DEF Clears, Founds, Part
  <2>. QED
    BY <1>5, <2>3, <2>4
<1>. QED
  BY <1>8, <1>9, <1>10, <1>11, <1>12, <1>13, <1>14 DEF BoxStep

\* And so does every other.
LEMMA StepSpares ==
  ASSUME TypeInv, NEW p \in Procs, Step(p), cmd[p] # None, cmd[p].todo # <<>>,
         NEW q \in Parts
  PROVE  Spares(p, q)
<1>1. CASE BoxStep(p)
  BY <1>1, BoxStepSpares
<1>2. CASE ~BoxStep(p)
  <2>1. UNCHANGED box
    BY <1>2 DEF Step, BoxStep, Load, FindEntry, Check, Merge, Generate, DecideAuth, Recall, Agree, Choose,
         Mint, Save, Drop, WriteFile, Vet, NeedFile, NeedUp, SetSecret, Wipe, DropFile, Return
  <2>2. Head(cmd[p].todo) \notin {"create", "create2"}
    BY <1>2 DEF Step, BoxStep, Load, FindEntry, Check, Merge, Generate, DecideAuth, Recall, Agree, Choose,
         Mint, Save, Drop, WriteFile, Vet, NeedFile, NeedUp, SetSecret, Wipe, DropFile, Return,
         At
  <2>. QED
    BY <2>1, <2>2 DEF Spares, Exists, Founds
<1>. QED
  BY <1>1, <1>2

-----------------------------------------------------------------------------
\* What a command that goes on as the record d leaves, in memory, in pg.yaml, in
\* the data, in the file and of the containers.
Takes(p, d) ==
  /\ Passes(p, d)
  /\ conf' = IF Head(cmd[p].todo) = "save" THEN Written(p) ELSE conf
  /\ Draws(p, d)
  /\ DataMoves(p)
  /\ Prints(p)
  /\ \A r \in Parts : Spares(p, r)

\* Only an install that chooses is at its choice.
LEMMA StepElse ==
  ASSUME NEW p \in Procs, Step(p), ~Choose(p), cmd[p].todo # <<>>
  PROVE  Head(cmd[p].todo) # "choose"
<1>1. ~(Load(p) \/ FindEntry(p) \/ Check(p) \/ Merge(p) \/ Generate(p) \/ DecideAuth(p) \/ Recall(p)
        \/ Agree(p) \/ Mint(p)) \/ Head(cmd[p].todo) # "choose"
  BY DEF Load, FindEntry, Check, Merge, Generate, DecideAuth, Recall, Agree, Mint, At
<1>2. ~(Save(p) \/ Drop(p) \/ WriteFile(p) \/ Vet(p) \/ Signal(p) \/ NeedFile(p)
        \/ NeedUp(p) \/ SetSecret(p) \/ Wipe(p) \/ DropFile(p))
      \/ Head(cmd[p].todo) # "choose"
  BY DEF Save, Drop, WriteFile, Vet, Signal, NeedFile, NeedUp, SetSecret, Wipe, DropFile, At
<1>3. ~(Halt(p) \/ Rm(p) \/ Create(p) \/ Startup(p) \/ Discard(p) \/ Recreate(p)
        \/ Return(p)) \/ Head(cmd[p].todo) # "choose"
  BY DEF Halt, Rm, Create, Startup, Discard, Recreate, Return, At
<1>. QED
  BY <1>1, <1>2, <1>3 DEF Step

\* Every step that goes on does so.
LEMMA StepTakes ==
  ASSUME TypeInv, NEW p \in Procs, Step(p), ~Choose(p), Goes(p)
  PROVE  cmd[p] # None /\ cmd[p].todo # <<>> /\ \E d : Takes(p, d)
<1>1. PICK d : cmd' = [cmd EXCEPT ![p] = d] /\ Follows(cmd[p], d, Head(cmd[p].todo))
  BY DEF Goes
<1>2. cmd[p] # None /\ cmd[p].todo # <<>>
  BY DEF Goes
<1>3. cmd'[p] = d /\ d # None
  BY <1>1, NoneAssumption DEF TypeInv, Follows
<1>4. Head(cmd[p].todo) # "choose"
  BY <1>2, StepElse
<1>5. Passes(p, d)
  BY <1>1, <1>2, <1>3, <1>4, StepKnows, StepFileMoves, StepBoxes DEF Passes
<1>6. Draws(p, d)
  BY <1>2, <1>3, StepDraws
<1>7. DataMoves(p) /\ Prints(p) /\ \A r \in Parts : Spares(p, r)
  BY <1>2, StepBinds, StepPrints, StepSpares
<1>8. conf' = IF Head(cmd[p].todo) = "save" THEN Written(p) ELSE conf
  BY <1>2, StepConf
<1>. QED
  BY <1>2, <1>5, <1>6, <1>7, <1>8 DEF Takes

\* A soft failure goes on and does nothing.
LEMMA SoftTakes ==
  ASSUME TypeInv, NEW p \in Procs, Fail(p), Head(cmd[p].todo) \in Soft
  PROVE  \E d : Takes(p, d)
<1>0. PICK op : op = Head(cmd[p].todo)
  OBVIOUS
<1>1. PICK d : Passes(p, d)
  BY SoftPasses
<1>2. /\ cmd[p] # None /\ cmd[p].todo # <<>> /\ Skip(p)
      /\ UNCHANGED <<conf, file, data, known>>
  BY DEF Fail
<1>3. UNCHANGED box
  BY SoftLeaving
<1>4. cmd'[p] = d
  BY <1>1 DEF Passes, TypeInv
<1>5. d # None /\ d.work = cmd[p].work
  BY <1>2, <1>4, SkipWork
<1>6. op \in {"softhalt", "softhalt2", "wipe", "wipedirs", "dropfile", "wipefile", "mint",
              "softready"}
  BY <1>0 DEF Soft
<1>7. Draws(p, d)
  BY <1>0, <1>5, <1>6 DEF Draws, Proves
<1>8. DataMoves(p)
  BY <1>0, <1>2, <1>4, <1>5, <1>6 DEF DataMoves, Treats
<1>9. Prints(p)
  BY <1>0, <1>6 DEF Prints, Renders
<1>10. \A r \in Parts : Spares(p, r)
  BY <1>0, <1>3, <1>6 DEF Spares, Founds, Exists
<1>. QED
  BY <1>0, <1>1, <1>2, <1>6, <1>7, <1>8, <1>9, <1>10 DEF Takes

\* What a command that goes on is, and what pg.yaml says of its add-on.
LEMMA TakesOn ==
  ASSUME TypeInv, Single, NEW p \in Procs, cmd[p] # None, cmd[p].todo # <<>>,
         NEW d, Takes(p, d), NEW n, n = cmd[p].name, NEW op, op = Head(cmd[p].todo)
  PROVE  /\ cmd[p] \in Command /\ cmd[p].todo \in Seq(Ops)
         /\ n \in Names /\ kind[n] \in Kinds
         /\ op \in Uses => cmd[p].work \in Entry
         /\ d \in Command /\ d # None /\ d.op = cmd[p].op /\ d.name = n
         /\ d.todo = Tail(cmd[p].todo)
         /\ d.built = cmd[p].built
         /\ \A q \in Procs : cmd'[q] = d /\ cmd[q] = cmd[p]
         /\ UNCHANGED <<kind, cut>>
         /\ conf'[n] = IF op = "save" THEN Kept(kind[n], cmd[p].work) ELSE conf[n]
<1>1. /\ cmd[p] \in Command /\ cmd[p].todo \in Seq(Ops) /\ n \in Names /\ N(p) = n
      /\ Work(p) = cmd[p].work /\ K(p) = kind[n]
      /\ op \in Uses => cmd[p].work \in Entry
  BY AtStep DEF K, N
<1>2. Follows(cmd[p], d, op) /\ Knows(cmd[p], d, op) /\ UNCHANGED <<kind, cut>>
      /\ cmd' = [cmd EXCEPT ![p] = d]
  BY DEF Takes, Passes, FileMoves
<1>3. \A q \in Procs : cmd'[q] = d /\ cmd[q] = cmd[p]
  BY <1>2 DEF Single, TypeInv
<1>4. cmd[p].seen \in [Names -> Entry \cup {None}]
  BY <1>1 DEF Command
<1>5. conf'[n] = IF op = "save" THEN Kept(kind[n], cmd[p].work) ELSE conf[n]
  BY <1>1, <1>4 DEF Takes, Written
<1>6. d \in Command /\ d # None /\ d.op = cmd[p].op /\ d.name = n
      /\ d.todo = Tail(cmd[p].todo) /\ d.built = cmd[p].built
  BY <1>2, NoneAssumption DEF Follows, Knows
<1>7. kind[n] \in Kinds
  BY <1>1 DEF TypeInv, Stores
<1>. QED
  BY <1>1, <1>2, <1>3, <1>5, <1>6, <1>7

-----------------------------------------------------------------------------
\* The secret of the data is one that pg.yaml has had, or that a running
\* install is about to save.

\* The install c has bound its secret in the data of n, and is bound to save it.
Owing(c, n) ==
  /\ c.op = "install"
  /\ c.name = n
  /\ c.work # None
  /\ data[n].sec = c.work.sec
  /\ Commits(c.todo, 0)

Secured(n) ==
  Keyed(kind[n]) /\ data[n] # None /\ ~known[n] =>
    /\ ~SavesFirst(kind[n])
    /\ cut[n] \/ \E p \in Procs : cmd[p] # None /\ Owing(cmd[p], n)

\* Every step of the program that binds is followed by a save.
Committed(k, prog) == \A i \in DOMAIN prog : prog[i] \in Keys(k) => Commits(prog, i)

\* The command c binds only what it is to save, or what pg.yaml says.
KeysLeft(c) ==
  LET k == kind[c.name]
  IN Keyed(k) =>
       IF c.op = "install" /\ ~SavesFirst(k)
       THEN Committed(k, c.todo) /\ ~In("drop", c.todo)
       ELSE /\ After(c.todo, c.work = conf[c.name], Keys(k), {"load", "save"},
                     Changers \ {"load"})
            /\ ~In("mint", c.todo)

KeyOK ==
  /\ \A n \in Names : Secured(n)
  /\ \A p \in Procs : cmd[p] # None => KeysLeft(cmd[p])

\* What is not in a program is neither its first step nor in its rest.
LEMMA InTail ==
  ASSUME NEW s \in Seq(Ops), s # <<>>, NEW op, ~In(op, s)
  PROVE  Head(s) # op /\ ~In(op, Tail(s))
<1>1. Tail(s) \in Seq(Ops) /\ Len(Tail(s)) = Len(s) - 1 /\ Len(s) \in Nat \ {0} /\ Head(s) = s[1]
  OBVIOUS
<1>2. \A i \in 1..(Len(s) - 1) : Tail(s)[i] = s[i + 1] /\ i + 1 \in DOMAIN s
  OBVIOUS
<1>3. DOMAIN Tail(s) = 1..(Len(s) - 1) /\ 1 \in DOMAIN s
  BY <1>1
<1>. QED
  BY <1>1, <1>2, <1>3 DEF In

\* The rest of a program whose bindings are saved is such a program.
LEMMA CommittedTail ==
  ASSUME NEW k, NEW s \in Seq(Ops), s # <<>>, Committed(k, s)
  PROVE  /\ Committed(k, Tail(s))
         /\ Head(s) \in Keys(k) => Commits(Tail(s), 0)
<1>1. Tail(s) \in Seq(Ops) /\ Len(Tail(s)) = Len(s) - 1 /\ Len(s) \in Nat \ {0} /\ Head(s) = s[1]
  OBVIOUS
<1>2. \A i \in 1..(Len(s) - 1) : Tail(s)[i] = s[i + 1] /\ i + 1 \in DOMAIN s
  OBVIOUS
<1>3. DOMAIN Tail(s) = 1..(Len(s) - 1) /\ 1 \in DOMAIN s
  BY <1>1
<1>4. ASSUME NEW i \in Nat \ {0}, Commits(s, i) PROVE Commits(Tail(s), i - 1)
  BY <1>4, CommitsTail
<1>5. ASSUME NEW i \in DOMAIN Tail(s), Tail(s)[i] \in Keys(k) PROVE Commits(Tail(s), i)
  <2>1. Commits(s, i + 1)
    BY <1>2, <1>3, <1>5 DEF Committed
  <2>2. i + 1 \in Nat \ {0} /\ (i + 1) - 1 = i
    BY <1>1, <1>3
  <2>. QED
    BY <1>4, <2>1, <2>2
<1>6. ASSUME Head(s) \in Keys(k) PROVE Commits(Tail(s), 0)
  <2>1. Commits(s, 1)
    BY <1>1, <1>3, <1>6 DEF Committed
  <2>2. Commits(Tail(s), 1 - 1)
    BY <1>4, <2>1
  <2>. QED
    BY <2>2
<1>. QED
  BY <1>5, <1>6 DEF Committed

\* A step that goes on leaves the rest of the program in that order.
LEMMA GoesKeys ==
  ASSUME TypeInv, KeyOK, Single, NEW p \in Procs, cmd[p] # None, cmd[p].todo # <<>>,
         NEW d, Takes(p, d)
  PROVE  KeysLeft(d)'
<1>0. PICK c, n, k, op, s : c = cmd[p] /\ n = c.name /\ k = kind[n] /\ s = c.todo /\ op = Head(s)
  OBVIOUS
<1>1. /\ c \in Command /\ s \in Seq(Ops) /\ n \in Names
      /\ d.op = c.op /\ d.name = n /\ d.todo = Tail(s)
      /\ UNCHANGED kind
      /\ conf'[n] = IF op = "save" THEN Kept(k, c.work) ELSE conf[n]
  BY <1>0, TakesOn
<1>2. Follows(c, d, op)
  BY <1>0 DEF Takes, Passes
<1>3. SUFFICES ASSUME Keyed(k)
               PROVE  IF c.op = "install" /\ ~SavesFirst(k)
                      THEN Committed(k, Tail(s)) /\ ~In("drop", Tail(s))
                      ELSE /\ After(Tail(s), d.work = conf'[n], Keys(k), {"load", "save"},
                                    Changers \ {"load"})
                           /\ ~In("mint", Tail(s))
  BY <1>0, <1>1 DEF KeysLeft
<1>4. IF c.op = "install" /\ ~SavesFirst(k)
      THEN Committed(k, s) /\ ~In("drop", s)
      ELSE /\ After(s, c.work = conf[n], Keys(k), {"load", "save"}, Changers \ {"load"})
           /\ ~In("mint", s)
  BY <1>0, <1>3 DEF KeyOK, KeysLeft
<1>5. CASE c.op = "install" /\ ~SavesFirst(k)
  <2>1. Committed(k, s) /\ ~In("drop", s)
    BY <1>4, <1>5
  <2>. QED
    BY <1>0, <1>1, <1>5, <2>1, CommittedTail, InTail
<1>6. CASE ~(c.op = "install" /\ ~SavesFirst(k))
  <2>1. After(s, c.work = conf[n], Keys(k), {"load", "save"}, Changers \ {"load"})
        /\ ~In("mint", s)
    BY <1>4, <1>6
  <2>2. Kept(k, c.work) = c.work
    BY <1>3 DEF Keyed, Kept
  <2>3. op \in {"load", "save"} \/ (c.work = conf[n] /\ op \notin Changers \ {"load"})
          => d.work = conf'[n]
    BY <1>0, <1>1, <1>2, <2>2 DEF Follows, Changers, Resets, Rekeys
  <2>4. After(Tail(s), d.work = conf'[n], Keys(k), {"load", "save"}, Changers \ {"load"})
    BY <1>0, <1>1, <2>1, <2>3, AfterTail
  <2>. QED
    BY <1>0, <1>1, <1>6, <2>1, <2>4, InTail
<1>. QED
  BY <1>5, <1>6

\* A step that goes on binds only such a secret.
LEMMA GoesSecured ==
  ASSUME TypeInv, KeyOK, Single, NEW p \in Procs, cmd[p] # None, cmd[p].todo # <<>>,
         NEW d, Takes(p, d), NEW n, n = cmd[p].name
  PROVE  Secured(n)'
<1>0. PICK c, k, op, s : c = cmd[p] /\ k = kind[n] /\ s = c.todo /\ op = Head(s)
  OBVIOUS
<1>1. /\ c \in Command /\ s \in Seq(Ops) /\ s # <<>> /\ n \in Names /\ c # None
      /\ op \in Uses => c.work \in Entry
      /\ d # None /\ d.op = c.op /\ d.name = n /\ d.todo = Tail(s)
      /\ \A q \in Procs : cmd'[q] = d /\ cmd[q] = c
      /\ UNCHANGED <<kind, cut>>
  BY <1>0, TakesOn
<1>2. Follows(c, d, op) /\ DataMoves(p)
  BY <1>0 DEF Takes, Passes
<1>3. SUFFICES ASSUME Keyed(k), data'[n] # None, ~known'[n]
               PROVE  ~SavesFirst(k) /\ (cut[n] \/ Owing(d, n)')
  BY <1>0, <1>1 DEF Secured
<1>4. KeysLeft(c)
  BY <1>0, <1>1 DEF KeyOK
<1>5. CASE data'[n] = data[n] /\ (known[n] => known'[n])
  <2>1. /\ ~SavesFirst(k)
        /\ cut[n] \/ Owing(c, n)
    BY <1>0, <1>1, <1>3, <1>5 DEF KeyOK, Secured
  <2>2. ASSUME Owing(c, n) PROVE Owing(d, n)'
    <3>1. /\ c.op = "install" /\ c.work # None /\ data[n].sec = c.work.sec
          /\ Commits(s, 0)
      BY <1>0, <2>2 DEF Owing
    <3>2. op # "save"
      BY <1>0, <1>2, <1>3, <1>5, <3>1 DEF DataMoves
    <3>3. ~In("drop", s)
      BY <1>0, <1>3, <1>4, <2>1, <3>1 DEF KeysLeft, Owing
    <3>4. op # "drop"
      BY <1>0, <1>1, <3>3, InTail
    <3>5. Commits(Tail(s), 0) /\ op \notin Quits \cup Rekeys
      BY <1>0, <1>1, <3>1, <3>2, CommitsTail
    <3>6. d.work = c.work
      BY <1>2, <3>4, <3>5 DEF Follows, Quits
    <3>. QED
      BY <1>1, <1>5, <3>1, <3>5, <3>6 DEF Owing
  <2>. QED
    BY <2>1, <2>2
<1>6. CASE op \in Keys(k) /\ Sealed(n, d.work.sec)
  <2>1. op \in Uses /\ c.work \in Entry
    BY <1>1, <1>6 DEF Keys, Binds, Makes1, Makes2, Uses
  <2>2. CASE c.op = "install" /\ ~SavesFirst(k)
    <3>1. Committed(k, s)
      BY <1>0, <1>1, <1>3, <1>4, <2>2, NoneAssumption DEF KeysLeft, Owing
    <3>2. Commits(Tail(s), 0)
      BY <1>0, <1>1, <1>6, <3>1, CommittedTail
    <3>3. d.work \in Entry
      BY <1>2, <1>6, <2>1 DEF Follows, Keys, Binds, Makes1, Makes2, Rekeys
    <3>4. data'[n].sec = d.work.sec
      BY <1>6 DEF Sealed
    <3>5. d.work # None
      BY <3>3, NoneAssumption
    <3>. QED
      BY <1>1, <2>2, <3>2, <3>4, <3>5 DEF Owing
  <2>3. CASE ~(c.op = "install" /\ ~SavesFirst(k))
    <3>1. /\ After(s, c.work = conf[n], Keys(k), {"load", "save"}, Changers \ {"load"})
          /\ ~In("mint", s)
      BY <1>0, <1>3, <1>4, <2>3 DEF KeysLeft
    <3>2. c.work = conf[n]
      BY <1>0, <1>1, <1>6, <3>1, AfterHead
    <3>3. op # "mint"
      BY <1>0, <1>1, <3>1, InTail
    <3>4. d.work = c.work
      BY <1>2, <1>6, <3>3 DEF Follows, Keys, Binds, Makes1, Makes2, Rekeys
    <3>5. conf[n] # None /\ conf[n].sec = d.work.sec
      BY <2>1, <3>2, <3>4, NoneAssumption
    <3>6. known'[n]
      BY <1>6, <3>5 DEF Sealed
    <3>. QED
      BY <1>3, <3>6
  <2>. QED
    BY <2>2, <2>3
<1>7. \/ data'[n] = data[n] /\ (known[n] => known'[n])
      \/ op \in Keys(k) /\ Sealed(n, d.work.sec)
  BY <1>0, <1>1, <1>2, <1>3 DEF DataMoves, Treats
<1>. QED
  BY <1>5, <1>6, <1>7

-----------------------------------------------------------------------------
\* What any step of the system does while one command runs at a time: the
\* command takes its next step, is gone, chooses, or begins; or a container dies.

\* The command is gone, and what it was to save is lost to a fault.
Gone ==
  /\ \A q \in Procs : cmd'[q] = None
  /\ UNCHANGED <<kind, data, known>>
  /\ \A n \in Names : cut[n] => cut'[n]
  /\ \A q \in Procs, n \in Names : cmd[q] # None /\ Owing(cmd[q], n) => cut'[n]
  /\ \A n \in Names :
       \/ conf'[n] \in {conf[n], None}
       \/ \E q \in Procs : /\ cmd[q] # None
                           /\ \/ conf'[n] = cmd[q].seen[n]
                              \/ /\ n = cmd[q].name
                                 /\ cmd[q].todo # <<>>
                                 /\ Head(cmd[q].todo) = "save"
                                 /\ conf'[n] = Kept(kind[n], cmd[q].work)

\* Containers come down, and nothing else.
Sinks ==
  /\ UNCHANGED <<kind, conf, file, data, known, cut, cmd>>
  /\ \A n \in Names, r \in Parts : Exists(n, r) =>
       /\ box'[n][r] # None
       /\ box'[n][r].set = box[n][r].set
       /\ box'[n][r].sec = box[n][r].sec
       /\ box'[n][r].loaded = box[n][r].loaded

\* A command at its choice owes nothing; nor does one at a step that may end it.
LEMMA QuitsOwesNot ==
  ASSUME TypeInv, NEW p \in Procs, cmd[p] # None, cmd[p].todo # <<>>,
         Head(cmd[p].todo) \in Quits, NEW n \in Names
  PROVE  ~Owing(cmd[p], n)
<1>1. SUFFICES ASSUME Commits(cmd[p].todo, 0) PROVE FALSE
  BY DEF Owing
<1>2. cmd[p].todo \in Seq(Ops)
  BY AtStep
<1>3. Head(cmd[p].todo) # "save"
  BY DEF Quits
<1>4. Head(cmd[p].todo) \notin Quits
  BY <1>1, <1>2, <1>3, CommitsTail
<1>. QED
  BY <1>4

\* A command that stops by itself is gone so.
LEMMA LeavesGone ==
  ASSUME TypeInv, Single, NEW p \in Procs, Step(p), Leaves(p)
  PROVE  Gone
<1>1. cmd[p] # None /\ cmd[p].todo # <<>> /\ End(p)
  BY DEF Leaves
<1>2. cmd'[p] = None /\ \A q \in Procs : q = p
  BY <1>1, EndGone DEF Single
<1>3. DataMoves(p) /\ FileMoves(p)
  BY <1>1, StepBinds, StepFileMoves
<1>4. UNCHANGED <<kind, data, known, cut>>
  BY <1>2, <1>3 DEF DataMoves, FileMoves
<1>5. Head(cmd[p].todo) \in Quits \cup {"passwd"}
  BY DEF Leaves
<1>6. UNCHANGED conf
  <2>1. Head(cmd[p].todo) # "save"
    BY <1>5 DEF Quits
  <2>. QED
    BY <1>1, <2>1, StepConf
<1>7. ASSUME NEW n \in Names, Owing(cmd[p], n) PROVE FALSE
  <2>1. Head(cmd[p].todo) \notin Quits
    BY <1>1, <1>7, QuitsOwesNot
  <2>2. Bound(n) # None /\ Bound(n) # cmd[p].work.sec
    BY <1>7, <2>1 DEF Leaves, Owing
  <2>. QED
    BY <1>7, <2>2 DEF Bound, Owing
<1>. QED
  BY <1>2, <1>4, <1>6, <1>7 DEF Gone

\* So is one that has run its last step.
LEMMA ReturnGone ==
  ASSUME TypeInv, Single, NEW p \in Procs, Return(p)
  PROVE  Gone
<1>1. cmd[p] # None /\ cmd[p].todo = <<>> /\ UNCHANGED <<kind, conf, data, known, cut>>
      /\ cmd'[p] = None
  BY EndGone DEF Return
<1>2. \A n \in Names : ~Owing(cmd[p], n)
  BY <1>1 DEF Owing, Commits
<1>. QED
  BY <1>1, <1>2 DEF Gone, Single

\* So is one that a fault has ended.
LEMMA FaultGone ==
  ASSUME TypeInv, Single, NEW p \in Procs,
         (Fail(p) /\ Head(cmd[p].todo) \notin Soft) \/ Kill(p) \/ Tear(p)
  PROVE  Gone
<1>0. PICK c, n : c = cmd[p] /\ n = c.name
  OBVIOUS
<1>1. c # None /\ c.todo # <<>> /\ End(p) /\ UNCHANGED <<kind, data, known>>
  BY <1>0 DEF Fail, Kill, Tear, At
<1>2. cmd'[p] = None /\ \A q \in Procs : q = p
  BY <1>1, EndGone DEF Single
<1>3. n \in Names /\ N(p) = n /\ K(p) = kind[n] /\ Work(p) = c.work /\ c \in Command
  BY <1>0, <1>1, AtStep DEF K, N
<1>4. /\ Changes(c) => cut'[n]
      /\ \A m \in Names : cut[m] => cut'[m]
  BY <1>0, <1>3 DEF Fail, Kill, Tear, TypeInv, Stores
<1>5. \A m \in Names : Owing(c, m) => cut'[m]
  BY <1>0, <1>4 DEF Owing, Changes
<1>6. ASSUME NEW m \in Names
      PROVE  \/ conf'[m] \in {conf[m], None}
             \/ conf'[m] = c.seen[m]
             \/ /\ m = n
                /\ Head(c.todo) = "save"
                /\ conf'[m] = Kept(kind[m], c.work)
  <2>1. CASE Fail(p) \/ Kill(p)
    BY <2>1 DEF Fail, Kill
  <2>2. CASE Tear(p)
    <3>1. Head(c.todo) = "save"
      BY <1>0, <2>2 DEF Tear, At
    <3>2. PICK kept \in SUBSET Names :
            conf' = [x \in Names |-> IF x \in kept THEN Written(p)[x] ELSE None]
      BY <2>2 DEF Tear
    <3>3. conf'[m] = None \/ conf'[m] = Written(p)[m]
      BY <3>2
    <3>4. Written(p) = [c.seen EXCEPT ![n] = Kept(kind[n], c.work)]
      BY <1>0, <1>3 DEF Written
    <3>5. c.seen \in [Names -> Entry \cup {None}]
      BY <1>3 DEF Command
    <3>. QED
      BY <3>1, <3>3, <3>4, <3>5
  <2>. QED
    BY <2>1, <2>2
<1>. QED
  BY <1>0, <1>1, <1>2, <1>4, <1>5, <1>6 DEF Gone

\* A reboot ends every command.
LEMMA RebootGone ==
  ASSUME TypeInv, Reboot
  PROVE  Gone
<1>1. UNCHANGED <<kind, conf, data, known>> /\ \A q \in Procs : cmd'[q] = None
  BY DEF Reboot
<1>2. \A n \in Names : cut'[n] <=> cut[n] \/ \E p \in Procs : cmd[p] # None
                                           /\ cmd[p].name = n /\ Changes(cmd[p])
  BY DEF Reboot
<1>3. ASSUME NEW q \in Procs, NEW n \in Names, cmd[q] # None, Owing(cmd[q], n) PROVE cut'[n]
  BY <1>2, <1>3 DEF Owing, Changes
<1>. QED
  BY <1>1, <1>2, <1>3 DEF Gone

\* A container that dies comes down.
LEMMA DieSinks ==
  ASSUME TypeInv, NEW n \in Names, Die(n)
  PROVE  Sinks
<1>1. box \in [Names -> [Parts -> Box \cup {None}]]
  BY DEF TypeInv, Stores
<1>2. PICK r \in Parts : Running(n, r) /\ box' = [box EXCEPT ![n][r].up = FALSE]
  BY DEF Die
<1>3. box[n][r] \in Box
  BY <1>1, <1>2 DEF Running, Exists
<1>4. box'[n][r] = [box[n][r] EXCEPT !.up = FALSE]
  BY <1>1, <1>2
<1>5. /\ box'[n][r] \in Box
      /\ box'[n][r].set = box[n][r].set
      /\ box'[n][r].sec = box[n][r].sec
      /\ box'[n][r].loaded = box[n][r].loaded
  BY <1>3, <1>4, BoxTurned
<1>6. ASSUME NEW m \in Names, NEW q \in Parts, m # n \/ q # r PROVE box'[m][q] = box[m][q]
  BY <1>1, <1>2, <1>6
<1>7. UNCHANGED <<kind, conf, file, data, known, cut, cmd>>
  BY DEF Die
<1>. QED
  BY <1>5, <1>6, <1>7, NoneAssumption DEF Sinks, Exists

\* Whatever happens is one of these.
LEMMA NextMoves ==
  ASSUME TypeInv, Single, [Next]_vars
  PROVE  \/ \E p \in Procs, d \in Command :
              cmd[p] # None /\ cmd[p].todo # <<>> /\ Takes(p, d)
         \/ Gone
         \/ \E p \in Procs : Choose(p)
         \/ \E p \in Procs :
              Begins(p) /\ UNCHANGED <<kind, conf, file, data, box, known, cut>>
         \/ Sinks
<1>1. ASSUME UNCHANGED vars PROVE Sinks
  <2>1. UNCHANGED <<kind, conf, file, data, known, cut, cmd>>
    BY <1>1 DEF vars
  <2>2. box' = box
    BY <1>1 DEF vars
  <2>. QED
    BY <2>1, <2>2 DEF Sinks, Exists
<1>2. ASSUME NEW p \in Procs, NEW d, Takes(p, d) PROVE d \in Command
  BY <1>2 DEF Takes, Passes, Follows
<1>3. ASSUME NEW p \in Procs, Call(p)
      PROVE  Begins(p) /\ UNCHANGED <<kind, conf, file, data, box, known, cut>>
  <2>0. PICK c : Begin(p, c)
    BY <1>3, CallStarts
  <2>1. UNCHANGED <<kind, conf, file, data, box, known, cut>>
    BY <2>0 DEF Begin
  <2>. QED
    BY <1>3, <2>1, CallBegins
<1>4. ASSUME NEW p \in Procs, Step(p)
      PROVE  \/ Choose(p)
             \/ Gone
             \/ cmd[p] # None /\ cmd[p].todo # <<>> /\ \E d \in Command : Takes(p, d)
  <2>1. CASE Goes(p) /\ ~Choose(p)
    BY <1>2, <1>4, <2>1, StepTakes
  <2>2. CASE Leaves(p)
    BY <1>4, <2>2, LeavesGone
  <2>3. CASE Return(p)
    BY <2>3, ReturnGone
  <2>. QED
    BY <1>4, <2>1, <2>2, <2>3, StepEnds
<1>5. ASSUME NEW p \in Procs, Fail(p) \/ Kill(p) \/ Tear(p)
      PROVE  \/ Gone
             \/ cmd[p] # None /\ cmd[p].todo # <<>> /\ \E d \in Command : Takes(p, d)
  <2>1. CASE Fail(p) /\ Head(cmd[p].todo) \in Soft
    <3>1. cmd[p] # None /\ cmd[p].todo # <<>>
      BY <2>1 DEF Fail
    <3>. QED
      BY <1>2, <2>1, <3>1, SoftTakes
  <2>. QED
    BY <1>5, <2>1, FaultGone
<1>6. \/ UNCHANGED vars
      \/ \E p \in Procs : Call(p)
      \/ \E p \in Procs : Step(p)
      \/ \E p \in Procs : Fail(p) \/ Kill(p) \/ Tear(p)
      \/ \E n \in Names : Die(n)
      \/ Reboot
  BY DEF Next, Fault
<1>7. CASE \E p \in Procs : Step(p)
  BY <1>4, <1>7
<1>8. CASE \E p \in Procs : Fail(p) \/ Kill(p) \/ Tear(p)
  BY <1>5, <1>8
<1>9. CASE \E p \in Procs : Call(p)
  BY <1>3, <1>9
<1>. QED
  BY <1>1, <1>6, <1>7, <1>8, <1>9, RebootGone, DieSinks

-----------------------------------------------------------------------------
\* KeyOK is inductive.

KeyInv == TypeInv /\ KeyOK

\* Where the command owes nothing, an unknown secret is one that was cut off.
LEMMA NoDebt ==
  ASSUME KeyOK, NEW n \in Names, \A q \in Procs : cmd[q] # None => ~Owing(cmd[q], n),
         kind'[n] = kind[n], data'[n] = data[n], known'[n] = known[n], cut[n] => cut'[n]
  PROVE  Secured(n)'
<1>1. Secured(n)
  BY DEF KeyOK
<1>. QED
  BY <1>1 DEF Secured

\* The command takes its next step.
LEMMA TakesKey ==
  ASSUME TypeInv, KeyOK, Single, NEW p \in Procs, cmd[p] # None, cmd[p].todo # <<>>,
         NEW d, Takes(p, d)
  PROVE  KeyOK'
<1>0. PICK n : n = cmd[p].name
  OBVIOUS
<1>1. UNCHANGED <<kind, cut>> /\ \A q \in Procs : cmd'[q] = d /\ cmd[q] = cmd[p]
  BY <1>0, TakesOn
<1>2. \A m \in Names \ {n} : data'[m] = data[m] /\ known'[m] = known[m]
  BY <1>0 DEF Takes, DataMoves
<1>3. ASSUME NEW m \in Names, m # n PROVE Secured(m)'
  BY <1>0, <1>1, <1>2, <1>3, NoDebt DEF Owing
<1>4. Secured(n)'
  BY <1>0, GoesSecured
<1>5. KeysLeft(d)'
  BY GoesKeys
<1>. QED
  BY <1>1, <1>3, <1>4, <1>5 DEF KeyOK

\* It is gone.
LEMMA GoneKey ==
  ASSUME KeyOK, Gone
  PROVE  KeyOK'
<1>1. ASSUME NEW n \in Names PROVE Secured(n)'
  <2>1. Secured(n)
    BY DEF KeyOK
  <2>. QED
    BY <2>1 DEF Gone, Secured
<1>. QED
  BY <1>1 DEF Gone, KeyOK

\* The program s of an install, or of another command, binds in that order.
LEMMA KeysBegin ==
  ASSUME NEW k \in Kinds, NEW d, d.todo \in Told(k) \cup InstallPrograms(k),
         d.op = "install" => d.todo \in InstallPrograms(k),
         d.op # "install" => d.todo \in Told(k),
         NEW n \in Names, d.name = n, k = kind[n]
  PROVE  KeysLeft(d)
<1>1. KeyOrder(k) /\ InstallOrder(k)
  BY OrderAssumption DEF Orderly
<1>2. SUFFICES ASSUME Keyed(k)
               PROVE  IF d.op = "install" /\ ~SavesFirst(k)
                      THEN Committed(k, d.todo) /\ ~In("drop", d.todo)
                      ELSE /\ After(d.todo, d.work = conf[n], Keys(k), {"load", "save"},
                                    Changers \ {"load"})
                           /\ ~In("mint", d.todo)
  BY DEF KeysLeft
<1>3. CASE d.op = "install" /\ ~SavesFirst(k)
  <2>1. Committed(k, d.todo)
    BY <1>1, <1>2, <1>3 DEF KeyOrder, Committed
  <2>2. "drop" \in Erases
    BY DEF Erases
  <2>3. ~In("drop", d.todo)
    BY <1>1, <1>3, <2>2 DEF InstallOrder
  <2>. QED
    BY <1>3, <2>1, <2>3
<1>4. CASE ~(d.op = "install" /\ ~SavesFirst(k))
  <2>1. d.todo \in Told(k)
    BY <1>4 DEF Told
  <2>2. After(d.todo, FALSE, Keys(k), {"load", "save"}, Changers \ {"load"})
        /\ ~In("mint", d.todo)
    BY <1>1, <1>2, <2>1 DEF KeyOrder
  <2>3. After(d.todo, d.work = conf[n], Keys(k), {"load", "save"}, Changers \ {"load"})
    BY <2>2, AfterWeaker
  <2>. QED
    BY <1>4, <2>2, <2>3
<1>. QED
  BY <1>3, <1>4

\* An install chooses.
LEMMA TurnsKey ==
  ASSUME TypeInv, KeyOK, Single, NEW p \in Procs, Choose(p)
  PROVE  KeyOK'
<1>0. PICK n, k : n = cmd[p].name /\ k = kind[n]
  OBVIOUS
<1>1. /\ UNCHANGED <<kind, conf, data, known, cut>> /\ Turns(p)
      /\ cmd[p] # None /\ cmd[p].todo # <<>> /\ Head(cmd[p].todo) = "choose"
  BY ChooseTurns DEF Choose, At
<1>2. PICK d \in Command, i \in DOMAIN Branches(k) :
        /\ cmd' = [cmd EXCEPT ![p] = d]
        /\ d.op = "install"
        /\ d.name = n
        /\ d.todo = Branches(k)[i].steps
  BY <1>0, <1>1 DEF Turns
<1>3. n \in Names /\ k \in Kinds
  BY <1>0, <1>1, AtStep DEF TypeInv, Stores
<1>4. \A q \in Procs : cmd'[q] = d /\ q = p
  BY <1>2 DEF Single, TypeInv
<1>5. d.todo \in InstallPrograms(k)
  BY <1>2 DEF InstallPrograms, BranchPrograms
<1>6. KeysLeft(d)
  BY <1>0, <1>2, <1>3, <1>5, KeysBegin
<1>7. KeysLeft(d)'
  BY <1>1, <1>6 DEF KeysLeft
<1>8. \A m \in Names : ~Owing(cmd[p], m)
  BY <1>1, QuitsOwesNot DEF Quits
<1>9. \A m \in Names : Secured(m)'
  BY <1>1, <1>4, <1>8, NoDebt
<1>. QED
  BY <1>4, <1>7, <1>9 DEF KeyOK

\* The program of a command that begins.
LEMMA BeginsProgram ==
  ASSUME TypeInv, NEW p \in Procs, Begins(p)
  PROVE  \E d \in Command, k \in Kinds :
           /\ cmd' = [cmd EXCEPT ![p] = d]
           /\ cmd[p] = None
           /\ d.name \in Names
           /\ k = kind[d.name]
           /\ d.seen = conf /\ d.work = None /\ ~d.built
           /\ d.op = "install" => d.todo = k.install.prepare
           /\ d.op = "serve" => d.todo = <<"load", "save">>
           /\ d.op \notin {"install", "serve"} => d.todo \in UsePrograms(k)
<1>1. PICK d \in Command :
        /\ cmd[p] = None
        /\ cmd' = [cmd EXCEPT ![p] = d]
        /\ d.seen = conf /\ d.work = None /\ ~d.built
        /\ Programs(kind[d.name], d.op, d.todo)
  BY DEF Begins
<1>2. d.name \in Names /\ kind[d.name] \in Kinds
  BY DEF TypeInv, Command, Stores
<1>. QED
  BY <1>1, <1>2 DEF Programs

\* A command begins.
LEMMA BeginsKey ==
  ASSUME TypeInv, KeyOK, Single, NEW p \in Procs, Begins(p),
         UNCHANGED <<kind, conf, data, known, cut>>
  PROVE  KeyOK'
<1>1. PICK d \in Command, k \in Kinds :
        /\ cmd' = [cmd EXCEPT ![p] = d]
        /\ cmd[p] = None
        /\ d.name \in Names
        /\ k = kind[d.name]
        /\ d.op = "install" => d.todo = k.install.prepare
        /\ d.op = "serve" => d.todo = <<"load", "save">>
        /\ d.op \notin {"install", "serve"} => d.todo \in UsePrograms(k)
  BY BeginsProgram
<1>2. \A q \in Procs : cmd'[q] = d /\ q = p
  BY <1>1 DEF Single, TypeInv
<1>3. \A m \in Names : Secured(m)'
  BY <1>1, <1>2, NoDebt
<1>4. KeysLeft(d)
  <2>1. CASE d.op = "serve"
    <3>1. d.todo = <<"load", "save">>
      BY <1>1, <2>1
    <3>2. \A j \in DOMAIN d.todo : d.todo[j] \in {"load", "save"}
      BY <3>1
    <3>3. \A j \in DOMAIN d.todo : d.todo[j] \notin Keys(k) \cup {"mint"}
      BY <3>2 DEF Keys, Binds, Makes1, Makes2
    <3>. QED
      BY <1>1, <2>1, <3>3 DEF KeysLeft, After, In
  <2>2. CASE d.op # "serve"
    BY <1>1, <2>2, KeysBegin DEF Told, InstallPrograms
  <2>. QED
    BY <2>1, <2>2
<1>5. KeysLeft(d)'
  BY <1>4 DEF KeysLeft
<1>. QED
  BY <1>2, <1>3, <1>5 DEF KeyOK

\* Containers come down.
LEMMA SinksKey ==
  ASSUME KeyOK, Sinks
  PROVE  KeyOK'
<1>1. UNCHANGED <<kind, conf, data, known, cut, cmd>>
  BY DEF Sinks
<1>2. ASSUME NEW n \in Names PROVE Secured(n)'
  <2>1. Secured(n)
    BY DEF KeyOK
  <2>2. \A q \in Procs : Owing(cmd[q], n) => Owing(cmd[q], n)'
    BY <1>1 DEF Owing
  <2>. QED
    BY <1>1, <2>1, <2>2 DEF Secured
<1>3. ASSUME NEW p \in Procs, cmd[p] # None PROVE KeysLeft(cmd[p])'
  <2>0. PICK c : c = cmd[p]
    OBVIOUS
  <2>1. KeysLeft(c)
    BY <1>3, <2>0 DEF KeyOK
  <2>2. KeysLeft(c)'
    BY <1>1, <2>1 DEF KeysLeft
  <2>. QED
    BY <1>1, <2>0, <2>2
<1>. QED
  BY <1>1, <1>2, <1>3 DEF KeyOK

\* KeyInv is inductive while one command runs at a time.
LEMMA KeyNext ==
  ASSUME KeyInv, Single, [Next]_vars
  PROVE  KeyInv'
<1>1. TypeInv /\ TypeInv' /\ KeyOK
  BY TypeNext DEF KeyInv
<1>2. KeyOK'
  BY <1>1, NextMoves, TakesKey, GoneKey, TurnsKey, BeginsKey, SinksKey
<1>. QED
  BY <1>1, <1>2 DEF KeyInv

\* When one command runs at a time, the secret in the data of an add-on is one
\* that pg.yaml has had, however its handlers order saving the entry and setting
\* the secret; only an install of a kind that saves last may have bound another,
\* while it runs or when it was cut off.
THEOREM KeysKnown == Single /\ Spec => []KnownSecret
<1>. SUFFICES ASSUME Single PROVE Spec => []KnownSecret
  OBVIOUS
<1>1. Init => KeyInv
  <2>1. SUFFICES ASSUME Init PROVE KeyInv
    OBVIOUS
  <2>2. TypeInv
    BY <2>1, TypeInit
  <2>3. (\A n \in Names : data[n] = None) /\ \A p \in Procs : cmd[p] = None
    BY <2>1 DEF Init
  <2>. QED
    BY <2>2, <2>3 DEF KeyInv, KeyOK, Secured
<1>2. KeyInv /\ [Next]_vars => KeyInv'
  BY KeyNext
<1>3. KeyInv => KnownSecret
  <2>1. SUFFICES ASSUME KeyInv, NEW n \in Names, data[n] # None,
                        kind[n].traits.binds \in {"data", "late"}, ~known[n]
                 PROVE  /\ ~SavesFirst(kind[n])
                        /\ cut[n] \/ \E p \in Procs : On(p, n, "install")
    BY DEF KnownSecret
  <2>2. Secured(n)
    BY <2>1 DEF KeyInv, KeyOK
  <2>. QED
    BY <2>1, <2>2 DEF Secured, Keyed, Owing, On
<1>. QED
  BY <1>1, <1>2, <1>3, PTL DEF Spec

-----------------------------------------------------------------------------
\* A kind that takes its secret from the data never has an empty one there.

Filled(e) == e # None => e.sec # None

\* The entry of the command c has the secret of the data.
Agreed(c) == data[c.name] # None => c.work # None /\ data[c.name].sec = c.work.sec

\* The command c saves and binds no empty secret, and an install makes the first
\* container with that of the data.
Stocked(c) ==
  Adopts(kind[c.name]) =>
    /\ After(c.todo, Filled(c.work), {"save", "choose"} \cup Makes1 \cup Makes2,
             {"generate", "rotate", "load", "drop"}, {"merge"})
    /\ After(c.todo, FALSE, Binds \cup {"passwd", "auth"}, {}, {})
    /\ c.op = "install" => After(c.todo, Agreed(c), {"create"}, Proves, Proven)

\* Nowhere is an entry of n without a secret, nor data.
Supplied(n) ==
  Adopts(kind[n]) =>
    /\ Filled(conf[n])
    /\ Filled(data[n])
    /\ \A p \in Procs : cmd[p] # None => Filled(cmd[p].seen[n])

AdoptOK ==
  /\ \A n \in Names : Supplied(n)
  /\ \A p \in Procs : cmd[p] # None => Stocked(cmd[p])

\* The command that takes its next step saves no empty secret, and reads none.
LEMMA TakesFilled ==
  ASSUME TypeInv, AdoptOK, Single, NEW p \in Procs, cmd[p] # None, cmd[p].todo # <<>>,
         NEW d, Takes(p, d), NEW m \in Names, Adopts(kind[m])
  PROVE  Filled(conf'[m]) /\ Filled(d.seen[m])
<1>0. PICK c, n, k, op, s : c = cmd[p] /\ n = c.name /\ k = kind[n] /\ s = c.todo /\ op = Head(s)
  OBVIOUS
<1>1. /\ c \in Command /\ s \in Seq(Ops) /\ n \in Names
      /\ conf'[n] = IF op = "save" THEN Kept(k, c.work) ELSE conf[n]
  BY <1>0, TakesOn
<1>2. Filled(conf[m]) /\ Filled(c.seen[m])
  BY <1>0 DEF AdoptOK, Supplied
<1>3. Filled(d.seen[m])
  BY <1>0, <1>2 DEF Takes, Passes, Follows
<1>4. CASE m = n
  <2>1. Kept(k, c.work) = c.work
    BY <1>0, <1>4 DEF Adopts, Kept
  <2>2. After(s, Filled(c.work), {"save", "choose"} \cup Makes1 \cup Makes2,
              {"generate", "rotate", "load", "drop"}, {"merge"})
    BY <1>0, <1>4 DEF AdoptOK, Stocked
  <2>3. op = "save" => Filled(c.work)
    BY <1>0, <1>1, <2>2, AfterHead DEF Filled
  <2>. QED
    BY <1>1, <1>2, <1>3, <1>4, <2>1, <2>3
<1>5. CASE m # n
  <2>1. conf'[m] \in {conf[m], c.seen[m]}
    <3>1. c.seen \in [Names -> Entry \cup {None}]
      BY <1>1 DEF Command
    <3>2. Written(p) = [c.seen EXCEPT ![n] = Kept(K(p), Work(p))]
      BY <1>0 DEF Written, N
    <3>3. Written(p)[m] = c.seen[m]
      BY <1>5, <3>1, <3>2
    <3>. QED
      BY <3>3 DEF Takes
  <2>. QED
    BY <1>2, <1>3, <2>1
<1>. QED
  BY <1>4, <1>5

\* What it does to the data and to its entry.
LEMMA TakesStocked ==
  ASSUME TypeInv, AdoptOK, Single, NEW p \in Procs, cmd[p] # None, cmd[p].todo # <<>>,
         NEW d, Takes(p, d), NEW n, n = cmd[p].name, Adopts(kind[n])
  PROVE  Filled(data'[n]) /\ Stocked(d)'
<1>0. PICK c, k, op, s : c = cmd[p] /\ k = kind[n] /\ s = c.todo /\ op = Head(s)
  OBVIOUS
<1>1. /\ c \in Command /\ s \in Seq(Ops) /\ n \in Names /\ k \in Kinds
      /\ op \in Uses => c.work \in Entry
      /\ d.op = c.op /\ d.name = n /\ d.todo = Tail(s)
      /\ \A q \in Procs : cmd'[q] = d
      /\ UNCHANGED kind
  BY <1>0, TakesOn
<1>2. Follows(c, d, op) /\ Draws(p, d) /\ Treats(p)
  BY <1>0 DEF Takes, Passes, DataMoves
<1>3. /\ After(s, Filled(c.work), {"save", "choose"} \cup Makes1 \cup Makes2,
               {"generate", "rotate", "load", "drop"}, {"merge"})
      /\ After(s, FALSE, Binds \cup {"passwd", "auth"}, {}, {})
      /\ c.op = "install" => After(s, Agreed(c), {"create"}, Proves, Proven)
      /\ Filled(conf[n]) /\ Filled(data[n])
  BY <1>0, <1>1 DEF AdoptOK, Stocked, Supplied
<1>4. op \notin Binds \cup {"passwd", "auth"}
  BY <1>0, <1>3, AfterHead, <1>1
<1>5. op \in Makes1 \cup Makes2 =>
        /\ Filled(c.work) /\ c.work \in Entry
        /\ d.work = c.work
  <2>1. op \in Makes1 \cup Makes2 => Filled(c.work)
    BY <1>0, <1>1, <1>3, AfterHead DEF Filled
  <2>2. op \in Makes1 \cup Makes2 => op \in Uses /\ op \notin Rekeys \cup {"load", "drop", "generate"}
    BY DEF Makes1, Makes2, Uses, Rekeys
  <2>. QED
    BY <1>1, <1>2, <2>1, <2>2 DEF Follows
<1>6. Keys(k) = Binds \cup {"passwd"} \cup Makes1 \cup Makes2
  BY <1>0 DEF Adopts, Keys
<1>7. \/ data'[n] = data[n]
      \/ data'[n] = None /\ op \in Erases
      \/ op \in Makes1 \cup Makes2 /\ data'[n] = [sec |-> d.work.sec]
  BY <1>0, <1>1, <1>2, <1>4, <1>6 DEF Treats, Sealed, Adopts
<1>8. Filled(data'[n])
  BY <1>3, <1>5, <1>7, NoneAssumption DEF Filled
<1>9. ASSUME op \in {"generate", "rotate", "load", "drop"} \/ (Filled(c.work) /\ op # "merge")
      PROVE  Filled(d.work)
  <2>1. CASE op \in {"generate", "rotate"}
    BY <1>0, <1>2, <2>1 DEF Draws, Filled
  <2>2. CASE op \in {"load", "drop"}
    BY <1>0, <1>2, <1>3, <2>2 DEF Follows, Filled
  <2>3. CASE op \in {"recall", "adopt", "mint"}
    <3>1. Filled(c.work) /\ c.work \in Entry
      BY <1>1, <1>9, <2>3 DEF Uses
    <3>2. c.work.sec # None
      BY <3>1, NoneAssumption DEF Filled
    <3>. QED
      BY <1>0, <1>2, <2>3, <3>2 DEF Draws, Filled
  <2>4. CASE op \notin {"generate", "rotate", "load", "drop", "recall", "adopt", "mint", "merge"}
    <3>1. d.work = c.work
      BY <1>2, <1>4, <2>4 DEF Follows, Rekeys
    <3>. QED
      BY <1>9, <2>4, <3>1
  <2>. QED
    BY <1>9, <2>1, <2>2, <2>3, <2>4
<1>10. After(Tail(s), Filled(d.work), {"save", "choose"} \cup Makes1 \cup Makes2,
             {"generate", "rotate", "load", "drop"}, {"merge"})
  <2>1. Filled(c.work) \in BOOLEAN /\ Filled(d.work) \in BOOLEAN
    BY DEF Filled
  <2>. QED
    BY <1>0, <1>1, <1>3, <1>9, <2>1, AfterTail
<1>11. After(Tail(s), FALSE, Binds \cup {"passwd", "auth"}, {}, {})
  BY <1>0, <1>1, <1>3, AfterTail
<1>12. ASSUME op \in Proves \/ (Agreed(c) /\ op \notin Proven)
       PROVE  data'[n] # None => d.work # None /\ data'[n].sec = d.work.sec
  <2>1. CASE op \in Proves
    <3>1. op \in Uses /\ op \notin Makes1 \cup Makes2 \cup Erases
      BY <2>1 DEF Proves, Uses, Makes1, Makes2, Erases
    <3>2. d.work \in Entry
      BY <1>1, <1>2, <2>1, <3>1 DEF Follows, Proves, Rekeys
    <3>3. data'[n] = data[n]
      BY <1>7, <3>1
    <3>4. data[n] # None => data[n].sec = d.work.sec
      BY <1>0, <1>2, <1>3, <2>1 DEF Draws, Filled
    <3>. QED
      BY <3>2, <3>3, <3>4, NoneAssumption
  <2>2. CASE op \notin Proves
    <3>1. op \notin {"load", "drop", "merge", "rotate", "mint", "adopt", "fit"}
          /\ (data[n] # None => c.work # None /\ data[n].sec = c.work.sec)
      BY <1>0, <1>12, <2>2 DEF Proves, Proven, Agreed
    <3>2. data[n] # None => c.work.sec # None
      BY <1>3, <3>1 DEF Filled
    <3>3. data[n] # None => d.work = c.work
      BY <1>0, <1>2, <1>4, <3>1, <3>2 DEF Draws, Follows, Rekeys
    <3>. QED
      BY <1>5, <1>7, <3>1, <3>3, NoneAssumption
  <2>. QED
    BY <2>1, <2>2
<1>13. c.op = "install" => After(Tail(s), Agreed(d)', {"create"}, Proves, Proven)
  <2>1. Agreed(d)' <=> (data'[n] # None => d.work # None /\ data'[n].sec = d.work.sec)
    BY <1>1 DEF Agreed
  <2>2. Agreed(c) \in BOOLEAN /\ Agreed(d)' \in BOOLEAN
    BY DEF Agreed
  <2>. QED
    BY <1>0, <1>1, <1>3, <1>12, <2>1, <2>2, AfterTail
<1>. QED
  BY <1>1, <1>8, <1>10, <1>11, <1>13 DEF Stocked, Filled, After

\* The command takes its next step.
LEMMA TakesAdopt ==
  ASSUME TypeInv, AdoptOK, Single, NEW p \in Procs, cmd[p] # None, cmd[p].todo # <<>>,
         NEW d, Takes(p, d)
  PROVE  AdoptOK'
<1>0. PICK n : n = cmd[p].name
  OBVIOUS
<1>1. d.name = n /\ UNCHANGED kind /\ \A q \in Procs : cmd'[q] = d
  BY <1>0, TakesOn
<1>2. ASSUME NEW m \in Names PROVE Supplied(m)'
  <2>1. SUFFICES ASSUME Adopts(kind[m])
                 PROVE  Filled(conf'[m]) /\ Filled(data'[m]) /\ Filled(d.seen[m])
    BY <1>1 DEF Supplied, Filled
  <2>2. Filled(conf'[m]) /\ Filled(d.seen[m])
    BY <2>1, TakesFilled
  <2>3. Filled(data'[m])
    <3>1. CASE m = n
      BY <1>0, <2>1, <3>1, TakesStocked
    <3>2. CASE m # n
      BY <1>0, <2>1, <3>2 DEF Takes, DataMoves, AdoptOK, Supplied
    <3>. QED
      BY <3>1, <3>2
  <2>. QED
    BY <2>2, <2>3
<1>3. Stocked(d)'
  <2>1. CASE Adopts(kind[n])
    BY <1>0, <2>1, TakesStocked
  <2>2. CASE ~Adopts(kind[n])
    BY <1>1, <2>2 DEF Stocked
  <2>. QED
    BY <2>1, <2>2
<1>. QED
  BY <1>1, <1>2, <1>3 DEF AdoptOK

\* It is gone.
LEMMA GoneAdopt ==
  ASSUME TypeInv, AdoptOK, Gone
  PROVE  AdoptOK'
<1>1. UNCHANGED <<kind, data>> /\ \A q \in Procs : cmd'[q] = None
  BY DEF Gone
<1>2. ASSUME NEW n \in Names, Adopts(kind[n]) PROVE Filled(conf'[n])
  <2>1. CASE conf'[n] \in {conf[n], None}
    BY <1>2, <2>1 DEF AdoptOK, Supplied, Filled
  <2>2. ASSUME NEW q \in Procs, cmd[q] # None, conf'[n] = cmd[q].seen[n]
        PROVE  Filled(conf'[n])
    BY <1>2, <2>2 DEF AdoptOK, Supplied
  <2>3. ASSUME NEW q \in Procs, cmd[q] # None, n = cmd[q].name, cmd[q].todo # <<>>,
               Head(cmd[q].todo) = "save", conf'[n] = Kept(kind[n], cmd[q].work)
        PROVE  Filled(conf'[n])
    <3>1. After(cmd[q].todo, Filled(cmd[q].work), {"save", "choose"} \cup Makes1 \cup Makes2,
                {"generate", "rotate", "load", "drop"}, {"merge"})
      BY <1>2, <2>3 DEF AdoptOK, Stocked
    <3>2. cmd[q].todo \in Seq(Ops)
      BY <2>3, AtStep
    <3>3. Filled(cmd[q].work)
      BY <2>3, <3>1, <3>2, AfterHead DEF Filled
    <3>4. Kept(kind[n], cmd[q].work) = cmd[q].work
      BY <1>2 DEF Adopts, Kept
    <3>. QED
      BY <2>3, <3>3, <3>4
  <2>. QED
    BY <2>1, <2>2, <2>3 DEF Gone
<1>3. \A n \in Names : Adopts(kind[n]) => Filled(data[n])
  BY DEF AdoptOK, Supplied
<1>. QED
  BY <1>1, <1>2, <1>3 DEF AdoptOK, Supplied, Filled

\* A program of such a kind starts in that order, when the entry has a secret.
LEMMA AdoptBegins ==
  ASSUME NEW d, NEW k \in Kinds, k = kind[d.name], Filled(d.work),
         \/ d.todo \in UsePrograms(k) \cup InstallPrograms(k)
         \/ d.op # "install" /\ d.todo = <<"load", "save">>,
         d.op = "install" => d.todo \in InstallPrograms(k),
         d.todo \in Seq(Ops)
  PROVE  Stocked(d)
<1>1. SUFFICES ASSUME Adopts(k)
               PROVE  /\ After(d.todo, Filled(d.work), {"save", "choose"} \cup Makes1 \cup Makes2,
                               {"generate", "rotate", "load", "drop"}, {"merge"})
                      /\ After(d.todo, FALSE, Binds \cup {"passwd", "auth"}, {}, {})
                      /\ d.op = "install" =>
                           After(d.todo, Agreed(d), {"create"}, Proves, Proven)
  BY DEF Stocked
<1>2. AdoptOrder(k)
  BY OrderAssumption DEF Orderly
<1>3. CASE d.todo \in UsePrograms(k) \cup InstallPrograms(k)
  <2>1. After(d.todo, Filled(d.work), {"save", "choose"} \cup Makes1 \cup Makes2,
              {"generate", "rotate", "load", "drop"}, {"merge"})
    BY <1>1, <1>2, <1>3 DEF AdoptOrder, After
  <2>2. \A i \in DOMAIN d.todo : d.todo[i] \in StepsOf(k)
    BY <1>3 DEF StepsOf
  <2>3. After(d.todo, FALSE, Binds \cup {"passwd", "auth"}, {}, {})
    BY <1>1, <1>2, <2>2 DEF AdoptOrder, After
  <2>4. d.op = "install" => After(d.todo, FALSE, {"create"}, Proves, Proven)
    BY <1>1, <1>2 DEF AdoptOrder
  <2>5. d.op = "install" => After(d.todo, Agreed(d), {"create"}, Proves, Proven)
    BY <2>4, AfterWeaker DEF Agreed
  <2>. QED
    BY <2>1, <2>3, <2>5
<1>4. CASE d.op # "install" /\ d.todo = <<"load", "save">>
  <2>1. \A i \in DOMAIN d.todo : d.todo[i] \in {"load", "save"}
    BY <1>4
  <2>2. \A i \in DOMAIN d.todo : d.todo[i] \notin Binds \cup {"passwd", "auth"} /\ d.todo[i] # "merge"
    BY <2>1 DEF Binds
  <2>3. \A i \in DOMAIN d.todo : \A j \in 1..(i - 1) : j \in DOMAIN d.todo
    <3>1. DOMAIN d.todo = 1..2
      BY <1>4
    <3>. QED
      BY <3>1
  <2>4. After(d.todo, FALSE, Binds \cup {"passwd", "auth"}, {}, {})
    BY <2>2 DEF After
  <2>5. After(d.todo, Filled(d.work), {"save", "choose"} \cup Makes1 \cup Makes2,
              {"generate", "rotate", "load", "drop"}, {"merge"})
    BY <2>2, <2>3 DEF After
  <2>. QED
    BY <1>4, <2>4, <2>5
<1>. QED
  BY <1>3, <1>4

\* An install chooses.
LEMMA TurnsAdopt ==
  ASSUME TypeInv, AdoptOK, Single, NEW p \in Procs, Choose(p)
  PROVE  AdoptOK'
<1>0. PICK c, n, k : c = cmd[p] /\ n = c.name /\ k = kind[n]
  OBVIOUS
<1>1. /\ UNCHANGED <<kind, conf, data>> /\ Turns(p)
      /\ c # None /\ c.todo # <<>> /\ Head(c.todo) = "choose"
  BY <1>0, ChooseTurns DEF Choose, At
<1>2. PICK d \in Command, i \in DOMAIN Branches(k) :
        /\ cmd' = [cmd EXCEPT ![p] = d]
        /\ d.op = "install"
        /\ d.name = n
        /\ d.todo = Branches(k)[i].steps
        /\ d.seen = c.seen
        /\ d.work = c.work
  BY <1>0, <1>1 DEF Turns
<1>3. n \in Names /\ k \in Kinds /\ c.todo \in Seq(Ops)
  BY <1>0, <1>1, AtStep DEF TypeInv, Stores
<1>4. \A q \in Procs : cmd'[q] = d /\ q = p
  BY <1>2 DEF Single, TypeInv
<1>5. d.todo \in InstallPrograms(k) /\ d.todo \in Seq(Ops)
  BY <1>2 DEF InstallPrograms, BranchPrograms, Command
<1>6. Stocked(d)
  <2>1. SUFFICES ASSUME Adopts(k) PROVE Stocked(d)
    BY <1>0, <1>2 DEF Stocked
  <2>2. After(c.todo, Filled(c.work), {"save", "choose"} \cup Makes1 \cup Makes2,
              {"generate", "rotate", "load", "drop"}, {"merge"})
    BY <1>0, <1>1, <2>1 DEF AdoptOK, Stocked
  <2>3. Filled(c.work)
    BY <1>1, <1>3, <2>2, AfterHead DEF Filled
  <2>. QED
    BY <1>0, <1>2, <1>3, <1>5, <2>3, AdoptBegins
<1>7. Stocked(d)'
  <2>1. Agreed(d)' <=> Agreed(d)
    BY <1>1 DEF Agreed
  <2>. QED
    BY <1>1, <1>6, <2>1 DEF Stocked, Filled, After
<1>8. \A m \in Names : Supplied(m)'
  BY <1>0, <1>1, <1>2, <1>4 DEF AdoptOK, Supplied, Filled
<1>. QED
  BY <1>4, <1>7, <1>8 DEF AdoptOK

\* A command begins.
LEMMA BeginsAdopt ==
  ASSUME TypeInv, AdoptOK, Single, NEW p \in Procs, Begins(p),
         UNCHANGED <<kind, conf, data>>
  PROVE  AdoptOK'
<1>1. PICK d \in Command, k \in Kinds :
        /\ cmd' = [cmd EXCEPT ![p] = d]
        /\ k = kind[d.name]
        /\ d.seen = conf /\ d.work = None
        /\ d.op = "install" => d.todo = k.install.prepare
        /\ d.op = "serve" => d.todo = <<"load", "save">>
        /\ d.op \notin {"install", "serve"} => d.todo \in UsePrograms(k)
  BY BeginsProgram
<1>2. \A q \in Procs : cmd'[q] = d
  BY <1>1 DEF Single, TypeInv
<1>3. Stocked(d)
  <2>1. d.todo \in Seq(Ops)
    BY DEF Command
  <2>. QED
    BY <1>1, <2>1, AdoptBegins DEF InstallPrograms, Filled
<1>4. Stocked(d)'
  <2>1. Agreed(d)' <=> Agreed(d)
    BY DEF Agreed
  <2>. QED
    BY <1>3, <2>1 DEF Stocked, Filled, After
<1>5. \A m \in Names : Supplied(m)'
  BY <1>1, <1>2 DEF AdoptOK, Supplied, Filled
<1>. QED
  BY <1>2, <1>4, <1>5 DEF AdoptOK

\* Containers come down.
LEMMA SinksAdopt ==
  ASSUME AdoptOK, Sinks
  PROVE  AdoptOK'
<1>1. UNCHANGED <<kind, conf, data, cmd>>
  BY DEF Sinks
<1>2. \A n \in Names : Supplied(n)'
  BY <1>1 DEF AdoptOK, Supplied, Filled
<1>3. ASSUME NEW p \in Procs, cmd[p] # None PROVE Stocked(cmd[p])'
  <2>0. PICK c : c = cmd[p]
    OBVIOUS
  <2>1. Stocked(c)
    BY <1>3, <2>0 DEF AdoptOK
  <2>2. Agreed(c)' <=> Agreed(c)
    BY <1>1 DEF Agreed
  <2>3. Stocked(c)'
    BY <1>1, <2>1, <2>2 DEF Stocked, Filled, After
  <2>. QED
    BY <1>1, <2>0, <2>3
<1>. QED
  BY <1>1, <1>2, <1>3 DEF AdoptOK

-----------------------------------------------------------------------------
\* What an install has got done.

\* The mark m of a finished build is there, for the entry of the command c.
Bears(m, c) ==
  LET n == c.name
      e == c.work
  IN /\ e # None
     /\ CASE m = "saved" -> conf[n] = Kept(kind[n], e)
          [] m = "set1"  -> Exists(n, 1) /\ box[n][1].set = e.set
          [] m = "set2"  -> Runs(e, 2) => Exists(n, 2) /\ box[n][2].set = e.set
          [] m = "sec1"  -> Exists(n, 1) /\ box[n][1].sec = e.sec
          [] m = "sec2"  -> Runs(e, 2) => Exists(n, 2) /\ box[n][2].sec = e.sec
          [] m = "read1" -> Exists(n, 1) /\ box[n][1].loaded = file[n]
          [] m = "read2" -> Runs(e, 2) => Exists(n, 2) /\ box[n][2].loaded = file[n]
          [] m = "file"  -> file[n] # None /\ file[n].set = e.set
          [] m = "key"   -> file[n] # None /\ file[n].sec = e.sec
          [] m = "login" -> \/ NoAuth(kind[n], e)
                            \/ data[n] # None /\ data[n].sec = e.sec

\* An install that builds ends with every mark; one that has not chosen yet comes
\* to its choice with those that its kind is ready with.
Settled(c) ==
  LET k == kind[c.name]
  IN c.op = "install" => \A m \in Wanted(k) :
       /\ c.built => Left(c.todo, Bears(m, c), Gives(k, m), Loses(m))
       /\ Ready(k, m) => After(c.todo, Bears(m, c), {"choose"}, Gives(k, m), Loses(m))

BuildOK == \A p \in Procs : cmd[p] # None => Settled(cmd[p])

Boxed == {"set1", "set2", "sec1", "sec2", "read1", "read2"}
PartOf(m) == IF m \in Marks2 THEN 2 ELSE 1

\* The marks that a kind may want, and what it is like then.
LEMMA WantedMarks ==
  ASSUME NEW k, NEW m \in Wanted(k)
  PROVE  /\ m \in Boxed \cup {"saved", "file", "key", "login"}
         /\ m \in {"sec1", "sec2"} => k.traits.binds = "box"
         /\ m \in {"read1", "read2", "file"} => k.traits.files
         /\ m = "key" => Writes(k)
BY DEF Wanted, Boxed, Writes

\* The steps on containers that a mark names.
LEMMA MarkSteps ==
  ASSUME NEW k, NEW m \in Boxed
  PROVE  /\ PartOf(m) \in Parts
         /\ Gives(k, m) = {Founds(PartOf(m))}
         /\ Resets \cup Clears(PartOf(m)) \subseteq Loses(m)
         /\ m \in {"sec1", "sec2"} => Changers \subseteq Loses(m)
         /\ m \in {"read1", "read2"} => Renders \cup Drops \subseteq Loses(m)
<1>1. CASE m \in {"set1", "sec1", "read1"}
  BY <1>1 DEF PartOf, Parts, Gives, Founds, Loses, Marks2, Changers
<1>2. CASE m \in {"set2", "sec2", "read2"}
  BY <1>2 DEF PartOf, Parts, Gives, Founds, Loses, Marks2, Changers
<1>. QED
  BY <1>1, <1>2 DEF Boxed

\* The mark on a container, of either part.
LEMMA BoxMark ==
  ASSUME NEW c, NEW m \in Boxed, NEW n, n = c.name, NEW r, r = PartOf(m)
  PROVE  Bears(m, c) <=>
           /\ c.work # None
           /\ Runs(c.work, r) => /\ Exists(n, r)
                                 /\ m \in {"set1", "set2"} => box[n][r].set = c.work.set
                                 /\ m \in {"sec1", "sec2"} => box[n][r].sec = c.work.sec
                                 /\ m \in {"read1", "read2"} => box[n][r].loaded = file[n]
<1>1. CASE m \in {"set1", "sec1", "read1"}
  BY <1>1 DEF Bears, PartOf, Marks2, Runs
<1>2. CASE m \in {"set2", "sec2", "read2"}
  BY <1>2 DEF Bears, PartOf, Marks2
<1>. QED
  BY <1>1, <1>2 DEF Boxed

\* A step of the install either brings the mark m, or finds it and does not end it.
Brings(p, m) ==
  LET op == Head(cmd[p].todo)
      k == kind[cmd[p].name]
  IN \/ op \in Gives(k, m)
     \/ Bears(m, cmd[p]) /\ op \notin Loses(m)

\* Then the entry is there, and has the settings that it had, and the secret.
LEMMA BringsEntry ==
  ASSUME TypeInv, Single, NEW p \in Procs, cmd[p] # None, cmd[p].todo # <<>>,
         cmd[p].op = "install", NEW d, Takes(p, d), NEW k, k = kind[cmd[p].name],
         NEW m \in Wanted(k), Brings(p, m)
  PROVE  /\ cmd[p].work \in Entry /\ d.work \in Entry
         /\ d.work.set = cmd[p].work.set
         /\ Head(cmd[p].todo) \notin Changers => d.work = cmd[p].work
         /\ m \in {"saved", "sec1", "sec2", "key", "login"} => d.work = cmd[p].work
<1>0. PICK c, n, op, s : c = cmd[p] /\ n = c.name /\ s = c.todo /\ op = Head(s)
  OBVIOUS
<1>1. /\ c \in Command /\ s \in Seq(Ops) /\ n \in Names
      /\ op \in Uses => c.work \in Entry
  BY <1>0, TakesOn
<1>2. Follows(c, d, op)
  BY <1>0 DEF Takes, Passes
<1>3. m \in {"saved", "set1", "set2", "sec1", "sec2", "read1", "read2", "file", "key", "login"}
  BY WantedMarks DEF Boxed
<1>4. op \in Gives(k, m) => op \in Uses \cup {"save"} /\ op \notin Changers
  BY <1>3 DEF Gives, Opens, Marks2, Uses, Changers, Resets, Rekeys
<1>5. op = "save" => c.work \in Entry
  <2>1. SUFFICES ASSUME op = "save" PROVE c.work # None
    BY <1>1 DEF Command
  <2>2. Fed(c)
    BY <1>0 DEF TypeInv
  <2>3. After(s, c.work # None, InstallNeeds(k), {"merge"}, {"load", "drop"})
    BY <1>0, <2>2 DEF Fed, NeedsOf, GivesOf
  <2>. QED
    BY <1>0, <1>1, <2>1, <2>3, AfterHead DEF InstallNeeds
<1>6. Resets \subseteq Loses(m)
      /\ (m \in {"saved", "sec1", "sec2", "key", "login"} => Changers \subseteq Loses(m))
  BY <1>3 DEF Loses, Changers
<1>7. c.work \in Entry
  <2>1. CASE op \in Gives(k, m)
    BY <1>1, <1>4, <1>5, <2>1
  <2>2. CASE Bears(m, c)
    BY <1>1, <2>2 DEF Bears, Command
  <2>. QED
    BY <1>0, <2>1, <2>2 DEF Brings
<1>8. op \notin Resets
  BY <1>0, <1>4, <1>6 DEF Brings, Changers
<1>9. d.work \in Entry /\ d.work.set = c.work.set /\ (op \notin Changers => d.work = c.work)
  BY <1>2, <1>7, <1>8 DEF Follows, Resets, Changers, Rekeys
<1>10. m \in {"saved", "sec1", "sec2", "key", "login"} => op \notin Changers
  BY <1>0, <1>4, <1>6 DEF Brings
<1>. QED
  BY <1>0, <1>7, <1>9, <1>10

\* A mark on a container.
LEMMA BringsBox ==
  ASSUME TypeInv, Single, NEW p \in Procs, cmd[p] # None, cmd[p].todo # <<>>,
         cmd[p].op = "install", NEW d, Takes(p, d), NEW k, k = kind[cmd[p].name],
         NEW m \in Wanted(k), Brings(p, m), m \in Boxed
  PROVE  Bears(m, d)'
<1>0. PICK c, n, op, s, r : /\ c = cmd[p] /\ n = c.name /\ s = c.todo /\ op = Head(s)
                            /\ r = PartOf(m)
  OBVIOUS
<1>1. /\ c \in Command /\ s \in Seq(Ops) /\ n \in Names
      /\ d.name = n
      /\ UNCHANGED kind
  BY <1>0, TakesOn
<1>2. /\ c.work \in Entry /\ d.work \in Entry
      /\ d.work.set = c.work.set
      /\ op \notin Changers => d.work = c.work
      /\ m \in {"sec1", "sec2"} => d.work = c.work
  BY <1>0, BringsEntry
<1>3. /\ r \in Parts
      /\ Gives(k, m) = {Founds(r)}
      /\ Resets \cup Clears(r) \subseteq Loses(m)
      /\ m \in {"read1", "read2"} => Renders \cup Drops \subseteq Loses(m)
  BY <1>0, MarkSteps
<1>4. Spares(p, r) /\ FileMoves(p) /\ Knows(c, d, op)
  BY <1>0, <1>3 DEF Takes, Passes
<1>5. /\ m \in {"sec1", "sec2"} => k.traits.binds = "box"
      /\ m \in {"read1", "read2"} => k.traits.files
  BY WantedMarks
<1>6. Runs(d.work, r) <=> Runs(c.work, r)
  BY <1>2 DEF Runs
<1>7. N(p) = n
  BY <1>0 DEF N
<1>8. op \notin Renders \cup Drops => file'[n] = file[n]
  <2>1. CASE op = "vet"
    BY <1>0, <1>4, <1>7, <2>1 DEF FileMoves, Knows
  <2>2. CASE op # "vet"
    BY <1>0, <1>4, <2>2 DEF FileMoves
  <2>. QED
    BY <2>1, <2>2
<1>9. op \in {"create", "create2"} => op \notin Renders \cup Drops \cup Changers
  BY DEF Renders, Drops, Changers, Resets, Rekeys
<1>10. m \in {"read1", "read2"} => file'[n] = file[n]
  BY <1>0, <1>3, <1>8, <1>9 DEF Brings, Founds
<1>11. SUFFICES ASSUME Runs(c.work, r)
                PROVE  /\ box'[n][r] # None
                       /\ m \in {"set1", "set2"} => box'[n][r].set = d.work.set
                       /\ m \in {"sec1", "sec2"} => box'[n][r].sec = d.work.sec
                       /\ m \in {"read1", "read2"} => box'[n][r].loaded = file'[n]
  <2>1. d.work # None
    BY <1>2, NoneAssumption
  <2>2. Bears(m, d)' <=>
           /\ d.work # None
           /\ Runs(d.work, r) => /\ Exists(n, r)'
                                 /\ m \in {"set1", "set2"} => box'[n][r].set = d.work.set
                                 /\ m \in {"sec1", "sec2"} => box'[n][r].sec = d.work.sec
                                 /\ m \in {"read1", "read2"} => box'[n][r].loaded = file'[n]
    <3>1. CASE m \in {"set1", "sec1", "read1"}
      BY <1>0, <1>1, <3>1 DEF Bears, PartOf, Marks2, Runs
    <3>2. CASE m \in {"set2", "sec2", "read2"}
      BY <1>0, <1>1, <3>2 DEF Bears, PartOf, Marks2
    <3>. QED
      BY <3>1, <3>2 DEF Boxed
  <2>. QED
    BY <1>6, <1>11, <2>1, <2>2 DEF Exists
<1>12. CASE op = Founds(r)
  <2>1. box'[n][r] = NewBox(n, k, c.work)
    BY <1>0, <1>4, <1>11, <1>12 DEF Spares
  <2>2. NewBox(n, k, c.work) # None
    BY <1>1, <1>2, NewBoxTyped, NoneAssumption DEF TypeInv
  <2>3. d.work = c.work
    BY <1>2, <1>9, <1>12 DEF Founds
  <2>4. /\ NewBox(n, k, c.work).set = c.work.set
        /\ k.traits.binds = "box" => NewBox(n, k, c.work).sec = c.work.sec
        /\ k.traits.files => NewBox(n, k, c.work).loaded = file[n]
    BY DEF NewBox
  <2>. QED
    BY <1>5, <1>10, <2>1, <2>2, <2>3, <2>4
<1>13. CASE op # Founds(r)
  <2>1. Bears(m, c) /\ op \notin Clears(r)
    BY <1>0, <1>3, <1>13 DEF Brings
  <2>2. /\ Exists(n, r)
        /\ m \in {"set1", "set2"} => box[n][r].set = c.work.set
        /\ m \in {"sec1", "sec2"} => box[n][r].sec = c.work.sec
        /\ m \in {"read1", "read2"} => box[n][r].loaded = file[n]
    BY <1>0, <1>11, <2>1, BoxMark
  <2>3. /\ box'[n][r] # None
        /\ box'[n][r].set = box[n][r].set
        /\ box'[n][r].sec = box[n][r].sec
        /\ Fresher(k, box[n][r], file[n]) => Fresher(k, box'[n][r], file[n])
    BY <1>0, <1>4, <1>13, <2>1, <2>2 DEF Spares
  <2>4. m \in {"read1", "read2"} => box'[n][r].loaded = file'[n]
    BY <1>5, <1>10, <2>2, <2>3 DEF Fresher
  <2>. QED
    BY <1>2, <2>2, <2>3, <2>4
<1>. QED
  BY <1>12, <1>13

\* A mark in pg.yaml, in the file or in the data.
LEMMA BringsStored ==
  ASSUME TypeInv, AdoptOK, Single, NEW p \in Procs, cmd[p] # None, cmd[p].todo # <<>>,
         cmd[p].op = "install", NEW d, Takes(p, d), NEW k, k = kind[cmd[p].name],
         NEW m \in Wanted(k), Brings(p, m), m \notin Boxed
  PROVE  Bears(m, d)'
<1>0. PICK c, n, op, s : c = cmd[p] /\ n = c.name /\ s = c.todo /\ op = Head(s)
  OBVIOUS
<1>1. /\ c \in Command /\ s \in Seq(Ops) /\ n \in Names /\ k \in Kinds
      /\ d # None /\ d.name = n
      /\ cmd'[p] = d
      /\ UNCHANGED kind
      /\ conf'[n] = IF op = "save" THEN Kept(k, c.work) ELSE conf[n]
  BY <1>0, TakesOn
<1>2. /\ c.work \in Entry /\ d.work \in Entry
      /\ d.work.set = c.work.set
      /\ op \notin Changers => d.work = c.work
      /\ m \in {"saved", "key", "login"} => d.work = c.work
  BY <1>0, BringsEntry
<1>3. m \in {"saved", "file", "key", "login"} /\ (m = "key" => Writes(k))
  BY WantedMarks
<1>4. d.work # None
  BY <1>2, NoneAssumption
<1>5. FileMoves(p) /\ Knows(c, d, op) /\ Prints(p) /\ DataMoves(p) /\ N(p) = n
  BY <1>0 DEF Takes, Passes, N
<1>6. op \notin Renders \cup Drops => file'[n] = file[n]
  <2>1. CASE op = "vet"
    BY <1>0, <1>5, <2>1 DEF FileMoves, Knows
  <2>2. CASE op # "vet"
    BY <1>0, <1>5, <2>2 DEF FileMoves
  <2>. QED
    BY <2>1, <2>2
<1>7. CASE m = "saved"
  <2>1. op = "save" \/ conf[n] = Kept(k, c.work)
    BY <1>0, <1>7 DEF Brings, Gives, Bears, Marks2
  <2>2. conf'[n] = Kept(k, d.work)
    BY <1>1, <1>2, <1>7, <2>1
  <2>. QED
    BY <1>0, <1>1, <1>4, <1>7, <2>2 DEF Bears
<1>8. CASE m = "file"
  <2>1. \/ op = "files"
        \/ /\ file[n] # None /\ file[n].set = c.work.set
           /\ op \notin Drops \cup {"secretfile", "copyfile"}
    BY <1>0, <1>8 DEF Brings, Gives, Loses, Bears, Marks2
  <2>2. file'[n] # None /\ file'[n].set = c.work.set
    BY <1>0, <1>5, <1>6, <2>1 DEF Prints, Renders
  <2>. QED
    BY <1>1, <1>2, <1>4, <1>8, <2>2 DEF Bears
<1>9. CASE m = "key"
  <2>1. \/ op = "files"
        \/ file[n] # None /\ file[n].sec = c.work.sec /\ op \notin Drops
    BY <1>0, <1>9 DEF Brings, Gives, Loses, Bears, Marks2
  <2>2. file'[n] # None /\ file'[n].sec = c.work.sec
    BY <1>0, <1>3, <1>5, <1>6, <1>9, <2>1 DEF Prints, Renders
  <2>. QED
    BY <1>1, <1>2, <1>4, <1>9, <2>2 DEF Bears
<1>10. CASE m = "login"
  <2>1. [sec |-> c.work.sec] # None
    BY <1>2, NoneAssumption DEF Entry
  <2>2. CASE op \in Gives(k, m) /\ Adopts(k)
    <3>1. op = "create"
      BY <1>10, <2>2 DEF Gives, Marks2
    <3>2. k.traits.data /\ k.traits.binds = "data"
      BY <1>1, <2>2, OrderAssumption DEF Orderly, AdoptOrder, Adopts
    <3>3. data'[n] = IF data[n] = None THEN [sec |-> c.work.sec] ELSE data[n]
      BY <1>0, <1>5, <3>1, <3>2 DEF DataMoves
    <3>4. After(s, Agreed(c), {"create"}, Proves, Proven)
      BY <1>0, <2>2 DEF AdoptOK, Stocked
    <3>5. Agreed(c)
      BY <1>0, <1>1, <3>1, <3>4, AfterHead DEF Agreed
    <3>6. data'[n] # None /\ data'[n].sec = c.work.sec
      BY <1>0, <2>1, <3>3, <3>5 DEF Agreed
    <3>. QED
      BY <1>1, <1>2, <1>4, <1>10, <3>6 DEF Bears
  <2>3. CASE op \in Gives(k, m) /\ ~Adopts(k)
    <3>1. op \in {"setsecret", "bootstrap", "passwd"}
      BY <1>10, <2>3 DEF Gives, Opens, Marks2
    <3>2. op = "passwd" => Does(k, "passwd")
      BY <1>10, <2>3 DEF Gives, Opens, Marks2
    <3>3. \/ NoAuth(k, c.work)
          \/ data'[n] = [sec |-> c.work.sec]
      BY <1>0, <1>1, <1>5, <3>1, <3>2 DEF DataMoves, NoAuth
    <3>. QED
      BY <1>0, <1>1, <1>2, <1>4, <1>10, <2>1, <3>3 DEF Bears
  <2>4. CASE op \notin Gives(k, m)
    <3>1. /\ NoAuth(k, c.work) \/ (data[n] # None /\ data[n].sec = c.work.sec)
          /\ op \notin Erases
      BY <1>0, <1>10, <2>4 DEF Brings, Loses, Bears, Marks2
    <3>2. CASE NoAuth(k, c.work)
      BY <1>0, <1>1, <1>2, <1>4, <1>10, <3>2 DEF Bears
    <3>3. CASE data[n] # None /\ data[n].sec = c.work.sec
      <4>1. \/ data'[n] = data[n]
            \/ data'[n] = [sec |-> c.work.sec]
        BY <1>0, <1>1, <1>2, <1>5, <1>10, <3>1, <3>3 DEF DataMoves, Treats, Sealed
      <4>. QED
        BY <1>1, <1>2, <1>4, <1>10, <2>1, <3>3, <4>1 DEF Bears
    <3>. QED
      BY <3>1, <3>2, <3>3
  <2>. QED
    BY <2>2, <2>3, <2>4
<1>. QED
  BY <1>3, <1>7, <1>8, <1>9, <1>10

\* The command takes its next step.
LEMMA TakesBuild ==
  ASSUME TypeInv, AdoptOK, BuildOK, Single, NEW p \in Procs, cmd[p] # None,
         cmd[p].todo # <<>>, NEW d, Takes(p, d)
  PROVE  BuildOK'
<1>0. PICK c, n, k, op, s : c = cmd[p] /\ n = c.name /\ k = kind[n] /\ s = c.todo /\ op = Head(s)
  OBVIOUS
<1>1. /\ c \in Command /\ s \in Seq(Ops) /\ n \in Names
      /\ d # None /\ d.op = c.op /\ d.name = n /\ d.todo = Tail(s) /\ d.built = c.built
      /\ \A q \in Procs : cmd'[q] = d
      /\ UNCHANGED kind
  BY <1>0, TakesOn
<1>2. Settled(c)
  BY <1>0, <1>1 DEF BuildOK
<1>3. ASSUME c.op = "install", NEW m \in Wanted(k)
      PROVE  /\ c.built => Left(Tail(s), Bears(m, d)', Gives(k, m), Loses(m))
             /\ Ready(k, m) => After(Tail(s), Bears(m, d)', {"choose"}, Gives(k, m), Loses(m))
  <2>1. op \in Gives(k, m) \/ (Bears(m, c) /\ op \notin Loses(m)) => Bears(m, d)'
    BY <1>0, <1>3, BringsBox, BringsStored DEF Brings
  <2>2. /\ c.built => Left(s, Bears(m, c), Gives(k, m), Loses(m))
        /\ Ready(k, m) => After(s, Bears(m, c), {"choose"}, Gives(k, m), Loses(m))
    BY <1>0, <1>2, <1>3 DEF Settled
  <2>3. PICK t \in BOOLEAN, u \in BOOLEAN : t = Bears(m, c) /\ u = Bears(m, d)'
    BY DEF Bears
  <2>4. op \in Gives(k, m) \/ (t /\ op \notin Loses(m)) => u
    BY <2>1, <2>3
  <2>5. s # <<>> /\ op = Head(s) /\ s \in Seq(Ops)
    BY <1>0, <1>1
  <2>6. c.built => Left(Tail(s), u, Gives(k, m), Loses(m))
    <3>1. c.built => Left(s, t, Gives(k, m), Loses(m))
      BY <2>2, <2>3
    <3>. QED
      BY <2>4, <2>5, <3>1, LeftTail
  <2>7. Ready(k, m) => After(Tail(s), u, {"choose"}, Gives(k, m), Loses(m))
    <3>1. Ready(k, m) => After(s, t, {"choose"}, Gives(k, m), Loses(m))
      BY <2>2, <2>3
    <3>. QED
      BY <2>4, <2>5, <3>1, AfterTail
  <2>. QED
    BY <2>3, <2>6, <2>7
<1>4. Settled(d)'
  <2>1. kind'[d.name] = k /\ d.op = c.op /\ d.todo = Tail(s) /\ d.built = c.built
    BY <1>0, <1>1
  <2>2. ASSUME d.op = "install", NEW m \in Wanted(k)
        PROVE  /\ d.built => Left(d.todo, Bears(m, d)', Gives(k, m), Loses(m))
               /\ Ready(k, m) =>
                    After(d.todo, Bears(m, d)', {"choose"}, Gives(k, m), Loses(m))
    BY <1>3, <2>1, <2>2
  <2>. QED
    BY <2>1, <2>2 DEF Settled, Left, After, Ready
<1>. QED
  BY <1>1, <1>4 DEF BuildOK

\* An install chooses: the last branch ends with every mark.
LEMMA TurnsBuild ==
  ASSUME TypeInv, BuildOK, Single, NEW p \in Procs, Choose(p)
  PROVE  BuildOK'
<1>0. PICK c, n, k : c = cmd[p] /\ n = c.name /\ k = kind[n]
  OBVIOUS
<1>1. /\ UNCHANGED <<kind, conf, file, data, box>> /\ Turns(p)
      /\ c # None /\ c.todo # <<>> /\ Head(c.todo) = "choose" /\ c.op = "install"
  BY <1>0, ChooseTurns DEF Choose, At, Turns
<1>2. PICK d \in Command, i \in DOMAIN Branches(k) :
        /\ cmd' = [cmd EXCEPT ![p] = d]
        /\ d.op = "install"
        /\ d.name = n
        /\ d.todo = Branches(k)[i].steps
        /\ d.work = c.work
        /\ d.built = (i = Len(Branches(k)))
  BY <1>0, <1>1 DEF Turns
<1>3. n \in Names /\ k \in Kinds /\ c.todo \in Seq(Ops)
  BY <1>0, <1>1, AtStep DEF TypeInv, Stores
<1>4. \A q \in Procs : cmd'[q] = d
  BY <1>2 DEF Single, TypeInv
<1>5. BuildOrder(k)
  BY <1>3, OrderAssumption DEF Orderly
<1>6. ASSUME NEW m \in Wanted(k)
      PROVE  /\ d.built => Left(d.todo, Bears(m, d), Gives(k, m), Loses(m))
             /\ After(d.todo, Bears(m, d), {"choose"}, Gives(k, m), Loses(m))
  <2>1. Bears(m, c) <=> Bears(m, d)
    BY <1>0, <1>2 DEF Bears
  <2>2. ASSUME Ready(k, m) PROVE Bears(m, c)
    <3>1. After(c.todo, Bears(m, c), {"choose"}, Gives(k, m), Loses(m))
      BY <1>0, <1>1, <2>2 DEF BuildOK, Settled
    <3>. QED
      BY <1>1, <1>3, <3>1, AfterHead DEF Bears
  <2>3. ASSUME d.built PROVE Left(d.todo, Bears(m, d), Gives(k, m), Loses(m))
    <3>1. d.todo = Build(k)
      BY <1>2, <2>3 DEF Build
    <3>2. Left(Build(k), Ready(k, m), Gives(k, m), Loses(m))
      BY <1>5 DEF BuildOrder
    <3>3. Ready(k, m) \in BOOLEAN /\ Bears(m, d) \in BOOLEAN
      BY DEF Ready, After, Bears
    <3>. QED
      BY <2>1, <2>2, <3>1, <3>2, <3>3, LeftWeaker
  <2>4. ~In("choose", d.todo)
    BY <1>2, <1>5 DEF BuildOrder, BranchPrograms
  <2>5. After(d.todo, Bears(m, d), {"choose"}, Gives(k, m), Loses(m))
    BY <2>4 DEF After, In
  <2>. QED
    BY <2>3, <2>5
<1>7. \A m \in Wanted(k) : Bears(m, d)' <=> Bears(m, d)
  BY <1>1 DEF Bears, Exists
<1>8. Settled(d)'
  BY <1>0, <1>1, <1>2, <1>6, <1>7 DEF Settled, Left, After, Ready
<1>. QED
  BY <1>4, <1>8 DEF BuildOK

\* A command begins.
LEMMA BeginsBuild ==
  ASSUME TypeInv, Single, NEW p \in Procs, Begins(p), UNCHANGED kind
  PROVE  BuildOK'
<1>1. PICK d \in Command, k \in Kinds :
        /\ cmd' = [cmd EXCEPT ![p] = d]
        /\ k = kind[d.name]
        /\ ~d.built
        /\ d.op = "install" => d.todo = k.install.prepare
  BY BeginsProgram
<1>2. \A q \in Procs : cmd'[q] = d
  BY <1>1 DEF Single, TypeInv
<1>3. ASSUME d.op = "install", NEW m \in Wanted(k), Ready(k, m), NEW b \in BOOLEAN
      PROVE  After(d.todo, b, {"choose"}, Gives(k, m), Loses(m))
  BY <1>1, <1>3, AfterWeaker DEF Ready
<1>4. \A m \in Wanted(k) : Bears(m, d)' \in BOOLEAN
  BY DEF Bears
<1>5. Settled(d)'
  BY <1>1, <1>3, <1>4 DEF Settled, After, Ready
<1>. QED
  BY <1>2, <1>5 DEF BuildOK

\* Containers come down.
LEMMA SinksBuild ==
  ASSUME TypeInv, BuildOK, Sinks
  PROVE  BuildOK'
<1>1. UNCHANGED <<kind, conf, file, data, cmd>>
  BY DEF Sinks
<1>2. ASSUME NEW p \in Procs, cmd[p] # None PROVE Settled(cmd[p])'
  <2>0. PICK c, n, k : c = cmd[p] /\ n = c.name /\ k = kind[n]
    OBVIOUS
  <2>1. n \in Names
    BY <1>2, <2>0 DEF TypeInv, Command
  <2>2. ASSUME NEW m \in Wanted(k), Bears(m, c) PROVE Bears(m, c)'
    <3>1. ASSUME NEW r \in Parts, Exists(n, r)
          PROVE  /\ Exists(n, r)'
                 /\ box'[n][r].set = box[n][r].set
                 /\ box'[n][r].sec = box[n][r].sec
                 /\ box'[n][r].loaded = box[n][r].loaded
      BY <2>1, <3>1 DEF Sinks, Exists
    <3>2. 1 \in Parts /\ 2 \in Parts
      BY DEF Parts
    <3>3. m \in Boxed \cup {"saved", "file", "key", "login"}
      BY WantedMarks
    <3>4. CASE m \in {"set1", "sec1", "read1"}
      BY <1>1, <2>0, <2>2, <3>1, <3>2, <3>4 DEF Bears
    <3>5. CASE m \in {"set2", "sec2", "read2"}
      BY <1>1, <2>0, <2>2, <3>1, <3>2, <3>5 DEF Bears
    <3>6. CASE m \in {"saved", "file", "key", "login"}
      BY <1>1, <2>2, <3>6 DEF Bears
    <3>. QED
      BY <3>3, <3>4, <3>5, <3>6 DEF Boxed
  <2>3. \A m \in Wanted(k) : Bears(m, c) \in BOOLEAN /\ Bears(m, c)' \in BOOLEAN
    BY DEF Bears
  <2>4. Settled(c)
    BY <1>2, <2>0 DEF BuildOK
  <2>5. ASSUME c.op = "install", NEW m \in Wanted(k)
        PROVE  /\ c.built => Left(c.todo, Bears(m, c)', Gives(k, m), Loses(m))
               /\ Ready(k, m) =>
                    After(c.todo, Bears(m, c)', {"choose"}, Gives(k, m), Loses(m))
    <3>1. /\ c.built => Left(c.todo, Bears(m, c), Gives(k, m), Loses(m))
          /\ Ready(k, m) => After(c.todo, Bears(m, c), {"choose"}, Gives(k, m), Loses(m))
      BY <2>0, <2>4, <2>5 DEF Settled
    <3>. QED
      BY <2>2, <2>3, <3>1, LeftWeaker, AfterWeaker
  <2>6. Settled(c)'
    BY <1>1, <2>0, <2>5 DEF Settled, Left, After, Ready
  <2>. QED
    BY <1>1, <2>0, <2>6
<1>. QED
  BY <1>1, <1>2 DEF BuildOK

BuildInv == TypeInv /\ AdoptOK /\ BuildOK

\* BuildInv is inductive while one command runs at a time.
LEMMA BuildNext ==
  ASSUME BuildInv, Single, [Next]_vars
  PROVE  BuildInv'
<1>1. TypeInv /\ TypeInv' /\ AdoptOK /\ BuildOK
  BY TypeNext DEF BuildInv
<1>2. AdoptOK'
  BY <1>1, NextMoves, TakesAdopt, GoneAdopt, TurnsAdopt, BeginsAdopt, SinksAdopt
<1>3. Gone => BuildOK'
  BY DEF Gone, BuildOK
<1>4. BuildOK'
  BY <1>1, <1>3, NextMoves, TakesBuild, TurnsBuild, BeginsBuild, SinksBuild
<1>. QED
  BY <1>1, <1>2, <1>4 DEF BuildInv

\* The marks of a finished build, read together.
LEMMA MarksApply ==
  ASSUME TypeInv, NEW p \in Procs, cmd[p] # None, NEW n, n = N(p), NEW k, k = K(p),
         \A m \in Wanted(k) : Bears(m, cmd[p])
  PROVE  /\ conf[n] = Kept(k, Work(p))
         /\ Carries(n, k, conf[n])
         /\ Settles(k) => NoAuth(k, conf[n]) \/ data[n].sec = conf[n].sec
<1>0. PICK c, e : c = cmd[p] /\ e = c.work
  OBVIOUS
<1>1. c \in Command /\ c.name = n /\ k = kind[n] /\ k \in Kinds /\ Work(p) = e
  BY <1>0 DEF TypeInv, Stores, Command, N, K, Work
<1>2. "saved" \in Wanted(k) /\ "set1" \in Wanted(k)
  BY DEF Wanted
<1>3. e \in Entry /\ conf[n] = Kept(k, e)
  BY <1>0, <1>1, <1>2 DEF Bears, Command
<1>4. /\ conf[n].set = e.set
      /\ k.traits.binds # "file" => conf[n] = e
  BY <1>3 DEF Kept, Entry
<1>5. /\ k.traits.binds \in {"file", "read"} => file[n].sec = e.sec
      /\ k.traits.binds \in {"file", "read"} => k.traits.files
      /\ k.traits.files => file[n].set = e.set
      /\ k.traits.binds = "file" => data[n].sec = e.sec
      /\ Settles(k) => NoAuth(k, e) \/ data[n].sec = e.sec
  <2>1. k.traits.binds \in {"file", "read"} => k.traits.files
    BY <1>1, OrderAssumption DEF Orderly, BuildOrder
  <2>2. /\ k.traits.binds \in {"file", "read"} => "key" \in Wanted(k)
        /\ k.traits.files => "file" \in Wanted(k)
        /\ k.traits.binds = "file" \/ Settles(k) => "login" \in Wanted(k)
    BY DEF Wanted
  <2>3. Bears("key", c) => file[n].sec = e.sec
    BY <1>0, <1>1 DEF Bears
  <2>4. Bears("file", c) => file[n].set = e.set
    BY <1>0, <1>1 DEF Bears
  <2>5. Bears("login", c) => NoAuth(k, e) \/ data[n].sec = e.sec
    BY <1>0, <1>1 DEF Bears
  <2>6. NoAuth(k, e) => k.traits.binds # "file"
    <3>1. Does(k, "passwd") => Logins(k)
      BY DEF Does, In, Logins, StepsOf, InstallPrograms, BranchPrograms, Branches
    <3>. QED
      BY <1>1, <3>1, OrderAssumption DEF NoAuth, Orderly, LoginOrder
  <2>. QED
    BY <1>0, <2>1, <2>2, <2>3, <2>4, <2>5, <2>6
<1>6. ASSUME NEW r \in PartsOf(k), Runs(conf[n], r)
      PROVE  /\ Exists(n, r)
             /\ box[n][r].set = e.set
             /\ k.traits.binds = "box" => box[n][r].sec = e.sec
             /\ k.traits.files => box[n][r].loaded = file[n]
  <2>1. r \in {1, 2} /\ Runs(e, r)
    BY <1>4, <1>6 DEF PartsOf, Parts, Runs
  <2>2. CASE r = 1
    <3>1. /\ k.traits.binds = "box" => "sec1" \in Wanted(k)
          /\ k.traits.files => "read1" \in Wanted(k)
      BY DEF Wanted
    <3>2. Bears("set1", c) => Exists(n, 1) /\ box[n][1].set = e.set
      BY <1>0, <1>1 DEF Bears
    <3>3. Bears("sec1", c) => box[n][1].sec = e.sec
      BY <1>0, <1>1 DEF Bears
    <3>4. Bears("read1", c) => box[n][1].loaded = file[n]
      BY <1>0, <1>1 DEF Bears
    <3>. QED
      BY <1>0, <1>2, <2>2, <3>1, <3>2, <3>3, <3>4
  <2>3. CASE r = 2
    <3>1. /\ "set2" \in Wanted(k)
          /\ k.traits.binds = "box" => "sec2" \in Wanted(k)
          /\ k.traits.files => "read2" \in Wanted(k)
      BY <1>6, <2>3 DEF Wanted
    <3>2. Bears("set2", c) => Exists(n, 2) /\ box[n][2].set = e.set
      BY <1>0, <1>1, <2>1, <2>3 DEF Bears
    <3>3. Bears("sec2", c) => box[n][2].sec = e.sec
      BY <1>0, <1>1, <2>1, <2>3 DEF Bears
    <3>4. Bears("read2", c) => box[n][2].loaded = file[n]
      BY <1>0, <1>1, <2>1, <2>3 DEF Bears
    <3>. QED
      BY <1>0, <2>3, <3>1, <3>2, <3>3, <3>4
  <2>. QED
    BY <2>1, <2>2, <2>3
<1>7. Carries(n, k, conf[n])
  BY <1>4, <1>5, <1>6 DEF Carries
<1>8. Settles(k) => NoAuth(k, conf[n]) \/ data[n].sec = conf[n].sec
  BY <1>4, <1>5 DEF Settles
<1>. QED
  BY <1>1, <1>3, <1>7, <1>8

\* When one command runs at a time, an install that built its add-on and returns
\* nil leaves containers that run what pg.yaml says: the settings, the file
\* rendered from them, and a secret that opens the service, unless it is an etcd
\* without authentication; in whatever order the handlers of the kind save, render,
\* create and set it, and over whatever a command before that failed or was cut off
\* has left.
THEOREM BuildsApply == Single /\ Spec => []BuildApplies
<1>. SUFFICES ASSUME Single PROVE Spec => []BuildApplies
  OBVIOUS
<1>1. Init => BuildInv
  <2>1. SUFFICES ASSUME Init PROVE BuildInv
    OBVIOUS
  <2>2. TypeInv
    BY <2>1, TypeInit
  <2>3. (\A n \in Names : data[n] = None /\ conf[n] = None) /\ \A p \in Procs : cmd[p] = None
    BY <2>1 DEF Init
  <2>. QED
    BY <2>2, <2>3 DEF BuildInv, AdoptOK, Supplied, Filled, BuildOK
<1>2. BuildInv /\ [Next]_vars => BuildInv'
  BY BuildNext
<1>3. BuildInv => BuildApplies
  <2>1. SUFFICES ASSUME BuildInv, NEW p \in Procs, Done(p, "install"), cmd[p].built
                 PROVE  LET n == N(p)
                            k == K(p)
                        IN /\ conf[n] = Kept(k, Work(p))
                           /\ Carries(n, k, conf[n])
                           /\ Settles(k) => NoAuth(k, conf[n]) \/ data[n].sec = conf[n].sec
    BY DEF BuildApplies
  <2>0. PICK c, n, k : c = cmd[p] /\ n = N(p) /\ k = K(p)
    OBVIOUS
  <2>2. /\ c # None /\ c.op = "install" /\ c.todo = <<>> /\ c.built
        /\ k = kind[c.name] /\ TypeInv /\ Settled(c)
    BY <2>0, <2>1 DEF Done, BuildInv, BuildOK, K, N
  <2>3. ASSUME NEW m \in Wanted(k) PROVE Bears(m, c)
    <3>1. Left(<<>>, Bears(m, c), Gives(k, m), Loses(m))
      BY <2>2 DEF Settled
    <3>. QED
      BY <3>1, LeftEnd DEF Bears
  <2>. QED
    BY <2>0, <2>2, <2>3, MarksApply
<1>. QED
  BY <1>1, <1>2, <1>3, PTL DEF Spec

=============================================================================
