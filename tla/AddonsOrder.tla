---------------------------- MODULE AddonsOrder ----------------------------
(***************************************************************************)
(* The order of the steps in the programs of a kind of add-on, as far as   *)
(* the theorems about Addons depend on it.  Every kind has handlers of its *)
(* own, and what holds of all of them rests on what they have in common:   *)
(* what a step uses was read or merged before; a remove deletes only what  *)
(* has no container any more; an install that makes a container, or binds  *)
(* a secret, has saved the entry or is bound to; and what an install that  *)
(* builds has got done, no later step of it undoes.                        *)
(***************************************************************************)
EXTENDS Addons

Ops == {"load", "entry", "check", "image", "ready", "softready", "merge", "generate",
        "rotate", "auth", "recall", "adopt", "fit", "choose", "save", "drop", "files",
        "refile", "keepfile", "secretfile", "copyfile", "vet", "signal", "nudge", "needup", "ifup",
        "ifdown", "needfile", "setsecret", "admin", "bootstrap", "passwd", "mint", "wipe",
        "hardwipe", "wipedirs", "wipeall", "dropfile", "wipefile", "halt", "halt2",
        "softhalt", "softhalt2", "rm", "rm2", "ownrm2", "strayrm2", "create", "create2",
        "startup", "startup2", "look", "discard", "discard2", "recreate", "recreate2"}

\* What a branch of an install may ask.
Facts == {"plain", "asked", "unasked", "recorded", "same", "exists", "running",
          "inSync", "allUp", "allDown"}

\* Steps that need an entry in memory.
Uses == {"generate", "rotate", "auth", "recall", "adopt", "fit", "files", "refile", "keepfile",
         "secretfile", "copyfile", "setsecret", "admin", "bootstrap", "passwd", "mint",
         "create", "create2", "recreate", "recreate2", "ownrm2", "strayrm2"}

\* Steps that make the first, the second container of an add-on.
Makes1 == {"create", "recreate"}
Makes2 == {"create2", "recreate2"}

\* Steps that delete the entry or data.
Erases == {"drop", "wipe", "hardwipe", "wipedirs", "wipeall"}

\* Steps that bind a secret in the data, and steps that change the one in memory.
Binds == {"setsecret", "admin", "bootstrap", "mint"}
Rekeys == {"merge", "rotate", "auth", "recall", "adopt", "mint"}

\* Steps that may end a command although nothing fails.
Quits == {"load", "entry", "generate", "rotate", "adopt", "fit", "vet", "signal", "nudge",
          "needup", "ifup", "ifdown", "needfile", "bootstrap", "choose"}

\* Steps that write the rendered file, that leave one for sure, that delete it.
Renders == {"files", "refile", "keepfile", "secretfile", "copyfile"}
Fills == {"files", "copyfile"}
Drops == {"dropfile", "wipefile"}

\* Steps that try to start the container that is there.
Tries == {"startup", "startup2", "look", "recreate", "recreate2"}

-----------------------------------------------------------------------------
\* The programs of a kind.

UsePrograms(k) == {k.use.start, k.use.stop, k.use.remove, k.use.reload, k.use.set}
KeepPrograms(k) == {k.use.start, k.use.stop, k.use.remove, k.use.set}
Branches(k) == k.install.branches
BranchPrograms(k) == {Branches(k)[i].steps : i \in DOMAIN Branches(k)}
InstallPrograms(k) == {k.install.prepare} \cup BranchPrograms(k)
StepsOf(k) ==
  UNION {{s[i] : i \in DOMAIN s} : s \in UsePrograms(k) \cup InstallPrograms(k)}

\* The kind may have a second container; it logs in with the password of the entry.
Second(k) == Makes2 \cap StepsOf(k) # {}
Logins(k) == "passwd" \in StepsOf(k)

\* Every step of need comes after one of give, with none of lose between them;
\* or there is what give brings from the start, and none of lose before the step.
After(prog, there, need, give, lose) ==
  \A i \in DOMAIN prog : prog[i] \in need =>
    \/ there /\ \A j \in 1..(i - 1) : prog[j] \notin lose
    \/ \E g \in 1..(i - 1) :
         prog[g] \in give /\ \A j \in (g + 1)..(i - 1) : prog[j] \notin lose

\* Past the step i the program only leaves by a fault before it has saved.
Commits(prog, i) ==
  \E e \in DOMAIN prog :
    /\ e > i
    /\ prog[e] = "save"
    /\ \A j \in (i + 1)..(e - 1) : prog[j] \notin Quits \cup Rekeys

\* After the step i the program comes to one of ends, if nothing fails, and
\* writes no file before.
Due(prog, i, ends) ==
  \E e \in DOMAIN prog :
    /\ e > i
    /\ prog[e] \in ends
    /\ \A j \in (i + 1)..(e - 1) : prog[j] \notin Quits \cup Renders \cup {"passwd"}

\* A container, and a password set, has an entry, or gets one.
Recording(k, prog, there) ==
  \A i \in DOMAIN prog : prog[i] \in Makes1 \cup Makes2 \cup {"passwd"} =>
    \/ there
    \/ \E j \in 1..(i - 1) : prog[j] = "save"
    \/ ~SavesFirst(k) /\ Commits(prog, i)

-----------------------------------------------------------------------------
\* What the programs of the kind k have in common with all others.

Programmed(k) ==
  /\ UsePrograms(k) \cup {k.install.prepare} \subseteq Seq(Ops)
  /\ Branches(k) \in Seq([facts : SUBSET Facts, steps : Seq(Ops)])
  /\ Branches(k) # <<>>
  /\ Branches(k)[Len(Branches(k))].facts = {}

\* Some kinds merge in the branch, whose choice then does not need the entry.
Merges(k) == In("merge", k.install.prepare)
InstallNeeds(k) == Uses \cup {"save"} \cup IF Merges(k) THEN {"choose"} ELSE {}
UseNeeds == Uses \cup {"merge"}

\* An install merges before it uses the entry, and erases nothing.
InstallOrder(k) ==
  /\ After(k.install.prepare, FALSE, InstallNeeds(k), {"merge"}, {"load", "drop"})
  /\ \A s \in BranchPrograms(k) :
       After(s, Merges(k), InstallNeeds(k), {"merge"}, {"load", "drop"})
  /\ \A s \in InstallPrograms(k) : \A op \in Erases : ~In(op, s)

\* What removes the second container of a kind for sure.
Clears2(k) == IF k \in Rerole THEN {"rm2"} ELSE {"rm2", "ownrm2"}

\* The other commands find the entry before they use it, load before they save,
\* and remove the containers before they erase.
UseOrder(k) ==
  \A s \in UsePrograms(k) :
    /\ After(s, FALSE, UseNeeds, {"entry"}, {"load", "drop"})
    /\ After(s, FALSE, {"save"}, {"load"}, {})
    /\ After(s, FALSE, Erases, {"rm"}, Makes1)
    /\ Second(k) => After(s, FALSE, Erases, Clears2(k), Makes2)
    /\ ~In("choose", s)

\* The facts that only an add-on with an entry or a container has.
Present == {"recorded", "exists", "running", "inSync", "allUp"}

\* An install saves the entry of every container, before or after.
RecordOrder(k) ==
  /\ Recording(k, k.install.prepare, FALSE)
  /\ \A i \in DOMAIN Branches(k) :
       Recording(k, Branches(k)[i].steps, Branches(k)[i].facts \cap Present # {})

\* Where a password of the entry opens the data, only setting it binds the
\* data, and the data goes before the entry.
LoginOrder(k) ==
  Logins(k) =>
    /\ k.traits.binds = "late"
    /\ Binds \cap StepsOf(k) = {}
    /\ \A s \in UsePrograms(k) :
         ~In("passwd", s) /\ After(s, FALSE, {"drop"}, {"wipeall"}, {})

\* What stops a running container, or checks its file; an install may come to
\* that by its choice.
Judges == {"vet", "halt", "rm"}
Ends(k) ==
  Judges \cup IF \A s \in BranchPrograms(k) : Due(s, 0, Judges) THEN {"choose"} ELSE {}

\* A kind with a check: it renders the file before it makes a container, and
\* deletes it only without one; no command but install and reload writes it,
\* and these come from there to the check, or stop the container.
VetOrder(k) ==
  Vets(k) =>
    /\ \A s \in UsePrograms(k) \cup {k.install.prepare} :
         After(s, FALSE, {"create", "choose"}, Fills, Drops)
    /\ \A s \in BranchPrograms(k) : After(s, TRUE, {"create", "choose"}, Fills, Drops)
    /\ \A s \in UsePrograms(k) \cup InstallPrograms(k) :
         /\ After(s, FALSE, {"recreate"}, {"needfile"}, Tries \cup Drops)
         /\ After(s, FALSE, Drops, {"rm"}, Makes1)
    /\ \A s \in InstallPrograms(k) \cup {k.use.reload} :
         \A i \in DOMAIN s : s[i] \in Renders => Due(s, i, Ends(k))
    /\ \A s \in KeepPrograms(k) : \A op \in Renders \cup {"vet"} : ~In(op, s)

\* A kind whose secret is in its data, and the steps that bind one there.
Keyed(k) == k.traits.binds \in {"data", "late"}
Keys(k) ==
  Binds \cup {"passwd"} \cup IF k.traits.binds = "data" THEN Makes1 \cup Makes2 ELSE {}

\* Steps after which the entry in memory may have other settings, another secret.
Resets == {"merge", "load", "drop"}
Changers == Resets \cup Rekeys \cup {"generate"}

\* Programs that bind only what pg.yaml has: the others are the installs of a
\* kind that saves last, where the secret they bind is bound to be saved.
Told(k) == UsePrograms(k) \cup IF SavesFirst(k) THEN InstallPrograms(k) ELSE {}
KeyOrder(k) ==
  Keyed(k) =>
    /\ \A s \in Told(k) :
         After(s, FALSE, Keys(k), {"load", "save"}, Changers \ {"load"}) /\ ~In("mint", s)
    /\ ~SavesFirst(k) =>
         \A s \in InstallPrograms(k) :
           \A i \in DOMAIN s : s[i] \in Keys(k) => Commits(s, i)

\* A kind that takes its secret from the data has it from the first start on,
\* and never saves or binds an empty one.
Adopts(k) == Does(k, "adopt") /\ k.traits.binds = "data"
Proves == {"adopt", "fit"}
Proven == {"load", "drop", "merge", "rotate", "mint"}
AdoptOrder(k) ==
  Adopts(k) =>
    /\ k.traits.data
    /\ (Binds \cup {"passwd", "auth"}) \cap StepsOf(k) = {}
    /\ \A s \in UsePrograms(k) \cup InstallPrograms(k) :
         After(s, TRUE, {"save", "choose"} \cup Makes1 \cup Makes2,
               {"generate", "rotate", "load", "drop"}, {"merge"})
    /\ \A s \in InstallPrograms(k) : After(s, FALSE, {"create"}, Proves, Proven)

-----------------------------------------------------------------------------
\* What holds at the end of an install that builds.

\* After the program there is what give brings, or was there from the start.
Left(prog, there, give, lose) ==
  \/ there /\ \A j \in DOMAIN prog : prog[j] \notin lose
  \/ \E g \in DOMAIN prog :
       prog[g] \in give /\ \A j \in DOMAIN prog : j > g => prog[j] \notin lose

\* The marks of a finished build: pg.yaml has the entry; each container has its
\* settings, its secret, and has read the file; the file has the settings and
\* the secret; the secret opens the data, or no password is asked for.
Wanted(k) ==
  {"saved", "set1"}
    \cup (IF 2 \in PartsOf(k) THEN {"set2"} ELSE {})
    \cup (IF k.traits.binds = "box" THEN {"sec1"} ELSE {})
    \cup (IF k.traits.binds = "box" /\ 2 \in PartsOf(k) THEN {"sec2"} ELSE {})
    \cup (IF k.traits.files THEN {"read1", "file"} ELSE {})
    \cup (IF k.traits.files /\ 2 \in PartsOf(k) THEN {"read2"} ELSE {})
    \cup (IF k.traits.binds \in {"file", "read"} THEN {"key"} ELSE {})
    \cup (IF k.traits.binds = "file" \/ Settles(k) THEN {"login"} ELSE {})

Clears(r) == IF r = 1 THEN {"rm", "discard", "recreate"}
             ELSE {"rm2", "ownrm2", "strayrm2", "discard2", "recreate2"}
Marks2 == {"set2", "sec2", "read2"}

\* The steps after which the secret in memory opens the data.
Opens(k) == {"setsecret", "bootstrap"} \cup IF Does(k, "passwd") THEN {"passwd"} ELSE {}

\* The steps that bring the mark m about, and those that may end it.
Gives(k, m) ==
  CASE m = "saved"                     -> {"save"}
    [] m \in {"set1", "sec1", "read1"} -> {"create"}
    [] m \in Marks2                    -> {"create2"}
    [] m \in {"file", "key"}           -> {"files"}
    [] m = "login" -> IF Adopts(k) THEN {"create"} ELSE Opens(k)

Loses(m) ==
  CASE m = "saved"             -> Changers
    [] m = "set1"              -> Resets \cup Clears(1)
    [] m = "set2"              -> Resets \cup Clears(2)
    [] m = "sec1"              -> Changers \cup Clears(1)
    [] m = "sec2"              -> Changers \cup Clears(2)
    [] m = "read1"             -> Resets \cup Clears(1) \cup Renders \cup Drops
    [] m = "read2"             -> Resets \cup Clears(2) \cup Renders \cup Drops
    [] m = "file"              -> Resets \cup Drops \cup {"secretfile", "copyfile"}
    [] m = "key"               -> Changers \cup Drops
    [] m = "login"             -> Changers \cup Erases

\* An install comes to its choice with the mark m.
Ready(k, m) == After(k.install.prepare, FALSE, {"choose"}, Gives(k, m), Loses(m))

\* The last branch of an install ends with every mark, and chooses no other.
Build(k) == Branches(k)[Len(Branches(k))].steps
BuildOrder(k) ==
  /\ \A m \in Wanted(k) : Left(Build(k), Ready(k, m), Gives(k, m), Loses(m))
  /\ \A s \in BranchPrograms(k) : ~In("choose", s)
  /\ k.traits.binds \in {"file", "read"} => k.traits.files

Orderly(k) ==
  /\ Programmed(k)
  /\ InstallOrder(k)
  /\ UseOrder(k)
  /\ RecordOrder(k)
  /\ LoginOrder(k)
  /\ VetOrder(k)
  /\ KeyOrder(k)
  /\ AdoptOrder(k)
  /\ BuildOrder(k)

ASSUME OrderAssumption == \A k \in Kinds : Orderly(k)

-----------------------------------------------------------------------------
\* A running command.
Command ==
  [op : {"install", "start", "stop", "remove", "reload", "set", "serve"},
   name : Names, todo : Seq(Ops), force : BOOLEAN, clean : BOOLEAN, asked : BOOLEAN,
   want : Settings \cup {None}, pw : Secrets \cup {None},
   seen : [Names -> Entry \cup {None}], work : Entry \cup {None},
   old : File \cup {None}, ok : BOOLEAN, built : BOOLEAN]

\* None is no record.
ASSUME NoneAssumption ==
  None \notin Entry \cup File \cup Box \cup [sec : Secrets \cup {None}] \cup Command
=============================================================================
