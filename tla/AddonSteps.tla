----------------------------- MODULE AddonSteps -----------------------------
(***************************************************************************)
(* How the programs of a kind of add-on are put together.  A kind has      *)
(*   traits   binds: what holds the secret: the container's arguments      *)
(*            ("box"), the data from its first start on ("data"), the data *)
(*            after a command of pg ("late"), the rendered file, with      *)
(*            pg.yaml ("read") or without it ("file"), nothing ("none");   *)
(*            data, files: there is a data directory or role, and a        *)
(*            rendered file; asks: install has a flag that picks a branch; *)
(*   install  the steps up to the choice, and the branches to choose from; *)
(*   use      the other handlers.                                          *)
(* Module Addons says what each step does.                                 *)
(*                                                                         *)
(* The kinds are spelled out in modules of their own, with one name for    *)
(* each part of a handler that does something to the model's state: for a  *)
(* kind X, XDefaults is how flags, the stored entry and the defaults make  *)
(* the new entry; XCheckConfig what config.Validate asks of it; XRender or *)
(* XWriteConfigs the file; XArgs the arguments of podman run; XReady the   *)
(* wait for the service; and X itself the kind.                            *)
(***************************************************************************)
EXTENDS Sequences

Traits(binds, data, files) ==
  [binds |-> binds, data |-> data, files |-> files, asks |-> FALSE]

\* A branch of an install is taken when its facts hold; the last one always.
When(facts, steps) == [facts |-> facts, steps |-> steps]
Otherwise(steps) == [facts |-> {}, steps |-> steps]

\* The steps of createContainer as StartContainer takes them: only when the
\* container could not be started as it was.
Anew(steps) ==
  [i \in DOMAIN steps |-> CASE steps[i] = "create" -> "recreate"
                            [] steps[i] = "files"  -> "refile"
                            [] OTHER               -> steps[i]]

\* The branches of most installs: a running container is kept, a stopped one
\* started, and only --force or a missing container means building.
Reuse(start, build, save) ==
  <<When({"plain", "running"}, save),
    When({"plain", "exists"}, start \o save),
    Otherwise(build \o save)>>

\* start, stop and remove look up the entry first.
Lookup == <<"load", "entry">>
Forget == <<"drop", "save">>

Handlers(start, stop, remove, reload) ==
  [start |-> start, stop |-> stop, remove |-> remove, reload |-> reload, set |-> <<>>]

\* Some kinds change single settings of an installed add-on.
WithSet(handlers, set) == [handlers EXCEPT !.set = set]

Kind(traits, install, handlers) ==
  [traits |-> traits, install |-> install, use |-> handlers]
=============================================================================
