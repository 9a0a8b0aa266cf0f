----------------------------- MODULE AddonLife -----------------------------
(***************************************************************************)
(* What the add-on commands promise about one add-on, whatever its kind:   *)
(* pg.yaml forgets the add-on, and its data is erased, only when none of   *)
(* its containers exists any more.  Anything may be retried: a remove that *)
(* failed half way still finds its entry, and a container that survived it *)
(* still finds its data.                                                   *)
(***************************************************************************)
EXTENDS Naturals

CONSTANT Parts        \* the containers one add-on may own

VARIABLES recorded,   \* pg.yaml has an entry for the add-on
          boxes,      \* the parts whose container exists
          stored      \* its data directory, volume or database role exists

lifeVars == <<recorded, boxes, stored>>

Init == recorded = FALSE /\ boxes = {} /\ stored = FALSE

\* install saves the entry; the save may come before or after the container.
Record ==
  /\ recorded' = TRUE
  /\ UNCHANGED <<boxes, stored>>

\* A container is created; its data directory comes with it.
Build ==
  /\ \E p \in Parts \ boxes : boxes' = boxes \cup {p}
  /\ stored' \in {stored, TRUE}
  /\ UNCHANGED recorded

\* install lays out data (a role, a credential file) before the container.
Lay ==
  /\ stored' = TRUE
  /\ UNCHANGED <<recorded, boxes>>

\* podman rm -f of one container.
Discard ==
  /\ \E p \in boxes : boxes' = boxes \ {p}
  /\ UNCHANGED <<recorded, stored>>

\* remove deletes the data of an add-on without containers.
Erase ==
  /\ boxes = {}
  /\ stored' = FALSE
  /\ UNCHANGED <<recorded, boxes>>

\* remove deletes the entry of an add-on without containers.
Forget ==
  /\ boxes = {}
  /\ recorded' = FALSE
  /\ UNCHANGED <<boxes, stored>>

Next == Record \/ Build \/ Lay \/ Discard \/ Erase \/ Forget

Spec == Init /\ [][Next]_lifeVars
=============================================================================
