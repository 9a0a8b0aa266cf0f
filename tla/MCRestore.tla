----------------------------- MODULE MCRestore -----------------------------
(* Model checking of Restore. *)
EXTENDS Restore

\* --time written in UTC or a whole hour away from it, and half an hour away.
WholeOffsets == {0, Hour}
HalfOffsets == {0, Hour \div 2}

=============================================================================
