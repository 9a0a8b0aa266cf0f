--------------------------- MODULE MCReplication ---------------------------
(* Model checking of Replication on two shapes: three instances on one host *)
(* (cascades, same-host and DSN replicas), and two instances on two hosts,  *)
(* whose commands interleave.                                               *)
EXTENDS Replication

CONSTANTS a, b, c, h1, h2

OneHost == {h1}
TrioInst == {a, b, c}
TrioHostOf == [i \in TrioInst |-> h1]
TrioSymmetry == Permutations(TrioInst)

TwoHosts == {h1, h2}
PairInst == {a, c}
PairHostOf == (a :> h1) @@ (c :> h2)

=============================================================================
