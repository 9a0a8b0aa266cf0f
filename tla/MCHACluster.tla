---------------------------- MODULE MCHACluster ----------------------------
(***************************************************************************)
(* HACluster on two hosts: one with two members, one with one.             *)
(***************************************************************************)
EXTENDS HACluster

CONSTANTS a, b, c, h1, h2

TrioOrder == <<a, b, c>>
TwoHosts == {h1, h2}
TrioHome == [m \in {a, b, c} |-> IF m = c THEN h2 ELSE h1]
=============================================================================
