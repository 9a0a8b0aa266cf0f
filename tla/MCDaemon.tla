------------------------------ MODULE MCDaemon ------------------------------
(* Model checking of Daemon on small process tables. *)
EXTENDS Daemon

CONSTANTS p1, p2, p3, c1

MCPids == {p1, p2, p3}
OneCmd == {c1}
AllOps == {"start", "stop", "restart", "remove"}
\* Those that ask Alive before they call Stop.  A restart of a daemon that does
\* not run does what start does, and start leaves one that runs alone.
CheckedOps == {"stop", "restart"}
NoInterrupts == {}
Anywhere == Points \ {"idle"}

PidSymmetry == Permutations(Pids)

=============================================================================
