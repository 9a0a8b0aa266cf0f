------------------------------- MODULE MCBoot -------------------------------
(* Model checking of Boot with an instance, a broker and the backup container. *)
EXTENDS Boot

CONSTANTS a, k, bk, u

MCInstances == {a}
MCBrokers == {k}
MCUsers == {u}
NoBouncers == {}
AllUp == {"running"}

=============================================================================
