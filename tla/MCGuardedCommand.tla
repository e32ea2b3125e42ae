-------------------------- MODULE MCGuardedCommand ---------------------------
(* TLC instance of GuardedCommand: every host, and output around the limit. *)
EXTENDS GuardedCommand

MCHosts == Host
=============================================================================
