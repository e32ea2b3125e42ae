---------------------------- MODULE MCGuardedRun -----------------------------
(* TLC instances of GuardedRun: two runs on one repository, in processes of  *)
(* their own, and recovery passes made by a third.                           *)
EXTENDS GuardedRun, TLC

CONSTANTS u1, u2, q1, p1, p2, p3, r1

MCProcOf == u1 :> p1 @@ u2 :> p2 @@ q1 :> p3

Harmless == [cmd |-> "ok", patch |-> TRUE, risk |-> "safe", intent |-> "clear"]

\* A patch that is applied and a command that fails.
FewInputs == {Harmless, [Harmless EXCEPT !.cmd = "failed"]}

MCRepoOf == [u \in Runs |-> r1]
=============================================================================
