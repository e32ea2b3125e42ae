--------------------------- MODULE MCCrashRecovery ---------------------------
(* TLC instances of CrashRecovery: two command-line applies in processes of  *)
(* their own and recovery passes run from a third.                           *)
EXTENDS CrashRecovery, TLC

CONSTANTS w1, w2, q1, p1, p2, p3, r1

MCProcOf == w1 :> p1 @@ w2 :> p2 @@ q1 :> p3

MCTrustedRepo == [a \in Artifacts |-> r1]
=============================================================================
