------------------------ MODULE MCApprovalLifecycle --------------------------
(* TLC instances of ApprovalLifecycle: guarded runs in processes of their    *)
(* own, the reviewers' calls in the API server, recovery in a third kind.    *)
EXTENDS ApprovalLifecycle, TLC

CONSTANTS a1, a2, u1, u2, d1, d2, q1, p1, p2, p3, agent, ann, bob, recovery

MCProcOf == u1 :> p1 @@ u2 :> p1 @@ d1 :> p2 @@ d2 :> p2 @@ q1 :> p3

MCArtifactOf == [u \in Runs |-> IF u = u1 THEN a1 ELSE a2]

MCRequestedBy == [a \in Artifacts |-> agent]

\* One process makes calls for a reviewer, the other for the requester.
MCPersonOf == [d \in Deciders |-> IF d = d1 THEN ann ELSE agent]

MCGrant == [p \in People |-> IF p = ann THEN "granted"
                             ELSE IF p = bob THEN "denied" ELSE "unlisted"]
=============================================================================
