CONSTANTS
    a1 = a1
    a2 = a2
    u1 = u1
    u2 = u2
    d1 = d1
    d2 = d2
    q1 = q1
    p1 = p1
    p2 = p2
    p3 = p3
    agent = agent
    ann = ann
    bob = bob
    Artifacts = {a1}
    LockNames = {a1}
    Procs = {p1, p2, p3}
    NoProc = NoProc
    Actors = {u1, u2, d1, d2, q1}
    NoActor = NoActor
    ProcOf <- MCProcOf
    People = {agent, ann, bob, recovery}
    RecoveryUser = recovery
    recovery = recovery
    RequestedBy <- MCRequestedBy
    ReviewerGrant <- MCGrant
    RolesConfigured = FALSE
    MaxReceipts = 1
    Reconcilers = {q1}
    Runs = {u1}
    ArtifactOf <- MCArtifactOf
    Deciders = {d1, d2}
    PersonOf <- MCPersonOf
    Mortal = {p1}
    SubmitFails = {"before", "after"}
SPECIFICATION FairLifecycleSpec
INVARIANTS ConsumedWasGranted AuditTellsDecision
PROPERTIES OrphanSettles ExpiredSettles
CHECK_DEADLOCK FALSE
