CONSTANTS
    a1 = a1
    a2 = a2
    r1 = r1
    r2 = r2
    p1 = p1
    p2 = p2
    p3 = p3
    w1 = w1
    w2 = w2
    q1 = q1
    Artifacts = {a1, a2}
    LockNames = {a1, a2}
    Repos = {r1}
    Procs = {p1, p2, p3}
    NoProc = NoProc
    NoKey = NoKey
    MaxToken = 2
    Actors = {w1, w2, q1}
    NoActor = NoActor
    ProcOf <- MCProcOf
    Workers = {w1, w2}
    TrustedRepo <- MCTrustedRepo
    Mortal = {p1, p2, p3}
    GitSurvives = TRUE
    Perishable = {a1}
    MaxEdits = 1
    Reconcilers = {q1}
    ExitsWhileListed = TRUE
SPECIFICATION RecoverySpec
INVARIANTS LockHeldInside EvidenceIsTrue SuccessHasEvidence
PROPERTY ImplementsApplyOnce
CHECK_DEADLOCK FALSE
