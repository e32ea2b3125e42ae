CONSTANTS
    u1 = u1
    u2 = u2
    q1 = q1
    p1 = p1
    p2 = p2
    p3 = p3
    r1 = r1
    Procs = {p1, p2, p3}
    NoProc = NoProc
    Actors = {u1, u2, q1}
    NoActor = NoActor
    ProcOf <- MCProcOf
    Repos = {r1}
    LockNames = {r1}
    Runs = {u1, u2}
    Reconcilers = {q1}
    RepoOf <- MCRepoOf
    Preserving = {u2}
    Mortal = {p1, p2}
    StartsOverlap = FALSE
    Inputs <- FewInputs
    AuditFails = {"final"}
    GitFaults = {"add", "remove", "midway"}
    MaxEdits = 0
SPECIFICATION FairGuardedSpec
  
PROPERTIES AbandonedSessionSettles
CHECK_DEADLOCK FALSE
