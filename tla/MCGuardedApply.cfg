CONSTANTS
    u1 = u1
    u2 = u2
    q1 = q1
    p1 = p1
    p2 = p2
    p3 = p3
    r1 = r1
    Procs = {p1, p2, p3}
    NoProc = NoProc
    Actors = {u1, u2, q1}
    NoActor = NoActor
    ProcOf <- MCProcOf
    Repos = {r1}
    LockNames = {r1}
    Runs = {u1}
    Reconcilers = {q1}
    RepoOf <- MCRepoOf
    Preserving = {}
    Mortal = {p1, p3}
    StartsOverlap = TRUE
    Inputs <- Facts
    AuditFails = {"body", "apply", "cleanup"}
    GitFaults = {"mark", "add", "remove", "midway", "move", "litter"}
    MaxEdits = 2
SPECIFICATION GuardedSpec
INVARIANTS LandedWasAllowed 
CHECK_DEADLOCK FALSE
