CONSTANTS
    a1 = a1
    a2 = a2
    r1 = r1
    r2 = r2
    p1 = p1
    p2 = p2
    Artifacts = {a1, a2}
    Repos = {r1, r2}
    Procs = {p1, p2}
    NoProc = NoProc
    NoKey = NoKey
    MaxToken = 3
SPECIFICATION OSSpec
INVARIANTS OSTypeOK LeaseMatchesOperation OneOperationPerRepo 
PROPERTY AppliedIsFinal
CHECK_DEADLOCK FALSE
