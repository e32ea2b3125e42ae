CONSTANTS
    p1 = p1
    p2 = p2
    Procs = {p1, p2}
    NoProc = none
    Target = 1
    Retention = 1
    MaxTries = 2
    MaxDamage = 1
    TempLeft = TRUE
    MaxEvents = 3
    MaxTears = 1
    Rows <- MCRows
    Kinds <- MCKinds
    Queries <- MCQueries
    OldDatabases <- MCOldDatabases
SPECIFICATION AuditSpec
INVARIANTS
    RestoreLosesNothing
    StoreKeepsChain
    
    VerifiedPageIsChained
PROPERTIES
    ForeignSchemaUntouched
    AuditCallsEnd
CHECK_DEADLOCK FALSE
