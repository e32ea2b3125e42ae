SPECIFICATION Spec
CONSTANTS
    Limits <- MCLimits
    Patches <- MCPatches
    Contracts <- MCContracts
    NoContract = NoContract
    Commands <- MCCommands
INVARIANTS
    LevelNeverDrops
    
    AppliedIsHarmless
    PendingCanBeApplied
    EnforcedIntentHolds
CHECK_DEADLOCK FALSE
