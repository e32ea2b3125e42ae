CONSTANTS
    Hosts <- MCHosts
    Limit = 1
    Chunk = 2
    MaxUnits = 3
SPECIFICATION CommandSpec
INVARIANTS CommandResultIsTrue 
PROPERTIES SupervisionEnds
CHECK_DEADLOCK FALSE
