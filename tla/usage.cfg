SPECIFICATION Spec
CONSTANTS
    Requests = {reader, c1, c2}
    Roles <- MCRoles
    Endpoints = {e1, e2}
    PerPage = 2
    TopLimit = 1
    MaxTime = 3
    InitialLogs <- MCInitialLogs
    Nil = Nil
    reader = reader
    c1 = c1
    c2 = c2
    e1 = e1
    e2 = e2
SYMMETRY CallSymmetry
INVARIANTS TypeOK BreakdownCoversTotal UsedMeansCounted WalkMissesNothing WalkIsShort
