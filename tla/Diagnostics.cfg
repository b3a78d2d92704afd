SPECIFICATION Spec
CONSTANTS
    None = None
    Requests = {q1, q2}
    CommandIds = {1, 2, 3, 4, 5, 6, 7, 8}
    Sizes = {1, 3}
    Firmwares = {"2.0.0"}
    Counters = 2
    MaxAttempts = 2
    SeedTtl = 1
    LockDelay = 1
    ResetTime = 1
    MaxTime = 1
    Workloads <- MCWorkloads
    Dids = {d1, d2, d3}
    Routines = {r1, r2, r3}
    Codes = {1, 2, 3}
    DidDefinitions <- MCDidDefinitions
    RoutineDefinitions <- MCRoutineDefinitions
    MaxDids = 1
    MaxRoutines = 1
    MaxDtcs = 1
    MaxReports = 3
SYMMETRY MCSymmetry
INVARIANTS
    SessionsAreSound
    CataloguesAreAccounted
PROPERTIES
    OvertakenDownloadsStay
CHECK_DEADLOCK FALSE
