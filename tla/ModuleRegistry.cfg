CONSTANTS
    Modules = {m1, m2}
    Workloads = {m2}
    Admins = {a1, a2}
    Reconcilers = {r1, r2}
    LeaseDuration = 2
    MaxHeartbeats = 2
    MaxRequests = 2
    None = None
SPECIFICATION RegistryFairSpec
INVARIANTS
    ReconciledAreExpired
PROPERTIES
    OnlyHeartbeatsActivate
    LeasesRunOut
\* every heartbeat and request spent and every lease run out
CHECK_DEADLOCK FALSE
