CONSTANTS
    Jobs = {j1, j2}
    RunIds = {r1, r2}
    JobClients = {c1, c2}
    RunClients = {d1}
    Schedulers = {s1, s2}
    BatchSize = 2
    MaxTime = 1
    None = None
SPECIFICATION FairSpec
INVARIANTS
    DispatchCreatesItsRun
    ClaimsAreExclusive
    EvidenceExact
PROPERTIES
    Settled
    DueJobsSettle
\* every identifier used up and nothing left to dispatch: the system may stop
CHECK_DEADLOCK FALSE
