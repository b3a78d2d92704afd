CONSTANTS
    Codes = {c1, c2}
    Policies <- MCPolicies
    ReplacementFaults <- MCReplacementFaults
    CommandIds = {i1, i2, i3}
    Requests = {q1, q2}
    MaxCount = 3
    MaxVersion = 4
    MaxOverlap = 2
    MaxOvertaken = 0
    MaxPeriod = 4
    None = None
    Workloads = {"commands", "network"}
    Ecus = {"a", "b"}
    Routes <- MCGatewayRoutes
    Values = {0, 1}
    Plans <- MCPlans
    Executions = {x1, x2}
    Clients = {k1, k2}
    MaxStored = 3
    NoRequest = NoRequest
SPECIFICATION Spec
INVARIANTS
    ActiveCriticalMeansFault
    HistoriesAreSound
PROPERTIES
    LatchedNeedsClearing
    TransfersAreCurrent
    NetworkRequestsEnd
CHECK_DEADLOCK FALSE
