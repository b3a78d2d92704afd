CONSTANTS
    Commands = {c1, c2}
    Pollers = {p1, p2}
    Acks = {k1, k2}
    Lease = 1
    MaxTime = 2
    None = None
    Vehicles = {v1, v2}
    VehicleRank <- MCRank
    CommandIds = {i1, i2}
    Payloads <- MCPayloads
    StepInputs <- MCStepInputs
    Durations = {1, 60}
    Snapshots = {n1}
    Members = {v1, v2}
    Restores = {r1, r2}
    Simulators = {z1, z2}
    StatusRequests = {q1, q2}
    Events = {e1, e2}
    Values = {x1, x2}
    Ingests = {t1, t2, t3}
    Simulated = {v1}
    SessionIds = {i1}
    SessionVersions = 2
    MaxVersion = 4
    Absent = Absent
    Workloads = {"delivery", "simulation", "session", "status", "telemetry"}
SPECIFICATION Spec
SYMMETRY Symmetries
INVARIANTS
    DeliveriesAreExclusive
    SimulationIsSound
PROPERTIES
    TerminalStays
    StatesChangeAsWholes
\* every command terminal and the clock at its bound
CHECK_DEADLOCK FALSE
