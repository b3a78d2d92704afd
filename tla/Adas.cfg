SPECIFICATION Spec
CONSTANTS
    Actors <- MCActors
    Initial <- MCInitial
    Durations = {1, 2}
    Contexts <- MCContexts
    Sensors <- MCSensors
    Lanes <- MCLanes
    PredictionLists <- MCPredictionLists
    Requests = {q1, q2}
    Observations = {o1}
    Results = {p1}
    Limit = 45
    MaxRevision = 3
    None = None
    q1 = q1
    q2 = q2
    Evaluations = {v1}
    Executions = {x1}
    Evidences = {e1}
    Parameters <- MCParameters
    EgoWidth = 18
    LaneWidth = 35
    Faults <- MCFaults
    Expectations <- MCExpectations
    Run <- MCRun
    References <- MCReferences
SYMMETRY Symmetry
INVARIANTS
    EvidenceIsReproducible
    DecisionsAnswerRisks
CHECK_DEADLOCK FALSE
