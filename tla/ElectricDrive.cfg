CONSTANTS
    Workloads = {"requests", "energy"}
    Kinds = {"battery", "range", "motor", "brake", "charging", "thermal", "scenario"}
    Ids = {i1, i2}
    Requests = {q1, q2}
    MaxSent = 3
    None = None
    Charges <- MCCharges
    Temperatures <- MCTemperatures
    Drifts <- MCDrifts
    Currents <- MCCurrents
    Torques <- MCTorques
    Speeds <- MCSpeeds
    Forces <- MCForces
    Targets <- MCTargets
    MaxCommands = 3
    Missing = Missing
SPECIFICATION Spec
INVARIANTS
    RequestsAreSerialised
    EnergyIsAccounted
PROPERTIES
    RequestsEnd
    StepsAreCovered
    ChargeIsAccepted
CHECK_DEADLOCK FALSE
