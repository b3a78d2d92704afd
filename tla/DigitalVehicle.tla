--------------------------- MODULE DigitalVehicle ---------------------------
(* The digital state of a fleet: registration, replacements, transitions and *)
(* physical steps of a vehicle, sessions of several vehicles with snapshots  *)
(* and restores, the catalogue status, and telemetry.  Whatever changes a    *)
(* digital state selects it FOR UPDATE first; a restore locks the rows of    *)
(* its members one after the other, in `vehicles` and then their digital     *)
(* state; what a transition or a step inserts refers to its vehicle, whose   *)
(* row it needs once it has locked the state: the opposite order.            *)
EXTENDS Integers, FiniteSets

CONSTANTS
    Vehicles,        \* vehicle identifiers
    VehicleRank,     \* Vehicles -> Nat, the order of the identifiers
    CommandIds,      \* command_id of transitions and steps
    Payloads,        \* the states a caller may ask to replace with
    StepInputs,      \* the actuator inputs of a step
    Durations,       \* duration of a transition or step, in seconds
    Snapshots,       \* snapshot identifiers of the session
    Members,         \* the vehicles of the session
    Restores,        \* restore requests
    Simulators,      \* requests for a transition or a step
    StatusRequests,  \* requests that change the catalogue status
    Events, Values,  \* telemetry event_id and readings
    Ingests,         \* telemetry requests
    MaxVersion,      \* bound on the versions of a digital state
    Absent           \* no row, no request

VARIABLES
    digital,         \* vehicle -> Absent or its digital state
    records,         \* transitions and steps that were executed
    snapshots,       \* snapshot -> Absent or vehicle -> digital state
    restoring,       \* restore -> Absent or its snapshot and the rows it has locked
    simulating,      \* transition or step -> Absent or what it stores, its state locked
    status,          \* vehicle -> catalogue status
    updating,        \* status request -> Absent or what it has read
    telemetry,       \* event -> Absent or its stored reading
    received,        \* event -> outbox events about it
    ingesting        \* telemetry request -> Absent or its reading

stateVars == <<digital, records, snapshots, restoring, simulating>>
statusVars == <<status, updating>>
telemetryVars == <<telemetry, received, ingesting>>
fleetVars == <<stateVars, statusVars, telemetryVars>>

VehicleStatuses == {"registered", "active", "inactive"}
Modes == {"parked", "ready", "driving", "charging", "fault"}
Gears == {"park", "reverse", "neutral", "drive"}
ChargingStatuses == {"disconnected", "connected", "charging", "complete", "fault"}

(* Speed in thousandths of km/h, energy in mWh, charge in thousandths of %.  *)
MaxSpeed == 400000
MaxTorque == 3000
MaxEnergy == 250000000
FullCharge == 100000
Payload == [mode : Modes, charging : ChargingStatuses, contactors : BOOLEAN, motor : BOOLEAN,
            gear : Gears, speed : 0..MaxSpeed,
            requested : -MaxTorque..MaxTorque, delivered : -MaxTorque..MaxTorque,
            parkingBrake : BOOLEAN, energy : 0..MaxEnergy, soc : 0..FullCharge]

(* The rows, and the requests in flight with what they have read.            *)
DigitalState == [payload : Payload, version : 1..MaxVersion, time : Nat]
SimulationRecord == [kind : {"transition", "step"}, id : CommandIds, vehicle : Vehicles,
                     seconds : Durations, previous : 1..MaxVersion, version : 1..MaxVersion,
                     time : Nat]
Rows == {"vehicle", "state"} \X Vehicles
Restore == [snapshot : Snapshots, locked : SUBSET Rows]
Simulation == [kind : {"transition", "step"}, id : CommandIds, vehicle : Vehicles,
               seconds : Durations, payload : Payload]
StatusUpdate == [vehicle : Vehicles, read : VehicleStatuses, new : VehicleStatuses]
Reading == [event : Events, vehicle : Vehicles, value : Values]

ASSUME RanksAreAnOrder ==
    /\ VehicleRank \in [Vehicles -> Nat]
    /\ \A v, w \in Vehicles : VehicleRank[v] = VehicleRank[w] => v = w

ASSUME FleetAssumption ==
    /\ Payloads \subseteq Payload
    /\ StepInputs \subseteq [accelerator : Nat, brake : Nat, grade : Int, steering : Int]
    /\ Durations \subseteq Nat \ {0}
    /\ Members \subseteq Vehicles /\ IsFiniteSet(Members)
    /\ Restores \cap Simulators = {}
    /\ MaxVersion \in Nat \ {0}
    /\ Absent \notin DigitalState \cup [Members -> DigitalState] \cup Restore \cup Simulation
                    \cup StatusUpdate \cup Reading \cup VehicleStatuses \cup Modes

(* The state a vehicle is registered with.                                   *)
Baseline == [mode |-> "parked", charging |-> "disconnected", contactors |-> FALSE, motor |-> FALSE,
             gear |-> "park", speed |-> 0, requested |-> 0, delivered |-> 0,
             parkingBrake |-> TRUE, energy |-> 60000000, soc |-> 80000]

(* The validation every new state passes before it is stored.                *)
EnforceVehicleInvariants(p) ==
    LET moving == p.speed > 0 IN
    /\ moving => p.mode = "driving" /\ p.gear \in {"drive", "reverse"}
    /\ moving => p.motor /\ p.contactors /\ ~p.parkingBrake
    /\ p.charging = "charging" =>
         p.mode = "charging" /\ ~moving /\ p.gear = "park" /\ ~p.motor /\ p.contactors
    /\ ~p.motor => p.requested = 0 /\ p.delivered = 0

Registered(v) == digital[v] # Absent

(* The rows a request has locked while it waits for more of them; the others *)
(* need one row at most and hold nothing while they wait.                    *)
Requests == Restores \cup Simulators
Held(p) ==
    IF p \in Restores
    THEN IF restoring[p] = Absent THEN {} ELSE restoring[p].locked
    ELSE IF simulating[p] = Absent THEN {} ELSE {<<"state", simulating[p].vehicle>>}
Free(row) == \A p \in Requests : row \notin Held(p)
InOrder(v) == Registered(v) /\ Free(<<"state", v>>) /\ digital[v].version < MaxVersion

-----------------------------------------------------------------------------
CreateVehicle(v) ==
    /\ ~Registered(v)
    /\ digital' = [digital EXCEPT ![v] = [payload |-> Baseline, version |-> 1, time |-> 0]]
    /\ status' = [status EXCEPT ![v] = "registered"]
    /\ UNCHANGED <<records, snapshots, restoring, simulating, updating, telemetryVars>>

(* The new state under the lock; the state as it is is a replay.             *)
Store(v, payload, seconds) ==
    digital' = [digital EXCEPT ![v] = [payload |-> payload, version |-> @.version + 1,
                                       time |-> @.time + seconds]]

ReplaceDigitalState(v, payload, expected) ==
    /\ InOrder(v)
    /\ EnforceVehicleInvariants(payload)
    /\ expected = digital[v].version /\ payload # digital[v].payload
    /\ Store(v, payload, 0)
    /\ UNCHANGED <<records, snapshots, restoring, simulating, statusVars, telemetryVars>>

(* What a transition and a step leave behind; the identifier is unique for   *)
(* the vehicle and the kind.                                                 *)
Record(kind, id, v, seconds) ==
    [kind |-> kind, id |-> id, vehicle |-> v, seconds |-> seconds, previous |-> digital[v].version,
     version |-> digital[v].version + 1, time |-> digital[v].time + seconds]
IdFree(kind, id, v) == \A r \in records : <<r.kind, r.id, r.vehicle>> # <<kind, id, v>>

SimulationTransitions == [parked |-> "ready", ready |-> "driving", driving |-> "parked",
                          charging |-> Absent, fault |-> Absent]

\* target is ready, driving or parked: no transition leads elsewhere.
ApplySimulationMode(p, target, speed) ==
    LET powered == target # "parked"
        driving == target = "driving"
        torque == IF driving THEN 120 ELSE 0
    IN [mode |-> target, charging |-> p.charging, contactors |-> powered, motor |-> powered,
        gear |-> IF driving THEN "drive" ELSE "park", speed |-> IF driving THEN speed ELSE 0,
        requested |-> torque, delivered |-> torque, parkingBrake |-> ~driving,
        energy |-> p.energy, soc |-> p.soc]

(* The state is locked and the new one computed; whether the identifier is   *)
(* taken was looked up before.                                               *)
Simulate(x, kind, id, v, seconds, payload) ==
    /\ simulating[x] = Absent
    /\ EnforceVehicleInvariants(payload)
    /\ simulating' = [simulating EXCEPT ![x] =
         [kind |-> kind, id |-> id, vehicle |-> v, seconds |-> seconds, payload |-> payload]]
    /\ UNCHANGED <<digital, records, snapshots, restoring, statusVars, telemetryVars>>

ExecuteTransition(x, id, v, target, speed, seconds, expected) ==
    /\ InOrder(v) /\ expected = digital[v].version
    /\ target = SimulationTransitions[digital[v].payload.mode]
    /\ Simulate(x, "transition", id, v, seconds, ApplySimulationMode(digital[v].payload, target, speed))

-----------------------------------------------------------------------------
Least(a, b) == IF a < b THEN a ELSE b
Most(a, b) == IF a > b THEN a ELSE b

Speed(p, inputs, seconds) ==
    Least(250000, Most(0, p.speed + seconds * (50 * inputs.accelerator - 25 * inputs.grade - 80 * inputs.brake)))

(* Energy in mWh over the step: traction and auxiliaries against what the    *)
(* brakes give back, at most four fifths of it.                              *)
EnergyUsed(inputs, seconds) ==
    ((Most(0, 1000 * inputs.accelerator + 250 * inputs.grade) + 500) * seconds * 10) \div 36
EnergyRecovered(p, inputs, seconds) ==
    Least((EnergyUsed(inputs, seconds) * 4) \div 5,
          (((inputs.brake * 45 * Most(p.speed, Speed(p, inputs, seconds))) \div 1000) * seconds * 10) \div 36)

Pressed(inputs) == inputs.accelerator > 0 \/ inputs.brake > 0 \/ inputs.steering # 0

(* Only a driving vehicle moves; any other accepts time passing, and no      *)
(* actuation.                                                                *)
ApplySimulationStep(p, inputs, seconds) ==
    IF p.mode # "driving" THEN p ELSE
    LET torque == Least(MaxTorque, Most(0, 12 * inputs.accelerator + 8 * inputs.grade))
        left == Most(0, p.energy - (EnergyUsed(inputs, seconds) - EnergyRecovered(p, inputs, seconds)))
    IN [p EXCEPT !.speed = Speed(p, inputs, seconds), !.requested = torque,
                 !.delivered = torque - Least(600, 6 * inputs.brake),
                 !.energy = left, !.soc = Least(FullCharge, left \div 750)]

ExecuteStep(x, id, v, inputs, seconds, expected) ==
    /\ InOrder(v) /\ expected = digital[v].version
    /\ digital[v].payload.mode # "driving" => ~Pressed(inputs)
    /\ Simulate(x, "step", id, v, seconds, ApplySimulationStep(digital[v].payload, inputs, seconds))

(* The record refers to the vehicle, whose row must not be locked by a       *)
(* restore; an identifier taken meanwhile rolls everything back.             *)
InsertRecord(x) ==
    /\ simulating[x] # Absent
    /\ LET s == simulating[x] IN
       /\ Free(<<"vehicle", s.vehicle>>)
       /\ \/ /\ IdFree(s.kind, s.id, s.vehicle)
             /\ Store(s.vehicle, s.payload, s.seconds)
             /\ records' = records \cup {Record(s.kind, s.id, s.vehicle, s.seconds)}
          \/ ~IdFree(s.kind, s.id, s.vehicle) /\ UNCHANGED <<digital, records>>
    /\ simulating' = [simulating EXCEPT ![x] = Absent]
    /\ UNCHANGED <<snapshots, restoring, statusVars, telemetryVars>>

(* A connection is lost, or the database ends a deadlock with this request:  *)
(* its lock goes, nothing was written.                                       *)
AbandonSimulation(x) ==
    /\ simulating[x] # Absent
    /\ simulating' = [simulating EXCEPT ![x] = Absent]
    /\ UNCHANGED <<digital, records, snapshots, restoring, statusVars, telemetryVars>>

-----------------------------------------------------------------------------
(* A snapshot is one statement without a lock: what is committed.            *)
CaptureSnapshot(n) ==
    /\ snapshots[n] = Absent
    /\ \A v \in Members : Registered(v)
    /\ snapshots' = [snapshots EXCEPT ![n] = [v \in Members |-> digital[v]]]
    /\ UNCHANGED <<digital, records, restoring, simulating, statusVars, telemetryVars>>

BeginRestore(r, n) ==
    /\ restoring[r] = Absent /\ snapshots[n] # Absent
    /\ restoring' = [restoring EXCEPT ![r] = [snapshot |-> n, locked |-> {}]]
    /\ UNCHANGED <<digital, records, snapshots, simulating, statusVars, telemetryVars>>

RowsOf(vehicles) == {"vehicle", "state"} \X vehicles
Unlocked(r) == RowsOf(DOMAIN snapshots[restoring[r].snapshot]) \ restoring[r].locked

\* Faulty variant: the rows are locked in whatever order they come.
NextRowUnordered(r) == Unlocked(r)

(* The row a restore locks next: in the order of the identifiers, the row of *)
(* `vehicles` before the digital state.                                      *)
RowRank(row) == 2 * VehicleRank[row[2]] + (IF row[1] = "state" THEN 1 ELSE 0)
NextRow(r) == {row \in Unlocked(r) : \A other \in Unlocked(r) : RowRank(row) <= RowRank(other)}

LockForRestore(r) ==
    /\ restoring[r] # Absent
    /\ \E row \in NextRow(r) :
         Free(row) /\ restoring' = [restoring EXCEPT ![r].locked = @ \cup {row}]
    /\ UNCHANGED <<digital, records, snapshots, simulating, statusVars, telemetryVars>>

\* Faulty variant: the version comes back with the rest of the snapshot.
RestoreSnapshotVersions(r) ==
    /\ restoring[r] # Absent
    /\ LET saved == snapshots[restoring[r].snapshot] IN
       /\ restoring[r].locked = RowsOf(DOMAIN saved)
       /\ digital' = [v \in Vehicles |-> IF v \in DOMAIN saved THEN saved[v] ELSE digital[v]]
    /\ restoring' = [restoring EXCEPT ![r] = Absent]
    /\ UNCHANGED <<records, snapshots, simulating, statusVars, telemetryVars>>

RestoreSnapshot(r) ==
    /\ restoring[r] # Absent
    /\ LET saved == snapshots[restoring[r].snapshot] IN
       /\ restoring[r].locked = RowsOf(DOMAIN saved)
       /\ \A v \in DOMAIN saved : digital[v].version < MaxVersion
       /\ digital' = [v \in Vehicles |->
            IF v \in DOMAIN saved
            THEN [digital[v] EXCEPT !.payload = saved[v].payload, !.time = saved[v].time, !.version = @ + 1]
            ELSE digital[v]]
    /\ restoring' = [restoring EXCEPT ![r] = Absent]
    /\ UNCHANGED <<records, snapshots, simulating, statusVars, telemetryVars>>

(* A connection is lost, or the database ends a deadlock with this request:  *)
(* the locks go, nothing was written.                                        *)
AbandonRestore(r) ==
    /\ restoring[r] # Absent
    /\ restoring' = [restoring EXCEPT ![r] = Absent]
    /\ UNCHANGED <<digital, records, snapshots, simulating, statusVars, telemetryVars>>

-----------------------------------------------------------------------------
(* The status is read without a lock; the row of `vehicles` is written only  *)
(* if the new status differs from the one read, the event is sent in any     *)
(* case.                                                                     *)
ReadStatus(q, v, new) ==
    /\ updating[q] = Absent /\ Registered(v)
    /\ updating' = [updating EXCEPT ![q] = [vehicle |-> v, read |-> status[v], new |-> new]]
    /\ UNCHANGED <<stateVars, status, telemetryVars>>

UpdateVehicleStatus(q) ==
    /\ updating[q] # Absent /\ Free(<<"vehicle", updating[q].vehicle>>)
    /\ status' = IF updating[q].new = updating[q].read THEN status
                 ELSE [status EXCEPT ![updating[q].vehicle] = updating[q].new]
    /\ updating' = [updating EXCEPT ![q] = Absent]
    /\ UNCHANGED <<stateVars, telemetryVars>>

-----------------------------------------------------------------------------
(* A reading whose event_id is not stored yet; one that is, is a duplicate   *)
(* or a conflict.                                                            *)
ReadTelemetry(i, e, v, value) ==
    /\ ingesting[i] = Absent /\ Registered(v)
    /\ telemetry[e] = Absent
    /\ ingesting' = [ingesting EXCEPT ![i] = [event |-> e, vehicle |-> v, value |-> value]]
    /\ UNCHANGED <<stateVars, statusVars, telemetry, received>>

(* The insert in a savepoint, which refers to the vehicle: an identifier     *)
(* taken meanwhile rolls it back, and the stored reading decides between     *)
(* duplicate and conflict.                                                   *)
IngestTelemetry(i) ==
    /\ ingesting[i] # Absent
    /\ LET e == ingesting[i].event IN
       \/ /\ telemetry[e] = Absent /\ Free(<<"vehicle", ingesting[i].vehicle>>)
          /\ telemetry' = [telemetry EXCEPT ![e] = ingesting[i]]
          /\ received' = [received EXCEPT ![e] = @ + 1]
       \/ telemetry[e] # Absent /\ UNCHANGED <<telemetry, received>>
    /\ ingesting' = [ingesting EXCEPT ![i] = Absent]
    /\ UNCHANGED <<stateVars, statusVars>>

-----------------------------------------------------------------------------
FleetInit ==
    /\ digital = [v \in Vehicles |-> Absent]
    /\ records = {}
    /\ snapshots = [n \in Snapshots |-> Absent]
    /\ restoring = [r \in Restores |-> Absent]
    /\ simulating = [x \in Simulators |-> Absent]
    /\ status = [v \in Vehicles |-> Absent]
    /\ updating = [q \in StatusRequests |-> Absent]
    /\ telemetry = [e \in Events |-> Absent]
    /\ received = [e \in Events |-> 0]
    /\ ingesting = [i \in Ingests |-> Absent]

SimulationCommand(v, ids, versions) ==
    \E x \in Simulators, id \in ids, seconds \in Durations, expected \in versions :
       \/ \E target \in Modes, speed \in {30000, 250000} :
            ExecuteTransition(x, id, v, target, speed, seconds, expected)
       \/ \E inputs \in StepInputs : ExecuteStep(x, id, v, inputs, seconds, expected)
SimulationEnd == \E x \in Simulators : InsertRecord(x) \/ AbandonSimulation(x)

StateCommand(v) ==
    \/ CreateVehicle(v)
    \/ \E payload \in Payloads, expected \in 1..MaxVersion : ReplaceDigitalState(v, payload, expected)

SessionCommand ==
    \/ \E n \in Snapshots : CaptureSnapshot(n) \/ \E r \in Restores : BeginRestore(r, n)
    \/ \E r \in Restores : LockForRestore(r) \/ RestoreSnapshot(r) \/ AbandonRestore(r)

StatusCommand ==
    \/ \E q \in StatusRequests, v \in Vehicles, new \in VehicleStatuses : ReadStatus(q, v, new)
    \/ \E q \in StatusRequests : UpdateVehicleStatus(q)

TelemetryCommand ==
    \/ \E i \in Ingests, e \in Events, v \in Vehicles, value \in Values : ReadTelemetry(i, e, v, value)
    \/ \E i \in Ingests : IngestTelemetry(i)

-----------------------------------------------------------------------------
FleetTypeOK ==
    /\ digital \in [Vehicles -> DigitalState \cup {Absent}]
    /\ records \subseteq SimulationRecord
    /\ snapshots \in [Snapshots -> [Members -> DigitalState] \cup {Absent}]
    /\ restoring \in [Restores -> Restore \cup {Absent}]
    /\ simulating \in [Simulators -> Simulation \cup {Absent}]
    /\ status \in [Vehicles -> VehicleStatuses \cup {Absent}]
    /\ updating \in [StatusRequests -> StatusUpdate \cup {Absent}]
    /\ telemetry \in [Events -> Reading \cup {Absent}]
    /\ received \in [Events -> Nat]
    /\ ingesting \in [Ingests -> Reading \cup {Absent}]
    /\ \A v \in Vehicles : status[v] = Absent <=> ~Registered(v)

(* docs/digital-vehicle-state.md, "Consistency and safety rules": no command *)
(* or sequence of commands, no restore and no lost connection produces a     *)
(* moving vehicle that is not driving with motor, contactors and gear, or a  *)
(* charging one that is not parked; stored snapshots included.               *)
MotionIsSafe ==
    LET Safe(p) ==
          /\ p.speed > 0 => /\ p.mode = "driving" /\ p.gear \in {"drive", "reverse"}
                            /\ p.motor /\ p.contactors /\ ~p.parkingBrake
          /\ p.charging = "charging" => p.mode = "charging" /\ p.speed = 0 /\ ~p.motor /\ p.contactors
          /\ ~p.motor => p.delivered = 0
    IN /\ \A v \in Vehicles : Registered(v) => Safe(digital[v].payload)
       /\ \A n \in Snapshots : snapshots[n] # Absent => \A v \in Members : Safe(snapshots[n][v].payload)

(* Transitions and steps, two tables, are one history of a vehicle: no       *)
(* version and no identifier of a kind is used twice, the version is one of  *)
(* the state's past, and between two consecutive records exactly the time of *)
(* the second passed: a restore that turned the clock back comes between.    *)
CommandsAreOneHistory ==
    \A r \in records :
        /\ r.version = r.previous + 1 /\ r.version <= digital[r.vehicle].version
        /\ r.version = digital[r.vehicle].version => r.time = digital[r.vehicle].time
        /\ \A s \in records : s.vehicle = r.vehicle /\ s # r =>
             /\ s.version # r.version
             /\ <<s.kind, s.id>> # <<r.kind, r.id>>
             /\ s.previous = r.version => s.time = r.time + s.seconds

(* Requests that all wait for one another: always a restore that has a row   *)
(* of `vehicles` and waits for the state of a transition or a step that      *)
(* waits for that row.  Restores among themselves never deadlock, nor do     *)
(* transitions and steps; ending one of such a pair is what goes on from it. *)
Wanted(p) ==
    IF p \in Restores
    THEN IF restoring[p] = Absent THEN {} ELSE NextRow(p)
    ELSE IF simulating[p] = Absent THEN {} ELSE {<<"vehicle", simulating[p].vehicle>>}
WaitsFor(p, q) == Wanted(p) \cap Held(q) # {}
Deadlocked(requests) ==
    requests # {} /\ \A p \in requests : \E q \in requests : WaitsFor(p, q)
DeadlocksJoinARestoreAndAStep ==
    \A requests \in SUBSET Requests : Deadlocked(requests) =>
        \E r \in requests \cap Restores, x \in requests \cap Simulators :
           WaitsFor(r, x) /\ WaitsFor(x, r)

(* Every stored reading was announced exactly once, whichever requests raced *)
(* for its event_id.                                                         *)
TelemetryIsAnnouncedOnce ==
    \A e \in Events : received[e] = IF telemetry[e] = Absent THEN 0 ELSE 1
=============================================================================
