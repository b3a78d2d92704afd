------------------------------ MODULE Vehicles ------------------------------
(* The vehicles of the platform: the commands leased to a gateway module,    *)
(* the digital states with their sessions, the catalogue status and the      *)
(* telemetry.  They share the vehicle and lock different rows of it.  Which  *)
(* of them a behaviour serves is chosen in Init, to keep their product out   *)
(* of the instance.                                                          *)
EXTENDS VehicleCommands, DigitalVehicle

CONSTANTS
    Workloads,       \* what a behaviour may serve
    Simulated,       \* the vehicles that transitions and steps address
    SessionIds,      \* their identifiers during a session
    SessionVersions  \* bound on the versions they start from during a session

ASSUME WorkloadsAreKnown ==
    /\ Workloads \subseteq {"delivery", "simulation", "session", "status", "telemetry"}
    /\ Simulated \subseteq Vehicles /\ SessionIds \subseteq CommandIds

VARIABLE workload

vars == <<commandVars, fleetVars, workload>>

Init ==
    /\ CommandsInit /\ FleetInit
    /\ workload \in Workloads

Next ==
    /\ UNCHANGED workload
    /\ \/ workload = "delivery" /\ DeliveryCommand /\ UNCHANGED fleetVars
       \/ /\ UNCHANGED commandVars
          /\ \/ workload = "simulation" /\
                (SimulationEnd \/ \E v \in Simulated :
                   StateCommand(v) \/ SimulationCommand(v, CommandIds, 1..MaxVersion))
             \/ workload = "session" /\
                (\/ SessionCommand \/ SimulationEnd
                 \/ \E v \in Simulated : SimulationCommand(v, SessionIds, 1..SessionVersions)
                 \/ \E v \in Vehicles : StateCommand(v))
             \/ workload = "status" /\ (StatusCommand \/ \E v \in Vehicles : CreateVehicle(v))
             \/ workload = "telemetry" /\ (TelemetryCommand \/ \E v \in Vehicles : CreateVehicle(v))

Spec == Init /\ [][Next]_vars

-----------------------------------------------------------------------------
(* Commands reach the gateway under disjoint leases, one event per attempt.  *)
DeliveriesAreExclusive ==
    /\ CommandsTypeOK
    /\ ClaimsAreExclusive
    /\ LeasesAreDisjoint
    /\ EvidenceExact

(* The simulated fleet is safe, its clocks and commands are one history, its *)
(* requests deadlock only where a restore and a transition or step of one of *)
(* its members meet, and no reading is announced twice.                      *)
SimulationIsSound ==
    /\ FleetTypeOK /\ workload \in Workloads
    /\ MotionIsSafe
    /\ CommandsAreOneHistory
    /\ DeadlocksJoinARestoreAndAStep
    /\ TelemetryIsAnnouncedOnce

(* A digital state changes by exactly one version; several change only by a  *)
(* restore, every member of the session then to what one snapshot holds; a   *)
(* state a restore has locked changes only with the rest of it, one that a   *)
(* transition or step has locked only to what it computed; and neither of    *)
(* these gains energy.                                                       *)
StatesChangeAsWholes ==
    [][LET Changed(v) == Registered(v) /\ digital'[v] # digital[v]
           Restored(n) == \A m \in Members :
             /\ Changed(m)
             /\ digital'[m].payload = snapshots[n][m].payload /\ digital'[m].time = snapshots[n][m].time
       IN /\ \A v \in Vehicles : Changed(v) => digital'[v].version = digital[v].version + 1
          /\ \A v, w \in Vehicles : v # w /\ Changed(v) /\ Changed(w) =>
               \E n \in Snapshots : snapshots[n] # Absent /\ Restored(n)
          /\ \A r \in Restores : restoring[r] # Absent =>
               \A v \in Vehicles : <<"state", v>> \in restoring[r].locked /\ Changed(v) =>
                  Restored(restoring[r].snapshot)
          /\ \A x \in Simulators : simulating[x] # Absent /\ Changed(simulating[x].vehicle) =>
               /\ digital'[simulating[x].vehicle].payload = simulating[x].payload
               /\ simulating'[x] = Absent
          /\ records' # records => \A v \in Vehicles : Registered(v) =>
               digital'[v].payload.energy <= digital[v].payload.energy
      ]_vars
=============================================================================
