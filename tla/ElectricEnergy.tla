--------------------------- MODULE ElectricEnergy ---------------------------
(* The energy of one electric vehicle: what the commands of                  *)
(* electric_vehicle/service.py do with charge, temperatures, torque and      *)
(* braking force, one command after the other.  Requests that overlap are    *)
(* those of ElectricVehicle, which leaves the outcomes modelled here free.   *)
(*                                                                           *)
(* Units are chosen so that a step lasts an hour, one unit of power charges  *)
(* one percent, and every limit is a small integer; pack voltage and         *)
(* efficiencies are constant.  How far a temperature moves is free.          *)
EXTENDS Integers, FiniteSets

CONSTANTS
    Charges,         \* initial state of charge, in percent
    Temperatures,    \* initial temperatures, in degrees
    Drifts,          \* by how much one step may move a temperature
    Currents,        \* charge that a battery step draws, negative when it charges
    Torques,         \* torque requests
    Speeds,          \* motor speeds: 0 at a standstill, 2 beyond the limit
    Forces,          \* braking force requests
    Targets,         \* target charge of a charging session
    MaxCommands,     \* bound on the commands of a behaviour
    Missing          \* an aggregate that was not created

\* Limits of the aggregates, in the units above.
MaxAC == 10
MaxDC == 40
MaxRegen == 20
MaxTorque == 100
TorqueCap == 12
FrictionCap == 15
MotorLimit == 150
Reserve == 10

\* The aggregates, once created.
Percent == 0..100
Degrees == -40..80
PackRow == [soc : Percent, temperature : Degrees,
            state : {"normal", "warning", "protection"}, closed : BOOLEAN]
MotorRow == [temperature : Int, torque : 0..MaxTorque,
             state : {"standby", "ready", "derated", "protection"}]
BrakeRow == [recovered : Nat, regen : 0..TorqueCap, friction : 0..FrictionCap,
             state : {"standby", "limited", "regenerative", "blended", "friction"}]
ChargingRow == [state : {"idle", "charging", "paused", "completed", "faulted"},
                target : Percent, connector : {"none", "ac", "dc"}, requested : Nat, energy : Nat]
ThermalRow == [state : {"standby", "heating", "cooling", "mixed", "faulted"},
               battery : -2..2, powertrain : -2..2]
RangeRow == [available : Nat, state : {"ready", "completed", "limited"}]
Commands == {"battery", "motor", "brake", "charging", "thermal", "range", "scenario"}
Ledger == [initial : Int, drawn : Int, charged : Nat, commands : Nat, kind : Commands \cup {"none"}]

ASSUME EnergyAssumption ==
    /\ Charges \subseteq Percent /\ Targets \subseteq Percent \ {0}
    /\ Temperatures \subseteq Degrees
    /\ Drifts \subseteq Int /\ Currents \subseteq Int
    /\ Forces \subseteq Nat /\ Torques \subseteq Nat
    /\ MaxCommands \in Nat
    /\ Missing \notin PackRow /\ Missing \notin MotorRow /\ Missing \notin BrakeRow
    /\ Missing \notin ChargingRow /\ Missing \notin ThermalRow /\ Missing \notin RangeRow

VARIABLES
    pack,        \* charge, temperature, operating state, contactors
    motor,       \* temperature, torque delivered, operating state
    brake,       \* recovered energy, forces of the last step, operating state
    charging,    \* session state, target, connector, requested power, energy
    thermal,     \* operating state, power moved at the battery and the powertrain
    range,       \* available energy of the last estimate, operating state
    ledger       \* initial charge, charge drawn and charged so far, last command

energyVars == <<pack, motor, brake, charging, thermal, range, ledger>>

Smaller(a, b) == IF a < b THEN a ELSE b
Larger(a, b) == IF a > b THEN a ELSE b
Within(low, high, x) == Larger(low, Smaller(high, x))

EnergyInit ==
    /\ pack = Missing /\ motor = Missing /\ brake = Missing
    /\ charging = Missing /\ thermal = Missing /\ range = Missing
    /\ ledger = [initial |-> 0, drawn |-> 0, charged |-> 0, commands |-> 0, kind |-> "none"]

Record(kind) == ledger.commands < MaxCommands
                /\ ledger' = [ledger EXCEPT !.commands = @ + 1, !.kind = kind]

-----------------------------------------------------------------------------
(* Creation: each aggregate once, after those it reads.                      *)
CreateBatteryPack(soc, temperature) ==
    /\ pack = Missing
    /\ pack' = [soc |-> soc, temperature |-> temperature, state |-> "normal", closed |-> FALSE]
    /\ ledger' = [ledger EXCEPT !.initial = soc]
    /\ UNCHANGED <<motor, brake, charging, thermal, range>>

CreateMotorInverter(temperature) ==
    /\ pack # Missing /\ motor = Missing
    /\ motor' = [temperature |-> temperature, torque |-> 0, state |-> "standby"]
    /\ UNCHANGED <<pack, brake, charging, thermal, range, ledger>>

CreateRegenerativeBrake ==
    /\ pack # Missing /\ motor # Missing /\ brake = Missing
    /\ brake' = [recovered |-> 0, regen |-> 0, friction |-> 0, state |-> "standby"]
    /\ UNCHANGED <<pack, motor, charging, thermal, range, ledger>>

CreateChargingSystem ==
    /\ pack # Missing /\ charging = Missing
    /\ charging' = [state |-> "idle", target |-> 100, connector |-> "none", requested |-> 0, energy |-> 0]
    /\ UNCHANGED <<pack, motor, brake, thermal, range, ledger>>

CreateThermalManagement ==
    /\ pack # Missing /\ motor # Missing /\ thermal = Missing
    /\ thermal' = [state |-> "standby", battery |-> 0, powertrain |-> 0]
    /\ UNCHANGED <<pack, motor, brake, charging, range, ledger>>

CreateRangeEstimator ==
    /\ pack # Missing /\ thermal # Missing /\ range = Missing
    /\ range' = [available |-> 0, state |-> "ready"]
    /\ UNCHANGED <<pack, motor, brake, charging, thermal, ledger>>

-----------------------------------------------------------------------------
(* What the battery accepts and gives                                        *)

Isolated(p) == ~p.closed \/ p.state = "protection"
Chargeable(p) == ~Isolated(p) /\ p.temperature \in 0..50
CurrentLimit(p) == IF p.state = "warning" THEN 15 ELSE 30
Halves(p) == IF p.temperature \in 10..45 THEN 2 ELSE 1

\* Full up to 80 percent, then less and less towards the full charge.
Tapered(p, full) ==
    LET span == full - 80
        share == IF p.soc <= 80 \/ span <= 0 THEN <<1, 1>> ELSE <<Larger(0, full - p.soc), span>>
    IN  (CurrentLimit(p) * share[1] * Halves(p)) \div (2 * share[2])

BatteryChargeAcceptance(p) ==
    IF Chargeable(p) /\ p.soc < 95 THEN Smaller(MaxRegen, Tapered(p, 95)) ELSE 0

ConnectorLimit(connector) == IF connector = "ac" THEN MaxAC ELSE MaxDC

\* Faulty variant: the temperature window is left to the battery steps.
ChargingAcceptanceAnyTemperature(p, c) ==
    IF ~Isolated(p) /\ p.soc < c.target
    THEN Smaller(ConnectorLimit(c.connector), Tapered(p, c.target)) ELSE 0

ChargingAcceptance(p, c) ==
    IF Chargeable(p) /\ p.soc < c.target
    THEN Smaller(ConnectorLimit(c.connector), Tapered(p, c.target)) ELSE 0

BatteryPowerLimit(p) ==
    IF Isolated(p) THEN 0 ELSE IF p.state = "warning" THEN 60 ELSE 100

-----------------------------------------------------------------------------
(* The commands *)

\* The charge moves by the current asked for, in protection too.
SimulateBatteryStep(current, drift) ==
    /\ pack # Missing
    /\ LET soc == Within(0, 100, pack.soc - current)
           temperature == Within(-30, 60, pack.temperature + drift)
           protection == \/ temperature \in {-30, 60}
                         \/ soc = 0 /\ current > 0
                         \/ soc = 100 /\ current < 0
           warning == temperature >= 50 \/ temperature <= -20 \/ soc <= 10
       IN  /\ pack' = [soc |-> soc, temperature |-> temperature, closed |-> ~protection,
                       state |-> IF protection THEN "protection"
                                 ELSE IF warning THEN "warning" ELSE "normal"]
           /\ ledger.commands < MaxCommands
           /\ ledger' = [ledger EXCEPT !.drawn = @ + pack.soc - soc, !.commands = @ + 1, !.kind = "battery"]
    /\ UNCHANGED <<motor, brake, charging, thermal, range>>

\* Motor and inverter have a temperature and a limit each; one stands for both.
\* The battery limits the torque of a turning motor; a mode's factor any torque.
SimulateMotorStep(request, speed, factor, drift) ==
    /\ pack # Missing /\ motor # Missing
    /\ LET available == BatteryPowerLimit(pack)
           mode == (MaxTorque * factor) \div 100
           limit == IF speed = 2 \/ available = 0 THEN 0
                    ELSE IF speed = 1 THEN Smaller(mode, available) ELSE mode
           temperature == motor.temperature + drift
       IN  motor' = IF temperature >= MotorLimit
                    THEN [temperature |-> MotorLimit, torque |-> 0, state |-> "protection"]
                    ELSE [temperature |-> temperature, torque |-> Smaller(request, limit),
                          state |-> IF limit < mode \/ limit < request THEN "derated" ELSE "ready"]
    /\ Record("motor")
    /\ UNCHANGED <<pack, brake, charging, thermal, range>>

\* Regeneration first, within acceptance, room and torque; friction delivers
\* the rest up to its own limit.
BrakeForces(request, speed, accepted) ==
    LET regen == IF speed = 0 \/ accepted = 0 THEN 0
                 ELSE Smaller(request, Smaller(TorqueCap, accepted \div speed))
    IN  [regen |-> regen, friction |-> Smaller(request - regen, FrictionCap)]

BrakeState(request, f) ==
    CASE request = 0 -> "standby"
      [] request > f.regen + f.friction -> "limited"
      [] request > 0 /\ request = f.regen -> "regenerative"
      [] request = f.regen + f.friction /\ f.regen > 0 /\ f.friction > 0 -> "blended"
      [] OTHER -> "friction"

\* Faulty variant: the energy the battery has room for is not a limit.
AcceptedByBrakeUnlimited(p) == BatteryChargeAcceptance(p)

AcceptedByBrake(p) == Smaller(BatteryChargeAcceptance(p), Larger(0, 95 - p.soc))

SimulateBrakeStep(request, speed) ==
    /\ pack # Missing /\ motor # Missing /\ brake # Missing
    /\ LET f == BrakeForces(request, speed, AcceptedByBrake(pack))
           recovered == f.regen * speed
       IN  /\ pack' = IF recovered = 0 THEN pack
                      ELSE [pack EXCEPT !.soc = Smaller(95, @ + recovered)]
           /\ brake' = [recovered |-> brake.recovered + recovered, regen |-> f.regen,
                        friction |-> f.friction, state |-> BrakeState(request, f)]
    /\ Record("brake")
    /\ UNCHANGED <<motor, charging, thermal, range>>

-----------------------------------------------------------------------------
ChargingStarts(target, connector, power) ==
    /\ charging.state \in {"idle", "completed"}
    /\ charging' = [state |-> "charging", target |-> target, connector |-> connector,
                    requested |-> power, energy |-> 0]
    /\ pack' = [pack EXCEPT !.closed = TRUE]

\* One step of the session: what was asked for, what the battery accepts and
\* what fits below the target.
ChargingStep(power) ==
    LET asked == IF power > 0 THEN power ELSE charging.requested
        requested == IF asked = 0 THEN ConnectorLimit(charging.connector) ELSE asked
        energy == Smaller(requested, Smaller(ChargingAcceptance(pack, charging),
                                             Larger(0, charging.target - pack.soc)))
    IN  [requested |-> requested, energy |-> energy]

\* Faulty variant: a session that reaches its target leaves the contactors.
CompletesClosed(soc) == FALSE

Completes(soc) == soc >= charging.target

ChargingCharges(power) ==
    /\ charging.state = "charging"
    /\ LET step == ChargingStep(power)
           soc == IF step.energy = 0 THEN pack.soc
                  ELSE Smaller(charging.target, pack.soc + step.energy)
       IN  /\ pack' = [pack EXCEPT !.soc = soc, !.closed = IF Completes(soc) THEN FALSE ELSE @]
           /\ charging' = [charging EXCEPT !.requested = step.requested, !.energy = @ + step.energy,
                                           !.state = IF soc >= charging.target THEN "completed" ELSE @]
           /\ ledger' = [ledger EXCEPT !.charged = @ + step.energy, !.commands = @ + 1, !.kind = "charging"]

ChargingMoves(from, to, closed) ==
    /\ charging.state \in from
    /\ charging' = [charging EXCEPT !.state = to]
    /\ pack' = [pack EXCEPT !.closed = closed]

\* Clearing a fault leaves the contactors as they are.
ExecuteChargingCommand(target, connector, power) ==
    /\ pack # Missing /\ charging # Missing
    /\ ledger.commands < MaxCommands
    /\ \/ ChargingCharges(power)
       \/ /\ \/ ChargingStarts(target, connector, power)
             \/ ChargingMoves({"charging"}, "paused", FALSE)
             \/ ChargingMoves({"paused"}, "charging", TRUE)
             \/ ChargingMoves({"charging", "paused"}, "completed", FALSE)
             \/ ChargingMoves({"charging", "paused"}, "faulted", FALSE)
             \/ ChargingMoves({"faulted"}, "idle", pack.closed)
          /\ Record("charging")
    /\ UNCHANGED <<motor, brake, thermal, range>>

-----------------------------------------------------------------------------
ThermalPower(difference) == Within(-2, 2, difference)
Magnitude(x) == Larger(x, -x)
Auxiliary == Magnitude(thermal.battery) + Magnitude(thermal.powertrain)

(* Heat is moved towards the targets; the battery's operating state is left  *)
(* to its own steps.                                                         *)
SimulateThermalStep(enabled, faulted, packDrift, motorDrift) ==
    /\ pack # Missing /\ motor # Missing /\ thermal # Missing
    /\ pack' = [pack EXCEPT !.temperature = Within(-30, 60, @ + packDrift)]
    /\ motor' = [motor EXCEPT !.temperature = Within(-40, MotorLimit, @ + motorDrift)]
    /\ LET active == enabled /\ ~faulted
           battery == IF active THEN ThermalPower(25 - pack.temperature) ELSE 0
           powertrain == IF active THEN ThermalPower(60 - motor.temperature) ELSE 0
           heats == battery > 0 \/ powertrain > 0
           cools == battery < 0 \/ powertrain < 0
       IN  thermal' = [battery |-> battery, powertrain |-> powertrain,
                       state |-> CASE faulted -> "faulted"
                                   [] heats /\ cools -> "mixed"
                                   [] heats /\ ~cools -> "heating"
                                   [] cools /\ ~heats -> "cooling"
                                   [] OTHER -> "standby"]
    /\ Record("thermal")
    /\ UNCHANGED <<brake, charging, range>>

\* A cycle is completed if it used energy and there is some above the reserve.
SimulateRangeCycle(traction, recovered) ==
    /\ pack # Missing /\ thermal # Missing /\ range # Missing
    /\ LET net == Larger(0, traction + Auxiliary - recovered)
           available == Larger(0, pack.soc - Reserve)
       IN  range' = [available |-> available,
                     state |-> IF net > 0 /\ available > 0 THEN "completed" ELSE "limited"]
    /\ Record("range")
    /\ UNCHANGED <<pack, motor, brake, charging, thermal>>

\* Overtemperature of the battery, on all aggregates at once.
ExecuteOvertemperatureScenario(temperature) ==
    /\ pack # Missing /\ motor # Missing /\ brake # Missing
    /\ charging # Missing /\ thermal # Missing /\ range # Missing
    /\ pack' = [pack EXCEPT !.temperature = temperature, !.state = "protection", !.closed = FALSE]
    /\ motor' = [motor EXCEPT !.torque = 0, !.state = "protection"]
    /\ brake' = [brake EXCEPT !.regen = 0, !.state = "friction"]
    /\ charging' = [charging EXCEPT !.requested = 0, !.state = "faulted"]
    /\ thermal' = [thermal EXCEPT !.state = "cooling", !.battery = -2]
    /\ range' = [range EXCEPT !.state = "limited"]
    /\ Record("scenario")

-----------------------------------------------------------------------------
Create ==
    \/ \E soc \in Charges, t \in Temperatures : CreateBatteryPack(soc, t)
    \/ CreateMotorInverter(25) \/ CreateRegenerativeBrake
    \/ CreateChargingSystem \/ CreateThermalManagement \/ CreateRangeEstimator

EnergyCommand ==
    \/ \E current \in Currents, drift \in Drifts : SimulateBatteryStep(current, drift)
    \/ \E request \in Torques, speed \in Speeds, factor \in {60, 85, 100}, drift \in Drifts :
         SimulateMotorStep(request, speed, factor, 3 * drift)
    \/ \E request \in Forces, speed \in {0, 2} : SimulateBrakeStep(request, speed)
    \/ \E target \in Targets, connector \in {"ac", "dc"}, power \in {0, 20} :
         ExecuteChargingCommand(target, connector, power)
    \/ \E enabled, faulted \in BOOLEAN, d, e \in Drifts : SimulateThermalStep(enabled, faulted, d, e)
    \/ \E traction \in {0, 15}, recovered \in {0, 5} : SimulateRangeCycle(traction, recovered)
    \/ \E t \in {60, 80} : ExecuteOvertemperatureScenario(t)

EnergyStep == Create \/ EnergyCommand

-----------------------------------------------------------------------------
(* Every aggregate within its bounds; one is there only with those it reads. *)
EnergyTypeOK ==
    /\ pack # Missing => pack \in PackRow
    /\ motor # Missing => motor \in MotorRow /\ pack # Missing
    /\ brake # Missing => brake \in BrakeRow /\ motor # Missing
    /\ charging # Missing => charging \in ChargingRow /\ pack # Missing
    /\ thermal # Missing => thermal \in ThermalRow /\ motor # Missing
    /\ range # Missing => range \in RangeRow /\ thermal # Missing
    /\ ledger \in Ledger

(* EV-F-038, EV-F-049: the charge is what the pack began                     *)
(* with, less what battery steps drew, plus what brake steps report as       *)
(* recovered and sessions as charged.  No energy that a step reports is cut  *)
(* off afterwards by the limit of 95 percent or the target of the session.   *)
EnergyIsAccounted ==
    /\ EnergyTypeOK
    /\ pack # Missing =>
         pack.soc = ledger.initial - ledger.drawn + ledger.charged
                    + (IF brake = Missing THEN 0 ELSE brake.recovered)
=============================================================================
