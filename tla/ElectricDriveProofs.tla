------------------------- MODULE ElectricDriveProofs -------------------------
(* The electric vehicle: the accounting of its energy and the acceptance of   *)
(* charge for any inputs, the cover of the physics by the outcomes offered to *)
(* the requests, and the serialisation of any number of overlapping requests. *)
EXTENDS ElectricDrive, FiniteSetTheorems, TLAPS

\* The accounting invariant, inductive: a pack that is not there gave no energy.
EnergyInv ==
    /\ EnergyIsAccounted
    /\ pack = Missing => ledger.drawn = 0 /\ ledger.charged = 0

\* ChargeIsAccepted, of one step.
ChargeStep == pack # Missing /\ pack'.soc > pack.soc /\ ledger'.kind # "battery" => Chargeable(pack)

\* The ranges of the aggregates, as inequalities.
LEMMA Ranges ==
    /\ \A x : x \in Percent <=> x \in Int /\ 0 <= x /\ x <= 100
    /\ \A x : x \in Degrees <=> x \in Int /\ -40 <= x /\ x <= 80
BY DEF Percent, Degrees

\* A share of the current limit: tapering never yields a negative or fractional power.
LEMMA Shares ==
    ASSUME NEW x \in Nat, NEW span \in Nat \ {0}, NEW limit \in {15, 30}, NEW halves \in {1, 2}
    PROVE  (limit * x * halves) \div (2 * span) \in Nat
<1>1. limit * x * halves \in Nat /\ 2 * span \in Nat \ {0}
  OBVIOUS
<1>2. \A a \in Nat, b \in Nat \ {0} : a \div b \in Nat
  OBVIOUS
<1>3. QED
  BY <1>1, <1>2

\* _tapered power: a natural number for any pack and any full charge.
LEMMA TaperedIsNat ==
    ASSUME NEW p \in PackRow, NEW full \in Percent
    PROVE  Tapered(p, full) \in Nat
<1>1. p.soc \in Int /\ full \in Int
  BY Ranges DEF PackRow
<1>2. CurrentLimit(p) \in {15, 30} /\ Halves(p) \in {1, 2}
  BY DEF CurrentLimit, Halves
<1>3. CASE p.soc <= 80 \/ full - 80 <= 0
  BY <1>1, <1>2, <1>3, Shares DEF Tapered
<1>4. CASE ~(p.soc <= 80 \/ full - 80 <= 0)
  <2>1. Larger(0, full - p.soc) \in Nat /\ full - 80 \in Nat \ {0}
    BY <1>1, <1>4 DEF Larger
  <2>2. Tapered(p, full) = (CurrentLimit(p) * Larger(0, full - p.soc) * Halves(p)) \div (2 * (full - 80))
    BY <1>4 DEF Tapered
  <2>3. (CurrentLimit(p) * Larger(0, full - p.soc) * Halves(p)) \div (2 * (full - 80)) \in Nat
    BY ONLY <1>2, <2>1, Shares, Zenon
  <2>4. QED
    BY ONLY <2>2, <2>3, Zenon
<1>5. QED
  BY <1>3, <1>4

\* What the invariant says of the pack's numbers.
LEMMA PackNumbers ==
    ASSUME EnergyInv, pack # Missing
    PROVE  /\ pack \in PackRow /\ pack.soc \in Int /\ 0 <= pack.soc /\ pack.soc <= 100
           /\ ledger.initial \in Int /\ ledger.drawn \in Int /\ ledger.charged \in Nat
           /\ brake # Missing => brake.recovered \in Nat
BY Ranges DEF EnergyInv, EnergyIsAccounted, EnergyTypeOK, PackRow, Ledger, BrakeRow

\* A create endpoint: a new aggregate beside those it reads.
LEMMA CreateEnergy ==
    ASSUME EnergyInv, Create
    PROVE  EnergyInv' /\ ChargeStep
<1> USE EnergyAssumption DEF EnergyInv, EnergyIsAccounted, EnergyTypeOK, ChargeStep
<1>1. CASE \E soc \in Charges, t \in Temperatures : CreateBatteryPack(soc, t)
  <2> PICK soc \in Charges, t \in Temperatures : CreateBatteryPack(soc, t)
    BY <1>1
  <2>1. pack' \in PackRow /\ pack'.soc = soc /\ soc \in Int
    BY Ranges DEF CreateBatteryPack, PackRow
  <2>2. /\ ledger' \in Ledger /\ ledger'.initial = soc
        /\ ledger'.drawn = 0 /\ ledger'.charged = 0
    BY <2>1 DEF CreateBatteryPack, Ledger
  <2>3. brake' = Missing
    BY DEF CreateBatteryPack
  <2>4. QED
    BY <2>1, <2>2, <2>3 DEF CreateBatteryPack
<1>2. CASE CreateMotorInverter(25)
  BY <1>2, PackNumbers DEF CreateMotorInverter, MotorRow, MaxTorque
<1>3. CASE CreateRegenerativeBrake
  <2>1. brake' \in BrakeRow /\ brake'.recovered = 0
    BY <1>3 DEF CreateRegenerativeBrake, BrakeRow, TorqueCap, FrictionCap
  <2>2. pack.soc \in Int /\ ledger.initial \in Int /\ ledger.drawn \in Int /\ ledger.charged \in Int
    BY <1>3, Ranges DEF CreateRegenerativeBrake, PackRow, Ledger
  <2>3. QED
    BY <1>3, <2>1, <2>2 DEF CreateRegenerativeBrake
<1>4. CASE CreateChargingSystem
  <2>1. charging' \in ChargingRow
    BY <1>4, Ranges DEF CreateChargingSystem, ChargingRow
  <2>2. QED
    BY <1>4, <2>1, PackNumbers DEF CreateChargingSystem
<1>5. CASE CreateThermalManagement
  <2>1. thermal' \in ThermalRow
    BY <1>5 DEF CreateThermalManagement, ThermalRow
  <2>2. QED
    BY <1>5, <2>1, PackNumbers DEF CreateThermalManagement
<1>6. CASE CreateRangeEstimator
  BY <1>6, PackNumbers DEF CreateRangeEstimator, RangeRow
<1>7. QED
  BY <1>1, <1>2, <1>3, <1>4, <1>5, <1>6 DEF Create

\* A command that is recorded leaves a well-formed ledger with its kind and its energy.
LEMMA LedgerOf ==
    ASSUME ledger \in Ledger, NEW kind \in Commands, NEW drawn \in Int, NEW charged \in Nat,
           \/ Record(kind) /\ drawn = ledger.drawn /\ charged = ledger.charged
           \/ /\ ledger' = [ledger EXCEPT !.drawn = drawn, !.commands = @ + 1, !.kind = kind]
              /\ charged = ledger.charged
           \/ /\ ledger' = [ledger EXCEPT !.charged = charged, !.commands = @ + 1, !.kind = kind]
              /\ drawn = ledger.drawn
    PROVE  /\ ledger' \in Ledger
           /\ ledger'.initial = ledger.initial /\ ledger'.kind = kind
           /\ ledger'.drawn = drawn /\ ledger'.charged = charged
<1>1. ledger.commands + 1 \in Nat /\ kind \in Commands \cup {"none"}
  BY DEF Ledger
<1>2. CASE Record(kind) /\ drawn = ledger.drawn /\ charged = ledger.charged
  <2>1. ledger' \in Ledger
    BY <1>1, <1>2, Zenon DEF Ledger, Record
  <2>2. QED
    BY <1>2, <2>1 DEF Ledger, Record
<1>3. CASE /\ ledger' = [ledger EXCEPT !.drawn = drawn, !.commands = @ + 1, !.kind = kind]
           /\ charged = ledger.charged
  <2>1. ledger' \in Ledger
    BY <1>1, <1>3, Zenon DEF Ledger
  <2>2. QED
    BY <1>3, <2>1 DEF Ledger
<1>4. CASE /\ ledger' = [ledger EXCEPT !.charged = charged, !.commands = @ + 1, !.kind = kind]
           /\ drawn = ledger.drawn
  <2>1. ledger' \in Ledger
    BY <1>1, <1>4, Zenon DEF Ledger
  <2>2. QED
    BY <1>4, <2>1 DEF Ledger
<1>5. QED
  BY <1>2, <1>3, <1>4

\* The charge moves by what is drawn, and stops at empty and full.
LEMMA BatteryStep ==
    ASSUME EnergyInv, NEW current \in Int, NEW drift \in Int, SimulateBatteryStep(current, drift)
    PROVE  EnergyInv' /\ ChargeStep
<1> DEFINE soc == Within(0, 100, pack.soc - current)
           temperature == Within(-30, 60, pack.temperature + drift)
           drawn == ledger.drawn + pack.soc - soc
<1>1. /\ pack # Missing /\ pack'.soc = soc
      /\ pack' = [soc |-> soc, temperature |-> temperature, closed |-> pack'.closed, state |-> pack'.state]
      /\ pack'.closed \in BOOLEAN /\ pack'.state \in {"normal", "warning", "protection"}
      /\ UNCHANGED <<motor, brake, charging, thermal, range>>
  BY DEF SimulateBatteryStep
<1>7. ledger' = [ledger EXCEPT !.drawn = drawn, !.commands = @ + 1, !.kind = "battery"]
  BY DEF SimulateBatteryStep
<1>2. soc \in Int /\ 0 <= soc /\ soc <= 100 /\ temperature \in Int /\ -40 <= temperature /\ temperature <= 80
  <2>1. pack.soc \in Int /\ pack.temperature \in Int
    BY <1>1, PackNumbers, Ranges DEF PackRow
  <2>2. QED
    BY <2>1 DEF Within, Smaller, Larger
<1>3. pack' \in PackRow
  BY <1>1, <1>2, Ranges DEF PackRow
<1>4. drawn \in Int
  BY <1>1, <1>2, PackNumbers
<1>5. /\ ledger' \in Ledger /\ ledger'.initial = ledger.initial /\ ledger'.kind = "battery"
      /\ ledger'.drawn = drawn /\ ledger'.charged = ledger.charged
  <2> HIDE DEF drawn
  <2>1. ledger \in Ledger /\ ledger.charged \in Nat /\ "battery" \in Commands
    BY <1>1, PackNumbers DEF EnergyInv, EnergyIsAccounted, EnergyTypeOK, Commands
  <2>2. /\ ledger' = [ledger EXCEPT !.drawn = drawn, !.commands = @ + 1, !.kind = "battery"]
        /\ ledger.charged = ledger.charged
    BY <1>7
  <2>3. QED
    BY <1>4, <2>1, <2>2, LedgerOf
<1> HIDE DEF soc, temperature
<1>6. QED
  BY <1>1, <1>2, <1>3, <1>5, PackNumbers, EnergyAssumption
     DEF EnergyInv, EnergyIsAccounted, EnergyTypeOK, ChargeStep

\* A step that leaves the charge alone and keeps every aggregate a row.
LEMMA ChargeKept ==
    ASSUME EnergyInv, NEW kind \in Commands, Record(kind),
           pack # Missing, pack' \in PackRow, pack'.soc = pack.soc,
           motor # Missing => motor' \in MotorRow, motor = Missing => motor' = Missing,
           brake # Missing => brake' \in BrakeRow /\ brake'.recovered = brake.recovered,
           brake = Missing => brake' = Missing,
           charging # Missing => charging' \in ChargingRow, charging = Missing => charging' = Missing,
           thermal # Missing => thermal' \in ThermalRow, thermal = Missing => thermal' = Missing,
           range # Missing => range' \in RangeRow, range = Missing => range' = Missing
    PROVE  EnergyInv' /\ ChargeStep
<1>1. ledger \in Ledger
  BY DEF EnergyInv, EnergyIsAccounted, EnergyTypeOK
<1>2. /\ ledger' \in Ledger /\ ledger'.initial = ledger.initial
      /\ ledger'.drawn = ledger.drawn /\ ledger'.charged = ledger.charged
  BY <1>1, LedgerOf, PackNumbers
<1>3. EnergyTypeOK'
  BY <1>2, EnergyAssumption DEF EnergyInv, EnergyIsAccounted, EnergyTypeOK
<1>4. QED
  BY <1>2, <1>3, PackNumbers, EnergyAssumption DEF EnergyInv, EnergyIsAccounted, EnergyTypeOK, ChargeStep

\* simulate_motor_step: the battery is only read.
LEMMA MotorStep ==
    ASSUME EnergyInv, NEW torque \in Torques, NEW speed, NEW factor \in {60, 85, 100}, NEW drift \in Int,
           SimulateMotorStep(torque, speed, factor, drift)
    PROVE  EnergyInv' /\ ChargeStep
<1> DEFINE available == BatteryPowerLimit(pack)
           mode == (MaxTorque * factor) \div 100
           limit == IF speed = 2 \/ available = 0 THEN 0
                    ELSE IF speed = 1 THEN Smaller(mode, available) ELSE mode
           temperature == motor.temperature + drift
<1>1. /\ pack # Missing /\ motor # Missing /\ Record("motor")
      /\ UNCHANGED <<pack, brake, charging, thermal, range>>
      /\ motor' = IF temperature >= MotorLimit
                    THEN [temperature |-> MotorLimit, torque |-> 0, state |-> "protection"]
                    ELSE [temperature |-> temperature, torque |-> Smaller(torque, limit),
                          state |-> IF limit < mode \/ limit < torque THEN "derated" ELSE "ready"]
  BY DEF SimulateMotorStep
<1>2. mode \in Int /\ 0 <= mode /\ mode <= 100
  BY DEF MaxTorque
<1>3. limit \in Int /\ 0 <= limit /\ limit <= 100
  <2>1. available \in {0, 60, 100}
    BY DEF BatteryPowerLimit
  <2> HIDE DEF mode, available
  <2>2. QED
    BY <1>2, <2>1 DEF Smaller
<1> HIDE DEF mode, limit
<1>4. Smaller(torque, limit) \in 0..MaxTorque /\ 0 \in 0..MaxTorque
  <2>1. torque \in Nat /\ MaxTorque = 100
    BY EnergyAssumption DEF MaxTorque
  <2>2. QED
    BY <1>3, <2>1 DEF Smaller
<1>5. temperature \in Int /\ MotorLimit \in Int
  BY <1>1 DEF EnergyInv, EnergyIsAccounted, EnergyTypeOK, MotorRow, MotorLimit
<1>6. motor' \in MotorRow
  <2> HIDE DEF temperature
  <2>1. CASE temperature >= MotorLimit
    BY <1>1, <1>4, <1>5, <2>1 DEF MotorRow
  <2>2. CASE ~(temperature >= MotorLimit)
    BY <1>1, <1>4, <1>5, <2>2 DEF MotorRow
  <2>3. QED
    BY <2>1, <2>2
<1> HIDE DEF temperature
<1>7. QED
  <2>1. /\ pack # Missing /\ motor # Missing /\ Record("motor")
        /\ UNCHANGED <<pack, brake, charging, thermal, range>>
    BY DEF SimulateMotorStep
  <2>2. EnergyTypeOK
    BY DEF EnergyInv, EnergyIsAccounted
  <2>3. QED
    <3>1. "motor" \in Commands
      BY DEF Commands
    <3>2. QED
      BY <1>6, <2>1, <2>2, <3>1, ChargeKept DEF EnergyTypeOK

\* Braking fills the battery no further than it accepts.
LEMMA BrakeAcceptance ==
    ASSUME NEW p \in PackRow
    PROVE  /\ AcceptedByBrake(p) \in Nat
           /\ AcceptedByBrake(p) > 0 => Chargeable(p) /\ p.soc + AcceptedByBrake(p) <= 95
<1>1. p.soc \in Int
  BY Ranges DEF PackRow
<1>2. Tapered(p, 95) \in Nat
  <2>1. 95 \in Percent
    BY Ranges
  <2>2. QED
    BY <2>1, TaperedIsNat
<1>3. BatteryChargeAcceptance(p) \in Nat /\ (BatteryChargeAcceptance(p) > 0 => Chargeable(p))
  BY <1>1, <1>2 DEF BatteryChargeAcceptance, Smaller, MaxRegen
<1>4. QED
  BY <1>1, <1>3 DEF AcceptedByBrake, Smaller, Larger

\* The blend of a brake step: each force within its limit, and no more recovered than accepted.
LEMMA ForcesAreWithinLimits ==
    ASSUME NEW force \in Nat, NEW speed \in {0, 2}, NEW accepted \in Nat
    PROVE  LET f == BrakeForces(force, speed, accepted)
           IN  /\ f.regen \in 0..TorqueCap /\ f.friction \in 0..FrictionCap
               /\ f.regen * speed \in Nat /\ f.regen * speed <= accepted
<1> DEFINE f == BrakeForces(force, speed, accepted)
<1>1. TorqueCap \in Nat /\ FrictionCap \in Nat
  BY DEF TorqueCap, FrictionCap
<1>2. /\ f.regen = IF speed = 0 \/ accepted = 0 THEN 0
                   ELSE Smaller(force, Smaller(TorqueCap, accepted \div speed))
      /\ f.friction = Smaller(force - f.regen, FrictionCap)
  BY DEF BrakeForces
<1> HIDE DEF f
<1>3. f.regen \in Nat /\ f.regen <= TorqueCap /\ f.regen <= force /\ f.regen * speed <= accepted
  <2>1. CASE speed = 0 \/ accepted = 0
    BY <1>1, <1>2, <2>1
  <2>2. CASE speed = 2 /\ accepted # 0
    <3>1. accepted \div 2 \in Nat /\ 2 * (accepted \div 2) <= accepted
      OBVIOUS
    <3>2. f.regen = Smaller(force, Smaller(TorqueCap, accepted \div 2))
      BY <1>2, <2>2
    <3>3. f.regen \in Nat /\ f.regen <= TorqueCap /\ f.regen <= force /\ f.regen <= accepted \div 2
      BY <1>1, <3>1, <3>2 DEF Smaller
    <3>4. QED
      BY <2>2, <3>1, <3>3
  <2>3. QED
    BY <2>1, <2>2
<1>4. f.friction \in Nat /\ f.friction <= FrictionCap
  BY <1>1, <1>2, <1>3 DEF Smaller
<1>5. f.regen * speed \in Nat
  BY <1>3
<1>6. QED
  BY <1>1, <1>3, <1>4, <1>5 DEF f

\* simulate_brake_step: what it reports as recovered arrives in the pack.
LEMMA BrakeStep ==
    ASSUME EnergyInv, NEW force \in Forces, NEW speed \in {0, 2}, SimulateBrakeStep(force, speed)
    PROVE  EnergyInv' /\ ChargeStep
<1> DEFINE accepted == AcceptedByBrake(pack)
           f == BrakeForces(force, speed, accepted)
           recovered == f.regen * speed
<1>1. /\ pack # Missing /\ motor # Missing /\ brake # Missing /\ Record("brake")
      /\ UNCHANGED <<motor, charging, thermal, range>>
      /\ pack' = IF recovered = 0 THEN pack ELSE [pack EXCEPT !.soc = Smaller(95, @ + recovered)]
      /\ brake' = [recovered |-> brake.recovered + recovered, regen |-> f.regen,
                   friction |-> f.friction, state |-> BrakeState(force, f)]
  BY DEF SimulateBrakeStep
<1>2. accepted \in Nat /\ (accepted > 0 => Chargeable(pack) /\ pack.soc + accepted <= 95)
  BY <1>1, PackNumbers, BrakeAcceptance
<1> HIDE DEF accepted
<1>3. /\ f.regen \in 0..TorqueCap /\ f.friction \in 0..FrictionCap
      /\ recovered \in Nat /\ recovered <= accepted
  BY <1>2, EnergyAssumption, ForcesAreWithinLimits
<1>4. BrakeState(force, f) \in {"standby", "limited", "regenerative", "blended", "friction"}
  BY DEF BrakeState
<1> HIDE DEF f, recovered
<1>5. pack.soc \in Int /\ 0 <= pack.soc /\ brake.recovered \in Nat /\ ledger \in Ledger /\ pack \in PackRow
  BY <1>1, PackNumbers DEF EnergyInv, EnergyIsAccounted, EnergyTypeOK
<1>6. pack' \in PackRow /\ pack'.soc = pack.soc + recovered
  <2>1. CASE recovered = 0
    BY <1>1, <1>5, <2>1
  <2>2. CASE recovered # 0
    <3>1. pack' = [pack EXCEPT !.soc = pack.soc + recovered]
      BY <1>1, <1>2, <1>3, <1>5, <2>2 DEF Smaller
    <3>2. pack.soc + recovered \in Percent
      BY <1>2, <1>3, <1>5, <2>2, Ranges
    <3>3. QED
      BY <1>5, <3>1, <3>2 DEF PackRow
  <2>3. QED
    BY <2>1, <2>2
<1>7. brake' \in BrakeRow /\ brake'.recovered = brake.recovered + recovered
  BY <1>1, <1>3, <1>4, <1>5 DEF BrakeRow
<1>8. /\ ledger' \in Ledger /\ ledger'.initial = ledger.initial
      /\ ledger'.drawn = ledger.drawn /\ ledger'.charged = ledger.charged
  <2>1. "brake" \in Commands
    BY DEF Commands
  <2>2. QED
    BY <1>1, <1>5, <2>1, PackNumbers, LedgerOf
<1>9. EnergyTypeOK'
  BY <1>1, <1>6, <1>7, <1>8, EnergyAssumption DEF EnergyInv, EnergyIsAccounted, EnergyTypeOK
<1>10. pack' # Missing /\ brake' # Missing
  BY <1>6, <1>7, EnergyAssumption
<1>11. EnergyIsAccounted'
  BY <1>1, <1>3, <1>5, <1>6, <1>7, <1>8, <1>9, <1>10, PackNumbers DEF EnergyInv, EnergyIsAccounted
<1>12. ChargeStep
  BY <1>2, <1>3, <1>5, <1>6 DEF ChargeStep
<1>13. QED
  BY <1>10, <1>11, <1>12 DEF EnergyInv

\* A charging step charges no more than the battery accepts and the target leaves.
LEMMA SessionEnergy ==
    ASSUME NEW power \in Nat, pack \in PackRow, charging \in ChargingRow
    PROVE  LET step == ChargingStep(power)
           IN  /\ step.requested \in Nat /\ step.energy \in Nat
               /\ step.energy > 0 => Chargeable(pack) /\ pack.soc + step.energy <= charging.target
<1> DEFINE step == ChargingStep(power)
           accepted == ChargingAcceptance(pack, charging)
<1>1. pack.soc \in Int /\ charging.target \in Int /\ charging.target \in Percent /\ charging.requested \in Nat
  BY Ranges DEF PackRow, ChargingRow
<1>2. ConnectorLimit(charging.connector) \in Nat /\ ConnectorLimit(charging.connector) > 0
  BY DEF ConnectorLimit, MaxAC, MaxDC
<1>3. accepted \in Nat /\ (accepted > 0 => Chargeable(pack))
  BY <1>1, <1>2, TaperedIsNat DEF ChargingAcceptance, Smaller
<1>4. step.requested \in Nat
  BY <1>1, <1>2 DEF ChargingStep
<1>5. step.energy = Smaller(step.requested, Smaller(accepted, Larger(0, charging.target - pack.soc)))
  BY DEF ChargingStep
<1> HIDE DEF step, accepted
<1>6. /\ step.energy \in Nat
      /\ step.energy > 0 => Chargeable(pack) /\ pack.soc + step.energy <= charging.target
  BY <1>1, <1>3, <1>4, <1>5 DEF Smaller, Larger
<1>7. QED
  BY <1>4, <1>6 DEF step

\* A charging step of a session.
LEMMA SessionStep ==
    ASSUME EnergyInv, NEW power \in Nat, pack # Missing, charging # Missing, ChargingCharges(power),
           UNCHANGED <<motor, brake, thermal, range>>
    PROVE  EnergyInv' /\ ChargeStep /\ pack' \in PackRow /\ charging' \in ChargingRow
<1> DEFINE step == ChargingStep(power)
           soc == IF step.energy = 0 THEN pack.soc ELSE Smaller(charging.target, pack.soc + step.energy)
           closed == IF Completes(soc) THEN FALSE ELSE pack.closed
           state == IF soc >= charging.target THEN "completed" ELSE charging.state
<1>1. pack' = [pack EXCEPT !.soc = soc, !.closed = closed]
  BY DEF ChargingCharges
<1>2. charging' = [charging EXCEPT !.requested = step.requested, !.energy = @ + step.energy, !.state = state]
  BY DEF ChargingCharges
<1>3. ledger' = [ledger EXCEPT !.charged = @ + step.energy, !.commands = @ + 1, !.kind = "charging"]
  BY DEF ChargingCharges
<1>4. pack \in PackRow /\ charging \in ChargingRow /\ ledger \in Ledger
  BY DEF EnergyInv, EnergyIsAccounted, EnergyTypeOK
<1>5. /\ step.requested \in Nat /\ step.energy \in Nat
      /\ step.energy > 0 => Chargeable(pack) /\ pack.soc + step.energy <= charging.target
  BY <1>4, SessionEnergy
<1> HIDE DEF step
<1>6. pack.soc \in Int /\ charging.target \in Int /\ 0 <= pack.soc /\ charging.target <= 100 /\ pack.soc \in Percent
  BY <1>4, Ranges DEF PackRow, ChargingRow
<1>7. soc = pack.soc + step.energy
  BY <1>5, <1>6 DEF Smaller
<1>8. soc \in Percent
  BY <1>5, <1>6, <1>7, Ranges
<1>9. closed \in BOOLEAN
  BY <1>4 DEF PackRow
<1>10. state \in {"idle", "charging", "paused", "completed", "faulted"}
  BY <1>4 DEF ChargingRow
<1> HIDE DEF soc, closed, state
<1>11. pack' \in PackRow
  BY <1>1, <1>4, <1>8, <1>9, Zenon DEF PackRow
<1>12. pack'.soc = pack.soc + step.energy
  BY <1>1, <1>4, <1>7 DEF PackRow
<1>13. charging' \in ChargingRow
  <2>1. charging.energy + step.energy \in Nat
    BY <1>4, <1>5 DEF ChargingRow
  <2>2. QED
    BY <1>2, <1>4, <1>5, <1>10, <2>1, Zenon DEF ChargingRow
<1>14. /\ ledger' \in Ledger /\ ledger'.initial = ledger.initial
       /\ ledger'.drawn = ledger.drawn /\ ledger'.charged = ledger.charged + step.energy
  <2> DEFINE charged == ledger.charged + step.energy
  <2>1. charged \in Nat /\ ledger.drawn \in Int
    BY <1>4, <1>5 DEF Ledger
  <2>2. "charging" \in Commands
    BY DEF Commands
  <2>3. ledger' = [ledger EXCEPT !.charged = charged, !.commands = @ + 1, !.kind = "charging"]
    BY <1>3
  <2> HIDE DEF charged
  <2>4. ledger' \in Ledger /\ ledger'.initial = ledger.initial /\ ledger'.drawn = ledger.drawn /\ ledger'.charged = charged
    BY <1>4, <2>1, <2>2, <2>3, LedgerOf
  <2>5. QED
    BY <2>4 DEF charged
<1>15. EnergyTypeOK'
  BY <1>11, <1>13, <1>14, EnergyAssumption DEF EnergyInv, EnergyIsAccounted, EnergyTypeOK
<1>16. pack' # Missing
  BY <1>11, EnergyAssumption
<1>17. EnergyIsAccounted'
  BY <1>5, <1>6, <1>12, <1>14, <1>15, PackNumbers DEF EnergyInv, EnergyIsAccounted
<1>18. ChargeStep
  BY <1>5, <1>6, <1>12 DEF ChargeStep
<1>19. QED
  BY <1>11, <1>13, <1>16, <1>17, <1>18 DEF EnergyInv

\* execute_charging_command: what a charge reports arrives in the pack; the other actions move no energy.
LEMMA ChargingCommandStep ==
    ASSUME EnergyInv, NEW target \in Targets, NEW connector \in {"ac", "dc"}, NEW power \in {0, 20},
           ExecuteChargingCommand(target, connector, power)
    PROVE  EnergyInv' /\ ChargeStep /\ pack' \in PackRow /\ charging' \in ChargingRow
<1>1. pack # Missing /\ charging # Missing /\ UNCHANGED <<motor, brake, thermal, range>>
  BY DEF ExecuteChargingCommand
<1>2. pack \in PackRow /\ charging \in ChargingRow
  BY <1>1 DEF EnergyInv, EnergyIsAccounted, EnergyTypeOK
<1>3. CASE ChargingCharges(power)
  BY <1>1, <1>3, SessionStep
<1>4. ASSUME Record("charging"), pack' \in PackRow, pack'.soc = pack.soc, charging' \in ChargingRow
      PROVE  EnergyInv' /\ ChargeStep /\ pack' \in PackRow /\ charging' \in ChargingRow
  <2>1. "charging" \in Commands
    BY DEF Commands
  <2>2. EnergyTypeOK
    BY DEF EnergyInv, EnergyIsAccounted
  <2>3. QED
    BY <1>1, <1>4, <2>1, <2>2, ChargeKept DEF EnergyTypeOK
<1>5. CASE ChargingStarts(target, connector, power) /\ Record("charging")
  <2>1. target \in Percent /\ power \in Nat
    BY EnergyAssumption
  <2>2. charging' \in ChargingRow
    BY <1>5, <2>1 DEF ChargingStarts, ChargingRow
  <2>3. pack' \in PackRow /\ pack'.soc = pack.soc
    BY <1>2, <1>5 DEF ChargingStarts, PackRow
  <2>4. QED
    BY <1>4, <1>5, <2>2, <2>3
<1>6. ASSUME NEW from, NEW to \in {"idle", "charging", "paused", "completed", "faulted"}, NEW closed \in BOOLEAN,
             ChargingMoves(from, to, closed), Record("charging")
      PROVE  EnergyInv' /\ ChargeStep /\ pack' \in PackRow /\ charging' \in ChargingRow
  <2>1. charging' \in ChargingRow
    BY <1>2, <1>6 DEF ChargingMoves, ChargingRow
  <2>2. pack' \in PackRow /\ pack'.soc = pack.soc
    BY <1>2, <1>6 DEF ChargingMoves, PackRow
  <2>3. QED
    BY <1>4, <1>6, <2>1, <2>2
<1>7. pack.closed \in BOOLEAN
  BY <1>2 DEF PackRow
<1>8. QED
  BY <1>3, <1>5, <1>6, <1>7 DEF ExecuteChargingCommand

\* simulate_thermal_step: temperatures move, charge does not.
LEMMA ThermalStep ==
    ASSUME EnergyInv, NEW enabled \in BOOLEAN, NEW faulted \in BOOLEAN, NEW packDrift \in Int, NEW motorDrift \in Int,
           SimulateThermalStep(enabled, faulted, packDrift, motorDrift)
    PROVE  EnergyInv' /\ ChargeStep
<1>1. /\ pack # Missing /\ motor # Missing /\ thermal # Missing
      /\ pack' = [pack EXCEPT !.temperature = Within(-30, 60, @ + packDrift)]
      /\ motor' = [motor EXCEPT !.temperature = Within(-40, MotorLimit, @ + motorDrift)]
      /\ Record("thermal") /\ UNCHANGED <<brake, charging, range>>
  BY DEF SimulateThermalStep
<1>2. pack \in PackRow /\ motor \in MotorRow /\ pack.temperature \in Int /\ motor.temperature \in Int /\ EnergyTypeOK
  BY <1>1, Ranges DEF EnergyInv, EnergyIsAccounted, EnergyTypeOK, PackRow, MotorRow
<1>4. pack' \in PackRow /\ pack'.soc = pack.soc
  <2>1. Within(-30, 60, pack.temperature + packDrift) \in Degrees
    BY <1>2, Ranges DEF Within, Smaller, Larger
  <2>2. QED
    BY <1>1, <1>2, <2>1 DEF PackRow
<1>5. motor' \in MotorRow
  <2>1. Within(-40, MotorLimit, motor.temperature + motorDrift) \in Int
    BY <1>2 DEF MotorLimit, Within, Smaller, Larger
  <2>2. QED
    BY <1>1, <1>2, <2>1 DEF MotorRow
<1>6. thermal' \in ThermalRow
  <2>1. \A x \in Int : ThermalPower(x) \in -2..2
    <3> TAKE x \in Int
    <3>1. -2 <= Within(-2, 2, x) /\ Within(-2, 2, x) <= 2 /\ Within(-2, 2, x) \in Int
      BY DEF Within, Smaller, Larger
    <3>2. QED
      BY <3>1 DEF ThermalPower
  <2>2. ThermalPower(25 - pack.temperature) \in -2..2 /\ ThermalPower(60 - motor.temperature) \in -2..2
    BY <1>2, <2>1
  <2> DEFINE Power(x) == IF enabled /\ ~faulted THEN ThermalPower(x) ELSE 0
             battery == Power(25 - pack.temperature)
             powertrain == Power(60 - motor.temperature)
  <2>3. battery \in -2..2 /\ powertrain \in -2..2
    BY <2>2
  <2>4. /\ thermal' = [battery |-> battery, powertrain |-> powertrain, state |-> thermal'.state]
        /\ thermal'.state \in {"standby", "heating", "cooling", "mixed", "faulted"}
    BY Zenon DEF SimulateThermalStep
  <2> HIDE DEF battery, powertrain
  <2>5. QED
    BY <2>3, <2>4 DEF ThermalRow
<1>7. "thermal" \in Commands
  BY DEF Commands
<1>8. QED
  BY <1>1, <1>2, <1>4, <1>5, <1>6, <1>7, ChargeKept DEF EnergyTypeOK

\* simulate_range_cycle: the estimate reads the pack and changes only itself.
LEMMA RangeStep ==
    ASSUME EnergyInv, NEW traction \in Nat, NEW recovered \in Nat, SimulateRangeCycle(traction, recovered)
    PROVE  EnergyInv' /\ ChargeStep
<1>1. /\ pack # Missing /\ range # Missing /\ Record("range")
      /\ UNCHANGED <<pack, motor, brake, charging, thermal>>
  BY DEF SimulateRangeCycle
<1>2. range' \in RangeRow
  <2>1. Larger(0, pack.soc - Reserve) \in Nat
    BY <1>1, PackNumbers DEF Larger, Reserve
  <2>2. QED
    BY <2>1 DEF SimulateRangeCycle, RangeRow
<1>3. "range" \in Commands /\ EnergyTypeOK
  BY DEF Commands, EnergyInv, EnergyIsAccounted
<1>4. QED
  BY <1>1, <1>2, <1>3, ChargeKept DEF EnergyTypeOK

\* The overtemperature scenario moves every state and no charge.
LEMMA ScenarioStep ==
    ASSUME EnergyInv, NEW temperature \in {60, 80}, ExecuteOvertemperatureScenario(temperature)
    PROVE  EnergyInv' /\ ChargeStep
<1>1. /\ pack # Missing /\ motor # Missing /\ brake # Missing
      /\ charging # Missing /\ thermal # Missing /\ range # Missing /\ Record("scenario")
  BY DEF ExecuteOvertemperatureScenario
<1>2. /\ pack \in PackRow /\ motor \in MotorRow /\ brake \in BrakeRow
      /\ charging \in ChargingRow /\ thermal \in ThermalRow /\ range \in RangeRow
  BY <1>1 DEF EnergyInv, EnergyIsAccounted, EnergyTypeOK
<1>3. temperature \in Degrees
  BY Ranges
<1>4. pack' \in PackRow
  BY <1>2, <1>3, Zenon DEF ExecuteOvertemperatureScenario, PackRow
<1>5. pack'.soc = pack.soc
  BY <1>2 DEF ExecuteOvertemperatureScenario, PackRow
<1>6. motor' \in MotorRow
  <2>1. 0 \in 0..MaxTorque
    BY DEF MaxTorque
  <2>2. QED
    BY <1>2, <2>1, Zenon DEF ExecuteOvertemperatureScenario, MotorRow
<1>7. brake' \in BrakeRow
  <2>1. 0 \in 0..TorqueCap
    BY DEF TorqueCap
  <2>2. QED
    BY <1>2, <2>1, Zenon DEF ExecuteOvertemperatureScenario, BrakeRow
<1>8. brake'.recovered = brake.recovered
  BY <1>2 DEF ExecuteOvertemperatureScenario, BrakeRow
<1>9. charging' \in ChargingRow
  <2>1. 0 \in Nat
    OBVIOUS
  <2>2. QED
    BY <1>2, <2>1, Zenon DEF ExecuteOvertemperatureScenario, ChargingRow
<1>10. thermal' \in ThermalRow
  <2>1. -2 \in -2..2
    OBVIOUS
  <2>2. QED
    BY <1>2, <2>1, Zenon DEF ExecuteOvertemperatureScenario, ThermalRow
<1>11. range' \in RangeRow
  BY <1>2, Zenon DEF ExecuteOvertemperatureScenario, RangeRow
<1>12. "scenario" \in Commands
  BY DEF Commands
<1>13. QED
  BY <1>1, <1>4, <1>5, <1>6, <1>7, <1>8, <1>9, <1>10, <1>11, <1>12, ChargeKept

\* One command of the physics keeps the energy accounted and charges only a pack that accepts it.
LEMMA EnergyStepHolds ==
    ASSUME EnergyInv, EnergyStep
    PROVE  EnergyInv' /\ ChargeStep
<1> USE EnergyAssumption
<1>1. CASE Create
  BY <1>1, CreateEnergy
<1>2. CASE \E current \in Currents, drift \in Drifts : SimulateBatteryStep(current, drift)
  BY <1>2, BatteryStep
<1>3. CASE \E torque \in Torques, speed \in Speeds, factor \in {60, 85, 100}, drift \in Drifts :
              SimulateMotorStep(torque, speed, factor, 3 * drift)
  <2> PICK torque \in Torques, speed \in Speeds, factor \in {60, 85, 100}, drift \in Drifts :
              SimulateMotorStep(torque, speed, factor, 3 * drift)
    BY <1>3
  <2>1. 3 * drift \in Int
    OBVIOUS
  <2>2. QED
    BY <2>1, MotorStep
<1>4. CASE \E force \in Forces, speed \in {0, 2} : SimulateBrakeStep(force, speed)
  BY <1>4, BrakeStep
<1>5. CASE \E target \in Targets, connector \in {"ac", "dc"}, power \in {0, 20} :
              ExecuteChargingCommand(target, connector, power)
  BY <1>5, ChargingCommandStep
<1>6. CASE \E enabled, faulted \in BOOLEAN, d, e \in Drifts : SimulateThermalStep(enabled, faulted, d, e)
  BY <1>6, ThermalStep
<1>7. CASE \E traction \in {0, 15}, recovered \in {0, 5} : SimulateRangeCycle(traction, recovered)
  BY <1>7, RangeStep
<1>8. CASE \E t \in {60, 80} : ExecuteOvertemperatureScenario(t)
  BY <1>8, ScenarioStep
<1>9. QED
  BY <1>1, <1>2, <1>3, <1>4, <1>5, <1>6, <1>7, <1>8 DEF EnergyStep, EnergyCommand
-----------------------------------------------------------------------------
(* The physics does what the requests are offered                            *)

\* The state of the charging session, and what the requests see of the physics.
Session(c) == IF c = Missing THEN "idle" ELSE c.state

View(session, protection, closed) ==
    [r \in Rows |-> [version |-> 1,
                     protection |-> IF r = "pack" THEN protection ELSE FALSE,
                     closed |-> IF r = "pack" THEN closed ELSE FALSE,
                     state |-> IF r = "charging" THEN session ELSE "idle"]]

\* A row with one field replaced.
Row(version, protection, closed, state) ==
    [version |-> version, protection |-> protection, closed |-> closed, state |-> state]

\* Updates of a row, field by field.
LEMMA RowUpdates ==
    ASSUME NEW v, NEW n, NEW a, NEW b, NEW c, NEW x, v = Row(n, a, b, c)
    PROVE  /\ [v EXCEPT !.version = x] = Row(x, a, b, c)
           /\ [v EXCEPT !.state = x] = Row(n, a, b, x)
           /\ v.version = n /\ v.protection = a /\ v.closed = b /\ v.state = c
BY DEF Row

\* A view is changed as the rows are.
LEMMA ViewIsARow ==
    ASSUME NEW session \in ChargingStates, NEW protection \in BOOLEAN, NEW closed \in BOOLEAN
    PROVE  /\ \A p, c \in BOOLEAN : WithPack(View(session, protection, closed), p, c) = View(session, p, c)
           /\ \A next \in ChargingStates : WithCharging(View(session, protection, closed), next) = View(next, protection, closed)
           /\ View(session, protection, closed)["pack"].protection = protection
           /\ View(session, protection, closed)["pack"].closed = closed
           /\ View(session, protection, closed)["charging"].state = session
<1> DEFINE s == View(session, protection, closed)
<1>1. ASSUME NEW p \in BOOLEAN, NEW c \in BOOLEAN
      PROVE  WithPack(s, p, c) = View(session, p, c)
  <2>1. s["pack"] = Row(1, protection, closed, "idle")
    BY DEF View, Rows, Row
  <2>2. s["pack"].version = 1 /\ s["pack"].state = "idle"
    BY DEF View, Rows
  <2>3. WithPack(s, p, c) = [s EXCEPT !["pack"] = Row(1, p, c, "idle")]
    BY <2>2, Zenon DEF WithPack, Row
  <2>4. [s EXCEPT !["pack"] = Row(1, p, c, "idle")] = [r \in Rows |-> IF r = "pack" THEN Row(1, p, c, "idle") ELSE s[r]]
    BY DEF View
  <2>5. QED
    BY <2>3, <2>4 DEF View, Row
<1>2. ASSUME NEW next \in ChargingStates
      PROVE  WithCharging(s, next) = View(next, protection, closed)
  <2>0. PICK no \in BOOLEAN : no = FALSE
    OBVIOUS
  <2>1. s["charging"] = Row(1, no, no, session)
    BY <2>0 DEF View, Rows, Row
  <2>2. [s["charging"] EXCEPT !.state = next] = Row(1, no, no, next)
    <3> HIDE DEF s
    <3> QED
      BY <2>1, RowUpdates
  <2>3. WithCharging(s, next) = [s EXCEPT !["charging"] = Row(1, no, no, next)]
    BY <2>2, Zenon DEF WithCharging
  <2>4. [s EXCEPT !["charging"] = Row(1, no, no, next)] = [r \in Rows |-> IF r = "charging" THEN Row(1, no, no, next) ELSE s[r]]
    BY DEF View
  <2>5. QED
    BY <2>0, <2>3, <2>4 DEF View, Row
<1>3. QED
  BY <1>1, <1>2 DEF View, Rows

\* The rows that the requests lock, in the form the cases below compare.
LEMMA AbstractIsView ==
    ASSUME NEW p, NEW c, p.closed \in BOOLEAN, Session(c) \in ChargingStates
    PROVE  Abstract(p, c) = View(Session(c), p.state = "protection", p.closed)
<1>1. [r \in Rows |-> [version |-> 1, protection |-> FALSE, closed |-> FALSE, state |-> "idle"]]
      = View("idle", FALSE, FALSE)
  BY DEF View, Rows
<1>2. PICK no \in BOOLEAN : no = FALSE
  OBVIOUS
<1>3. PICK protection \in BOOLEAN : protection = (p.state = "protection")
  <2>1. (p.state = "protection") \in BOOLEAN
    OBVIOUS
  <2>2. QED
    BY <2>1, Zenon
<1>4. WithCharging(View("idle", no, no), Session(c)) = View(Session(c), no, no)
  BY ViewIsARow DEF ChargingStates
<1>5. WithPack(View(Session(c), no, no), protection, p.closed) = View(Session(c), protection, p.closed)
  BY ViewIsARow
<1>6. Session(c) = IF c = Missing THEN "idle" ELSE c.state
  BY DEF Session
<1>7. WithPack(WithCharging(View("idle", no, no), Session(c)), protection, p.closed)
      = View(Session(c), protection, p.closed)
  BY <1>4, <1>5, Zenon
<1>8. QED
  BY <1>1, <1>2, <1>3, <1>6, <1>7, Zenon DEF Abstract

\* Bumping versions changes nothing else.
LEMMA BumpedView ==
    ASSUME NEW session \in ChargingStates, NEW protection \in BOOLEAN, NEW closed \in BOOLEAN,
           NEW changed \in SUBSET Rows
    PROVE  /\ \A r \in Rows : Unversioned(Bump(View(session, protection, closed), changed)[r])
                               = View(session, protection, closed)[r]
           /\ \A r \in changed : Bump(View(session, protection, closed), changed)[r].version > 1
<1> DEFINE v == View(session, protection, closed)
           e == Bump(v, changed)
<1>1. ASSUME NEW r \in Rows
      PROVE  v[r] = Row(1, v[r].protection, v[r].closed, v[r].state)
  BY DEF View, Row
<1>2. ASSUME NEW r \in Rows
      PROVE  Unversioned(e[r]) = v[r] /\ (r \in changed => e[r].version = 2)
  <2>1. CASE r \in changed
    <3>1. e[r] = [v[r] EXCEPT !.version = v[r].version + 1]
      BY <2>1 DEF Bump
    <3>2. v[r].version = 1 /\ v[r].version + 1 = 2
      BY DEF View
    <3> HIDE DEF v, e
    <3>3. e[r] = Row(2, v[r].protection, v[r].closed, v[r].state)
      BY <1>1, <3>1, <3>2, RowUpdates
    <3>4. Unversioned(e[r]) = Row(1, v[r].protection, v[r].closed, v[r].state) /\ e[r].version = 2
      BY <3>3, RowUpdates DEF Unversioned
    <3>5. QED
      BY <1>1, <3>4
  <2>2. CASE r \notin changed
    <3>1. e[r] = v[r]
      BY <2>2 DEF Bump
    <3>2. QED
      BY <1>1, <2>2, <3>1, RowUpdates DEF Unversioned
  <2>3. QED
    BY <2>1, <2>2
<1>3. \A r \in Rows : Unversioned(e[r]) = v[r]
  BY <1>2
<1>4. \A r \in changed : e[r].version > 1
  <2>1. \A r \in changed : e[r].version = 2
    BY <1>2
  <2> HIDE DEF e
  <2>2. QED
    BY <2>1
<1>5. QED
  BY <1>3, <1>4, Zenon

\* A row counts as changed only if its aggregate is another one.
LEMMA ChangedRows ==
    /\ Changed \subseteq {"pack", "motor", "brake", "charging", "thermal", "range"}
    /\ "pack" \in Changed => pack' # pack
    /\ "motor" \in Changed => motor' # motor
    /\ "brake" \in Changed => brake' # brake
    /\ "charging" \in Changed => charging' # charging
    /\ "thermal" \in Changed => thermal' # thermal
    /\ "range" \in Changed => range' # range
<1> DEFINE old == <<pack, motor, brake, charging, thermal, range>>
           new == <<pack, motor, brake, charging, thermal, range>>'
           names == <<"pack", "motor", "brake", "charging", "thermal", "range">>
<1>1. Changed = {names[i] : i \in {j \in 1..6 : new[j] # old[j]}}
  BY DEF Changed
<1>2. \A i \in 1..6 : i = 1 \/ i = 2 \/ i = 3 \/ i = 4 \/ i = 5 \/ i = 6
  OBVIOUS
<1>3. QED
  BY <1>1, <1>2

\* A step that is counted as a command is one of the outcomes of its kind.
CoverStep ==
    ledger'.commands > ledger.commands =>
         LET old == Abstract(pack, charging)
             new == Abstract(pack, charging)'
         IN  \E e \in Effects(ledger'.kind, old) :
               /\ \A r \in Rows : Unversioned(e[r]) = new[r]
               /\ \A r \in Changed : e[r].version > 1

\* The session, the protection and the contactors before and after a command of a kind.
Observed(session, session2, a, a2, b, b2, changed, kind) ==
    /\ session \in ChargingStates /\ session2 \in ChargingStates
    /\ a \in BOOLEAN /\ a2 \in BOOLEAN /\ b \in BOOLEAN /\ b2 \in BOOLEAN
    /\ session = Session(charging) /\ session2 = Session(charging')
    /\ a = (pack.state = "protection") /\ a2 = (pack'.state = "protection")
    /\ b = pack.closed /\ b2 = pack'.closed
    /\ changed \in SUBSET Rows /\ Changed \subseteq changed /\ ledger'.kind = kind

\* What it takes for a command to be one of the outcomes offered: the rows match and each changed one is stamped.
LEMMA Offers ==
    ASSUME NEW session, NEW session2, NEW a, NEW a2, NEW b, NEW b2, NEW changed, NEW kind,
           Observed(session, session2, a, a2, b, b2, changed, kind),
           Bump(View(session2, a2, b2), changed) \in Effects(kind, View(session, a, b))
    PROVE  CoverStep
<1> DEFINE e == Bump(View(session2, a2, b2), changed)
<1>1. /\ session = Session(charging) /\ a = (pack.state = "protection") /\ b = pack.closed
      /\ session2 = Session(charging') /\ a2 = (pack'.state = "protection") /\ b2 = pack'.closed
      /\ Changed \subseteq changed /\ ledger'.kind = kind
  BY DEF Observed
<1>2. Abstract(pack, charging) = View(session, a, b)
  <2>1. pack.closed \in BOOLEAN /\ Session(charging) \in ChargingStates
    BY DEF Observed
  <2>2. Abstract(pack, charging) = View(Session(charging), pack.state = "protection", pack.closed)
    BY ONLY <2>1, AbstractIsView
  <2>3. QED
    BY ONLY <1>1, <2>2
<1>3. Abstract(pack', charging') = View(session2, a2, b2)
  <2>1. pack'.closed \in BOOLEAN /\ Session(charging') \in ChargingStates
    BY DEF Observed
  <2>2. Abstract(pack', charging') = View(Session(charging'), pack'.state = "protection", pack'.closed)
    BY ONLY <2>1, AbstractIsView
  <2>3. QED
    BY ONLY <1>1, <2>2
<1>4. session2 \in ChargingStates /\ a2 \in BOOLEAN /\ b2 \in BOOLEAN /\ changed \in SUBSET Rows
  BY DEF Observed
<1>5. /\ \A r \in Rows : Unversioned(e[r]) = View(session2, a2, b2)[r]
      /\ \A r \in changed : e[r].version > 1
  BY ONLY <1>4, BumpedView
<1>6. e \in Effects(ledger'.kind, Abstract(pack, charging))
  BY ONLY <1>1, <1>2, Bump(View(session2, a2, b2), changed) \in Effects(kind, View(session, a, b))
<1> HIDE DEF e
<1>7. /\ \A r \in Rows : Unversioned(e[r]) = Abstract(pack', charging')[r]
      /\ \A r \in Changed : e[r].version > 1
  BY ONLY <1>1, <1>3, <1>5
<1>8. QED
  BY ONLY <1>6, <1>7 DEF CoverStep

\* The outcomes that each kind of command offers, written as rows.
LEMMA EffectsOfViews ==
    ASSUME NEW session \in ChargingStates, NEW a \in BOOLEAN, NEW b \in BOOLEAN,
           NEW p \in BOOLEAN, NEW c \in BOOLEAN
    PROVE  LET s == View(session, a, b)
               both == {"charging", "pack"}
           IN  /\ c = ~p => Bump(View(session, p, c), {"pack"}) \in Effects("battery", s)
               /\ Bump(s, {"motor"}) \in Effects("motor", s)
               /\ Bump(s, {"range"}) \in Effects("range", s)
               /\ Bump(s, {"pack", "motor", "thermal"}) \in Effects("thermal", s)
               /\ Bump(s, {"brake"}) \in Effects("brake", s)
               /\ b /\ ~a => Bump(s, {"brake", "pack"}) \in Effects("brake", s)
               /\ session \in {"idle", "completed"} /\ c = TRUE =>
                    Bump(View("charging", a, c), IF b THEN {"charging"} ELSE both) \in Effects("charging", s)
               /\ session = "charging" => Bump(View("charging", a, b), both) \in Effects("charging", s)
               /\ session = "charging" /\ c = FALSE => Bump(View("paused", a, c), both) \in Effects("charging", s)
               /\ session = "paused" /\ c = TRUE => Bump(View("charging", a, c), both) \in Effects("charging", s)
               /\ session \in {"charging", "paused"} /\ c = FALSE =>
                    /\ Bump(View("completed", a, c), both) \in Effects("charging", s)
                    /\ Bump(View("faulted", a, c), both) \in Effects("charging", s)
               /\ session = "faulted" => Bump(View("idle", a, b), {"charging"}) \in Effects("charging", s)
               /\ p = TRUE /\ c = FALSE => Bump(View("faulted", p, c), Rows) \in Effects("scenario", s)
<1> DEFINE s == View(session, a, b)
           both == {"charging", "pack"}
<1>1. /\ WithPack(s, p, c) = View(session, p, c)
      /\ s["pack"].protection = a /\ s["pack"].closed = b /\ s["charging"].state = session
  BY ViewIsARow
<1>2. \A next \in ChargingStates : WithCharging(s, next) = View(next, a, b)
  BY ViewIsARow
<1>3. \A next \in ChargingStates : WithPack(View(next, a, b), a, c) = View(next, a, c)
  BY ViewIsARow
<1>4. \A next \in ChargingStates : WithPack(View(next, a, b), a, b) = View(next, a, b)
  BY ViewIsARow
<1>5. \A next \in ChargingStates : WithPack(View(next, a, b), p, c) = View(next, p, c)
  BY ViewIsARow
<1>6. \A next \in ChargingStates :
         /\ WithPack(WithCharging(s, next), a, c) = View(next, a, c)
         /\ WithPack(WithCharging(s, next), a, b) = View(next, a, b)
         /\ WithPack(WithCharging(s, next), p, c) = View(next, p, c)
  BY <1>2, <1>3, <1>4, <1>5, Zenon
<1>7. {"idle", "charging", "paused", "completed", "faulted"} = ChargingStates
  BY DEF ChargingStates
<1> HIDE DEF s
<1>8. c = ~p => Bump(View(session, p, c), {"pack"}) \in BatteryEffects(s)
  BY <1>1, Zenon DEF BatteryEffects
<1>9. /\ Bump(s, {"brake"}) \in BrakeEffects(s)
      /\ b /\ ~a => Bump(s, {"brake", "pack"}) \in BrakeEffects(s)
  BY <1>1 DEF BrakeEffects
<1>10. ASSUME NEW from, NEW to \in ChargingStates, session \in from
       PROVE  /\ Bump(View(to, a, c), both) \in ChargingMove(s, from, to, c)
              /\ Bump(View(to, a, b), both) \in ChargingMove(s, from, to, b)
  BY <1>1, <1>6, <1>10, Zenon DEF ChargingMove
<1>11. session \in {"idle", "completed"} /\ c = TRUE =>
          Bump(View("charging", a, c), IF b THEN {"charging"} ELSE both) \in ChargingStart(s)
  BY <1>1, <1>6, <1>7, Zenon DEF ChargingStart
<1>12. session = "faulted" => Bump(View("idle", a, b), {"charging"}) \in ChargingClear(s)
  BY <1>1, <1>2, <1>7, Zenon DEF ChargingClear
<1>13. /\ ChargingMove(s, {"charging"}, "charging", b) \subseteq ChargingEffects(s)
       /\ ChargingMove(s, {"charging"}, "paused", FALSE) \subseteq ChargingEffects(s)
       /\ ChargingMove(s, {"paused"}, "charging", TRUE) \subseteq ChargingEffects(s)
       /\ ChargingMove(s, {"charging", "paused"}, "completed", FALSE) \subseteq ChargingEffects(s)
       /\ ChargingMove(s, {"charging", "paused"}, "faulted", FALSE) \subseteq ChargingEffects(s)
  BY <1>1, Zenon DEF ChargingEffects
<1>14. ChargingStart(s) \subseteq ChargingEffects(s) /\ ChargingClear(s) \subseteq ChargingEffects(s)
  BY Zenon DEF ChargingEffects
<1>15. p = TRUE /\ c = FALSE => Bump(View("faulted", p, c), Rows) \in ScenarioEffects(s)
  BY <1>6, <1>7, Zenon DEF ScenarioEffects
<1>16. /\ Effects("battery", s) = BatteryEffects(s) /\ Effects("range", s) = {Bump(s, {"range"})}
       /\ Effects("motor", s) = {Bump(s, {"motor"})} /\ Effects("brake", s) = BrakeEffects(s)
       /\ Effects("charging", s) = ChargingEffects(s)
       /\ Effects("thermal", s) = {Bump(s, {"pack", "motor", "thermal"})}
       /\ Effects("scenario", s) = ScenarioEffects(s)
  BY DEF Effects
<1>17. /\ session \in {"idle", "completed"} /\ c = TRUE =>
            Bump(View("charging", a, c), IF b THEN {"charging"} ELSE both) \in Effects("charging", s)
       /\ session = "faulted" => Bump(View("idle", a, b), {"charging"}) \in Effects("charging", s)
  BY <1>11, <1>12, <1>14, <1>16, Zenon
<1>18. session = "charging" => Bump(View("charging", a, b), both) \in Effects("charging", s)
  BY <1>7, <1>10, <1>13, <1>16, Zenon
<1>19. session = "charging" /\ c = FALSE => Bump(View("paused", a, c), both) \in Effects("charging", s)
  BY <1>7, <1>10, <1>13, <1>16, Zenon
<1>20. session = "paused" /\ c = TRUE => Bump(View("charging", a, c), both) \in Effects("charging", s)
  BY <1>7, <1>10, <1>13, <1>16, Zenon
<1>21. session \in {"charging", "paused"} /\ c = FALSE =>
          /\ Bump(View("completed", a, c), both) \in Effects("charging", s)
          /\ Bump(View("faulted", a, c), both) \in Effects("charging", s)
  BY <1>7, <1>10, <1>13, <1>16, Zenon
<1>22. /\ Bump(s, {"motor"}) \in Effects("motor", s) /\ Bump(s, {"range"}) \in Effects("range", s)
       /\ Bump(s, {"pack", "motor", "thermal"}) \in Effects("thermal", s)
  BY <1>16, Zenon
<1>23. QED
  BY <1>8, <1>9, <1>15, <1>16, <1>17, <1>18, <1>19, <1>20, <1>21, <1>22, Zenon DEF s

\* The sessions, contactors and protections before and after a command.
LEMMA Views ==
    ASSUME EnergyTypeOK
    PROVE  /\ Session(charging) \in ChargingStates
           /\ pack # Missing => /\ pack.closed \in BOOLEAN
                                /\ pack.state \in {"normal", "warning", "protection"}
BY DEF EnergyTypeOK, Session, ChargingStates, ChargingRow, PackRow

\* An outcome that leaves the charging session, the protection and the contactors.
LEMMA ViewKept ==
    ASSUME EnergyTypeOK, pack # Missing, NEW kind, NEW changed \in SUBSET Rows,
           Session(charging') = Session(charging), pack'.state = pack.state, pack'.closed = pack.closed,
           ledger'.kind = kind, Changed \subseteq changed,
           \A session \in ChargingStates, a, b \in BOOLEAN :
              a = (pack.state = "protection") /\ b = pack.closed =>
                 Bump(View(session, a, b), changed) \in Effects(kind, View(session, a, b))
    PROVE  CoverStep
<1>1. PICK session \in ChargingStates : session = Session(charging)
  BY Views
<1>2. PICK a \in BOOLEAN : a = (pack.state = "protection")
  <2>1. (pack.state = "protection") \in BOOLEAN
    OBVIOUS
  <2>2. QED
    BY <2>1, Zenon
<1>3. PICK b \in BOOLEAN : b = pack.closed
  BY Views
<1>4. session = Session(charging') /\ a = (pack'.state = "protection") /\ b = pack'.closed
  BY <1>1, <1>2, <1>3, Zenon
<1>5. Bump(View(session, a, b), changed) \in Effects(kind, View(session, a, b))
  BY <1>2, <1>3, Zenon
<1>6. Observed(session, session, a, a, b, b, changed, kind)
  BY <1>1, <1>2, <1>3, <1>4 DEF Observed
<1>7. QED
  BY ONLY <1>5, <1>6, Offers

\* A motor step changes the motor row only.
LEMMA MotorCovered ==
    ASSUME EnergyTypeOK, NEW torque, NEW speed, NEW factor, NEW drift,
           SimulateMotorStep(torque, speed, factor, drift)
    PROVE  CoverStep
<1>1. pack # Missing /\ pack' = pack /\ charging' = charging /\ ledger'.kind = "motor" /\ Changed \subseteq {"motor"}
  BY ChangedRows DEF SimulateMotorStep, Record, EnergyTypeOK, Ledger
<1>2. \A session \in ChargingStates, a, b \in BOOLEAN :
         Bump(View(session, a, b), {"motor"}) \in Effects("motor", View(session, a, b))
  BY EffectsOfViews, Zenon
<1>3. {"motor"} \in SUBSET Rows
  BY DEF Rows
<1>4. QED
  BY <1>1, <1>2, <1>3, ViewKept DEF Session

\* A range cycle changes the range row only.
LEMMA RangeCovered ==
    ASSUME EnergyTypeOK, NEW traction, NEW recovered, SimulateRangeCycle(traction, recovered)
    PROVE  CoverStep
<1>1. pack # Missing /\ pack' = pack /\ charging' = charging /\ ledger'.kind = "range" /\ Changed \subseteq {"range"}
  BY ChangedRows DEF SimulateRangeCycle, Record, EnergyTypeOK, Ledger
<1>2. \A session \in ChargingStates, a, b \in BOOLEAN :
         Bump(View(session, a, b), {"range"}) \in Effects("range", View(session, a, b))
  BY EffectsOfViews, Zenon
<1>3. {"range"} \in SUBSET Rows
  BY DEF Rows
<1>4. QED
  BY <1>1, <1>2, <1>3, ViewKept DEF Session

\* A thermal step changes the pack, motor and thermal rows, the protection and contactors of none.
LEMMA ThermalCovered ==
    ASSUME EnergyTypeOK, NEW enabled, NEW faulted, NEW d, NEW e, SimulateThermalStep(enabled, faulted, d, e)
    PROVE  CoverStep
<1>1. /\ pack # Missing /\ charging' = charging /\ ledger'.kind = "thermal"
      /\ Changed \subseteq {"pack", "motor", "thermal"}
  BY ChangedRows DEF SimulateThermalStep, Record, EnergyTypeOK, Ledger
<1>2. pack'.state = pack.state /\ pack'.closed = pack.closed
  BY <1>1 DEF SimulateThermalStep, EnergyTypeOK, PackRow
<1>3. \A session \in ChargingStates, a, b \in BOOLEAN :
         Bump(View(session, a, b), {"pack", "motor", "thermal"}) \in Effects("thermal", View(session, a, b))
  BY EffectsOfViews, Zenon
<1>4. {"pack", "motor", "thermal"} \in SUBSET Rows
  BY DEF Rows
<1>5. QED
  BY <1>1, <1>2, <1>3, <1>4, ViewKept DEF Session

\* A battery step leaves the contactors open exactly in protection, as BatteryEffects has it.
LEMMA BatteryCovered ==
    ASSUME EnergyTypeOK, NEW current, NEW drift, SimulateBatteryStep(current, drift)
    PROVE  CoverStep
<1>1. /\ pack # Missing /\ charging' = charging /\ Changed \subseteq {"pack"}
  BY ChangedRows DEF SimulateBatteryStep
<1>2. ledger'.kind = "battery"
  BY DEF SimulateBatteryStep, EnergyTypeOK, Ledger
<1>3. PICK protection \in BOOLEAN :
         /\ pack'.closed = ~protection
         /\ protection = (pack'.state = "protection")
  <2> DEFINE soc == Within(0, 100, pack.soc - current)
             temperature == Within(-30, 60, pack.temperature + drift)
             protection == \/ temperature \in {-30, 60}
                           \/ soc = 0 /\ current > 0
                           \/ soc = 100 /\ current < 0
             warning == temperature >= 50 \/ temperature <= -20 \/ soc <= 10
  <2>1. pack' = [soc |-> soc, temperature |-> temperature, closed |-> ~protection,
                 state |-> IF protection THEN "protection" ELSE IF warning THEN "warning" ELSE "normal"]
    BY DEF SimulateBatteryStep
  <2>2. protection \in BOOLEAN
    OBVIOUS
  <2> HIDE DEF protection, warning
  <2>3. pack'.closed = ~protection
    BY <2>1
  <2>4. protection = (pack'.state = "protection")
    <3>1. CASE protection
      BY <2>1, <2>2, <3>1
    <3>2. CASE ~protection
      BY <2>1, <2>2, <3>2
    <3>3. QED
      BY <3>1, <3>2
  <2>5. QED
    BY <2>2, <2>3, <2>4, Zenon
<1>4. PICK closed \in BOOLEAN : closed = ~protection
  BY <1>3, Zenon
<1>5. PICK a \in BOOLEAN : a = (pack.state = "protection")
  <2>1. (pack.state = "protection") \in BOOLEAN
    OBVIOUS
  <2>2. QED
    BY <2>1, Zenon
<1>6. PICK b \in BOOLEAN : b = pack.closed
  BY <1>1, Views
<1>7. PICK session \in ChargingStates : session = Session(charging) /\ session = Session(charging')
  BY <1>1, Views
<1>8. Bump(View(session, protection, closed), {"pack"}) \in Effects("battery", View(session, a, b))
  BY ONLY <1>4, EffectsOfViews, Zenon
<1>9. {"pack"} \in SUBSET Rows
  BY DEF Rows
<1>10. closed = pack'.closed
  BY <1>3, <1>4, Zenon
<1>11. closed \in BOOLEAN
  BY <1>4
<1>12. Observed(session, session, a, protection, b, closed, {"pack"}, "battery")
  BY <1>1, <1>2, <1>3, <1>5, <1>6, <1>7, <1>9, <1>10, <1>11 DEF Observed
<1>13. QED
  BY ONLY <1>8, <1>12, Offers

\* An outcome that may change the session, the protection and the contactors.
LEMMA OutcomeOf ==
    ASSUME EnergyTypeOK, pack # Missing, pack' \in PackRow, Session(charging') \in ChargingStates,
           NEW kind, NEW changed \in SUBSET Rows, ledger'.kind = kind, Changed \subseteq changed,
           \A session, session2 \in ChargingStates, a, b, a2, b2 \in BOOLEAN :
              /\ session = Session(charging) /\ session2 = Session(charging')
              /\ a = (pack.state = "protection") /\ a2 = (pack'.state = "protection")
              /\ b = pack.closed /\ b2 = pack'.closed
              => Bump(View(session2, a2, b2), changed) \in Effects(kind, View(session, a, b))
    PROVE  CoverStep
<1>1. PICK session, session2 \in ChargingStates : session = Session(charging) /\ session2 = Session(charging')
  BY Views
<1>2. PICK a, a2 \in BOOLEAN : a = (pack.state = "protection") /\ a2 = (pack'.state = "protection")
  <2>1. (pack.state = "protection") \in BOOLEAN /\ (pack'.state = "protection") \in BOOLEAN
    OBVIOUS
  <2>2. QED
    BY <2>1, Zenon
<1>3. PICK b, b2 \in BOOLEAN : b = pack.closed /\ b2 = pack'.closed
  BY Views DEF PackRow
<1>4. Bump(View(session2, a2, b2), changed) \in Effects(kind, View(session, a, b))
  BY <1>1, <1>2, <1>3, Zenon
<1>5. changed \in SUBSET Rows /\ ledger'.kind = kind /\ Changed \subseteq changed
  OBVIOUS
<1>6. Observed(session, session2, a, a2, b, b2, changed, kind)
  BY <1>1, <1>2, <1>3, <1>5 DEF Observed
<1>7. QED
  BY ONLY <1>4, <1>6, Offers

\* A brake step changes the pack only when it recovered energy, hence through closed contactors.
LEMMA BrakeCovered ==
    ASSUME EnergyTypeOK, NEW force \in Forces, NEW speed \in {0, 2}, SimulateBrakeStep(force, speed)
    PROVE  CoverStep
<1> DEFINE accepted == AcceptedByBrake(pack)
           f == BrakeForces(force, speed, accepted)
           recovered == f.regen * speed
<1>1. /\ pack # Missing /\ Record("brake") /\ charging' = charging
      /\ pack' = IF recovered = 0 THEN pack ELSE [pack EXCEPT !.soc = Smaller(95, @ + recovered)]
      /\ Changed \subseteq {"brake", "pack"}
  BY ChangedRows DEF SimulateBrakeStep
<1>2. pack \in PackRow /\ ledger'.kind = "brake"
  BY <1>1 DEF EnergyTypeOK, Record, Ledger
<1>3. pack'.state = pack.state /\ pack'.closed = pack.closed
  BY <1>1, <1>2 DEF PackRow
<1>4. CASE recovered = 0
  <2>1. Changed \subseteq {"brake"}
    BY <1>1, <1>4, ChangedRows
  <2>2. \A session \in ChargingStates, a, b \in BOOLEAN :
           Bump(View(session, a, b), {"brake"}) \in Effects("brake", View(session, a, b))
    BY EffectsOfViews, Zenon
  <2>3. {"brake"} \in SUBSET Rows
    BY DEF Rows
  <2>4. QED
    BY <1>1, <1>2, <1>3, <2>1, <2>2, <2>3, ViewKept DEF Session
<1>5. CASE recovered # 0
  <2>1. pack.closed = TRUE /\ pack.state # "protection"
    <3>1. accepted \in Nat /\ (accepted > 0 => Chargeable(pack))
      BY <1>2, BrakeAcceptance
    <3> HIDE DEF accepted
    <3>2. recovered \in Nat /\ recovered <= accepted
      BY <3>1, EnergyAssumption, ForcesAreWithinLimits
    <3>3. Chargeable(pack)
      BY <1>5, <3>1, <3>2
    <3>4. QED
      BY <1>2, <3>3 DEF Chargeable, Isolated, PackRow
  <2>2. \A session \in ChargingStates, a, b \in BOOLEAN :
           a = (pack.state = "protection") /\ b = pack.closed =>
              Bump(View(session, a, b), {"brake", "pack"}) \in Effects("brake", View(session, a, b))
    BY <2>1, EffectsOfViews, Zenon
  <2>3. {"brake", "pack"} \in SUBSET Rows
    BY DEF Rows
  <2>4. QED
    BY <1>1, <1>2, <1>3, <2>2, <2>3, ViewKept DEF Session
<1>6. QED
  BY <1>4, <1>5

\* The scenario changes every row, and leaves protection and a faulted session.
LEMMA ScenarioCovered ==
    ASSUME EnergyTypeOK, NEW temperature \in {60, 80}, ExecuteOvertemperatureScenario(temperature)
    PROVE  CoverStep
<1>1. /\ pack # Missing /\ charging # Missing /\ Record("scenario") /\ pack \in PackRow /\ charging \in ChargingRow
  BY DEF ExecuteOvertemperatureScenario, EnergyTypeOK
<1>2. pack'.state = "protection" /\ pack'.closed = FALSE
  BY <1>1 DEF ExecuteOvertemperatureScenario, PackRow
<1>3. pack' \in PackRow
  <2>1. temperature \in Degrees
    BY Ranges
  <2>2. QED
    BY <1>1, <2>1, Zenon DEF ExecuteOvertemperatureScenario, PackRow
<1>4. charging' \in ChargingRow
  <2>1. 0 \in Nat
    OBVIOUS
  <2>2. QED
    BY <1>1, <2>1, Zenon DEF ExecuteOvertemperatureScenario, ChargingRow
<1>5. charging'.state = "faulted"
  BY <1>1 DEF ExecuteOvertemperatureScenario, ChargingRow
<1>6. Session(charging') = "faulted" /\ "faulted" \in ChargingStates
  BY <1>4, <1>5, EnergyAssumption DEF Session, ChargingStates
<1>7. ledger'.kind = "scenario"
  BY <1>1 DEF EnergyTypeOK, Record, Ledger
<1>8. Changed \subseteq Rows
  BY ChangedRows DEF Rows
<1>9. \A session, session2 \in ChargingStates, a, b, a2, b2 \in BOOLEAN :
         session2 = "faulted" /\ a2 = TRUE /\ b2 = FALSE =>
            Bump(View(session2, a2, b2), Rows) \in Effects("scenario", View(session, a, b))
  BY ONLY EffectsOfViews, Zenon
<1>10. (pack'.state = "protection") = TRUE
  BY <1>2
<1>11. \A session, session2 \in ChargingStates, a, b, a2, b2 \in BOOLEAN :
              /\ session = Session(charging) /\ session2 = Session(charging')
              /\ a = (pack.state = "protection") /\ a2 = (pack'.state = "protection")
              /\ b = pack.closed /\ b2 = pack'.closed
              => Bump(View(session2, a2, b2), Rows) \in Effects("scenario", View(session, a, b))
  <2>1. TAKE session, session2 \in ChargingStates, a, b, a2, b2 \in BOOLEAN
  <2>2. HAVE /\ session = Session(charging) /\ session2 = Session(charging')
             /\ a = (pack.state = "protection") /\ a2 = (pack'.state = "protection")
             /\ b = pack.closed /\ b2 = pack'.closed
  <2>3. session2 = "faulted" /\ a2 = TRUE /\ b2 = FALSE
    BY ONLY <1>2, <1>6, <1>10, <2>2
  <2>4. QED
    BY <1>9, <2>3
<1>12. QED
  BY <1>1, <1>3, <1>6, <1>7, <1>8, <1>11, OutcomeOf, Zenon

\* Each charging action leaves a session state and contactors that ChargingEffects offers.
LEMMA ChargingCovered ==
    ASSUME EnergyInv, NEW target \in Targets, NEW connector \in {"ac", "dc"}, NEW power \in {0, 20},
           ExecuteChargingCommand(target, connector, power)
    PROVE  CoverStep
<1>1. /\ pack # Missing /\ charging # Missing /\ pack \in PackRow /\ charging \in ChargingRow
      /\ ledger \in Ledger /\ EnergyTypeOK
      /\ UNCHANGED <<motor, brake, thermal, range>>
  BY DEF ExecuteChargingCommand, EnergyInv, EnergyIsAccounted, EnergyTypeOK
<1>2. pack' \in PackRow /\ charging' \in ChargingRow
  BY ChargingCommandStep
<1>3. /\ Session(charging) = charging.state /\ Session(charging') = charging'.state
      /\ charging.state \in ChargingStates /\ charging'.state \in ChargingStates
  BY <1>1, <1>2, EnergyAssumption DEF Session, ChargingRow, ChargingStates
<1>4. Changed \subseteq {"charging", "pack"} /\ (pack' = pack => Changed \subseteq {"charging"})
  BY <1>1, ChangedRows
<1>5. {"charging", "pack"} \in SUBSET Rows /\ {"charging"} \in SUBSET Rows
  BY DEF Rows
<1>6. ledger'.kind = "charging"
  <2>1. CASE ChargingCharges(power)
    BY <1>1, <2>1 DEF ChargingCharges, Ledger
  <2>2. CASE Record("charging")
    BY <1>1, <2>2 DEF Record, Ledger
  <2>3. QED
    BY <2>1, <2>2 DEF ExecuteChargingCommand
<1>7. ASSUME NEW changed \in SUBSET Rows, Changed \subseteq changed,
             \A session, session2 \in ChargingStates, a, b, b2 \in BOOLEAN :
                /\ session = charging.state /\ session2 = charging'.state
                /\ b = pack.closed /\ b2 = pack'.closed
                => Bump(View(session2, a, b2), changed) \in Effects("charging", View(session, a, b)),
             pack'.state = pack.state
      PROVE  CoverStep
  <2>1. \A session, session2 \in ChargingStates, a, b, a2, b2 \in BOOLEAN :
           /\ session = Session(charging) /\ session2 = Session(charging')
           /\ a = (pack.state = "protection") /\ a2 = (pack'.state = "protection")
           /\ b = pack.closed /\ b2 = pack'.closed
           => Bump(View(session2, a2, b2), changed) \in Effects("charging", View(session, a, b))
    <3>1. TAKE session, session2 \in ChargingStates, a, b, a2, b2 \in BOOLEAN
    <3>2. HAVE /\ session = Session(charging) /\ session2 = Session(charging')
               /\ a = (pack.state = "protection") /\ a2 = (pack'.state = "protection")
               /\ b = pack.closed /\ b2 = pack'.closed
    <3>3. session = charging.state /\ session2 = charging'.state /\ a2 = a
      BY ONLY <1>3, <1>7, <3>2
    <3>4. Bump(View(session2, a, b2), changed) \in Effects("charging", View(session, a, b))
      BY <1>7, <3>2, <3>3
    <3>5. QED
      BY ONLY <3>3, <3>4
  <2>2. Session(charging') \in ChargingStates /\ changed \in SUBSET Rows /\ Changed \subseteq changed
    BY <1>3, <1>7
  <2>3. QED
    BY ONLY <1>1, <1>2, <1>6, <2>1, <2>2, OutcomeOf, Zenon
<1>8. ASSUME NEW from, NEW to, NEW closed \in BOOLEAN, charging.state \in from, charging'.state = to,
             pack'.state = pack.state, pack'.closed = closed,
             \A session \in ChargingStates, a, b, b2 \in BOOLEAN :
                session \in from /\ b = pack.closed /\ b2 = closed =>
                   Bump(View(to, a, b2), {"charging", "pack"}) \in Effects("charging", View(session, a, b))
      PROVE  CoverStep
  <2>1. \A session, session2 \in ChargingStates, a, b, b2 \in BOOLEAN :
           /\ session = charging.state /\ session2 = charging'.state
           /\ b = pack.closed /\ b2 = pack'.closed
           => Bump(View(session2, a, b2), {"charging", "pack"}) \in Effects("charging", View(session, a, b))
    BY <1>8, Zenon
  <2>2. QED
    BY <1>4, <1>5, <1>7, <1>8, <2>1, Zenon
<1>9. CASE ChargingCharges(power)
  <2> DEFINE step == ChargingStep(power)
             soc == IF step.energy = 0 THEN pack.soc ELSE Smaller(charging.target, pack.soc + step.energy)
  <2>1. /\ charging.state = "charging"
        /\ pack' = [pack EXCEPT !.soc = soc, !.closed = IF Completes(soc) THEN FALSE ELSE @]
        /\ charging' = [charging EXCEPT !.requested = step.requested, !.energy = @ + step.energy,
                                        !.state = IF soc >= charging.target THEN "completed" ELSE @]
    BY <1>9 DEF ChargingCharges
  <2> HIDE DEF step, soc
  <2>2. pack'.state = pack.state /\ pack'.closed = IF Completes(soc) THEN FALSE ELSE pack.closed
    BY <1>1, <2>1 DEF PackRow
  <2>3. charging'.state = IF Completes(soc) THEN "completed" ELSE "charging"
    BY <1>1, <2>1 DEF ChargingRow, Completes
  <2>4. CASE Completes(soc)
    <3>1. charging'.state = "completed" /\ pack'.closed = FALSE /\ charging.state \in {"charging", "paused"}
      BY <2>1, <2>2, <2>3, <2>4
    <3>2. \A session \in ChargingStates, a, b, b2 \in BOOLEAN :
             session \in {"charging", "paused"} /\ b = pack.closed /\ b2 = FALSE =>
                Bump(View("completed", a, b2), {"charging", "pack"}) \in Effects("charging", View(session, a, b))
      BY ONLY EffectsOfViews, Zenon
    <3>3. QED
      BY <1>8, <2>2, <3>1, <3>2, Zenon
  <2>5. CASE ~Completes(soc)
    <3>1. charging'.state = "charging" /\ pack'.closed = pack.closed /\ charging.state \in {"charging"}
      BY <2>1, <2>2, <2>3, <2>5
    <3>2. \A session \in ChargingStates, a, b, b2 \in BOOLEAN :
             session \in {"charging"} /\ b = pack.closed /\ b2 = pack.closed =>
                Bump(View("charging", a, b2), {"charging", "pack"}) \in Effects("charging", View(session, a, b))
      BY ONLY EffectsOfViews, Zenon
    <3>3. pack.closed \in BOOLEAN
      BY <1>1 DEF PackRow
    <3>4. QED
      BY <1>8, <2>2, <3>1, <3>2, <3>3, Zenon
  <2>6. QED
    BY <2>4, <2>5
<1>10. CASE ChargingStarts(target, connector, power)
  <2>1. /\ charging.state \in {"idle", "completed"} /\ charging'.state = "charging"
        /\ pack' = [pack EXCEPT !.closed = TRUE]
    BY <1>10 DEF ChargingStarts
  <2>2. pack'.state = pack.state /\ pack'.closed = TRUE
    BY <1>1, <2>1 DEF PackRow
  <2>3. \A session, session2 \in ChargingStates, a, b, b2 \in BOOLEAN :
           session \in {"idle", "completed"} /\ session2 = "charging" /\ b2 = TRUE =>
              Bump(View(session2, a, b2), IF b THEN {"charging"} ELSE {"charging", "pack"})
                 \in Effects("charging", View(session, a, b))
    BY ONLY EffectsOfViews, Zenon
  <2>4. CASE pack.closed = TRUE
    <3>1. pack' = pack
      BY <1>1, <2>1, <2>4 DEF PackRow
    <3>2. \A session, session2 \in ChargingStates, a, b, b2 \in BOOLEAN :
             /\ session = charging.state /\ session2 = charging'.state
             /\ b = pack.closed /\ b2 = pack'.closed
             => Bump(View(session2, a, b2), {"charging"}) \in Effects("charging", View(session, a, b))
      BY <2>1, <2>2, <2>3, <2>4, Zenon
    <3>3. QED
      BY <1>4, <1>5, <1>7, <2>2, <3>1, <3>2, Zenon
  <2>5. CASE pack.closed = FALSE
    <3>1. \A session, session2 \in ChargingStates, a, b, b2 \in BOOLEAN :
             /\ session = charging.state /\ session2 = charging'.state
             /\ b = pack.closed /\ b2 = pack'.closed
             => Bump(View(session2, a, b2), {"charging", "pack"}) \in Effects("charging", View(session, a, b))
      BY <2>1, <2>2, <2>3, <2>5, Zenon
    <3>2. QED
      BY <1>4, <1>5, <1>7, <2>2, <3>1, Zenon
  <2>6. QED
    BY <1>1, <2>4, <2>5 DEF PackRow
<1>11. ASSUME NEW from, NEW to, NEW closed, ChargingMoves(from, to, closed)
       PROVE  /\ charging.state \in from /\ charging'.state = to
              /\ pack'.state = pack.state /\ pack'.closed = closed
  BY <1>1, <1>11 DEF ChargingMoves, PackRow, ChargingRow
<1>12. CASE ChargingMoves({"charging"}, "paused", FALSE)
  <2>1. \A session \in ChargingStates, a, b, b2 \in BOOLEAN :
             session \in {"charging"} /\ b = pack.closed /\ b2 = FALSE =>
                Bump(View("paused", a, b2), {"charging", "pack"}) \in Effects("charging", View(session, a, b))
    BY ONLY EffectsOfViews, Zenon
  <2>2. charging.state \in {"charging"} /\ charging'.state = "paused"
    BY <1>12 DEF ChargingMoves, ChargingRow
  <2>3. pack'.state = pack.state /\ pack'.closed = FALSE
    BY <1>12 DEF ChargingMoves, PackRow
  <2>4. QED
    BY ONLY <1>8, <2>1, <2>2, <2>3
<1>13. CASE ChargingMoves({"paused"}, "charging", TRUE)
  <2>1. \A session \in ChargingStates, a, b, b2 \in BOOLEAN :
             session \in {"paused"} /\ b = pack.closed /\ b2 = TRUE =>
                Bump(View("charging", a, b2), {"charging", "pack"}) \in Effects("charging", View(session, a, b))
    BY ONLY EffectsOfViews, Zenon
  <2>2. charging.state \in {"paused"} /\ charging'.state = "charging"
    BY <1>13 DEF ChargingMoves, ChargingRow
  <2>3. pack'.state = pack.state /\ pack'.closed = TRUE
    BY <1>13 DEF ChargingMoves, PackRow
  <2>4. QED
    BY ONLY <1>8, <2>1, <2>2, <2>3
<1>14. CASE ChargingMoves({"charging", "paused"}, "completed", FALSE)
  <2>1. \A session \in ChargingStates, a, b, b2 \in BOOLEAN :
             session \in {"charging", "paused"} /\ b = pack.closed /\ b2 = FALSE =>
                Bump(View("completed", a, b2), {"charging", "pack"}) \in Effects("charging", View(session, a, b))
    BY ONLY EffectsOfViews, Zenon
  <2>2. charging.state \in {"charging", "paused"} /\ charging'.state = "completed"
    BY <1>14 DEF ChargingMoves, ChargingRow
  <2>3. pack'.state = pack.state /\ pack'.closed = FALSE
    BY <1>14 DEF ChargingMoves, PackRow
  <2>4. QED
    BY ONLY <1>8, <2>1, <2>2, <2>3
<1>15. CASE ChargingMoves({"charging", "paused"}, "faulted", FALSE)
  <2>1. \A session \in ChargingStates, a, b, b2 \in BOOLEAN :
             session \in {"charging", "paused"} /\ b = pack.closed /\ b2 = FALSE =>
                Bump(View("faulted", a, b2), {"charging", "pack"}) \in Effects("charging", View(session, a, b))
    BY ONLY EffectsOfViews, Zenon
  <2>2. charging.state \in {"charging", "paused"} /\ charging'.state = "faulted"
    BY <1>15 DEF ChargingMoves, ChargingRow
  <2>3. pack'.state = pack.state /\ pack'.closed = FALSE
    BY <1>15 DEF ChargingMoves, PackRow
  <2>4. QED
    BY ONLY <1>8, <2>1, <2>2, <2>3
<1>16. CASE ChargingMoves({"faulted"}, "idle", pack.closed)
  <2>1. charging.state = "faulted" /\ charging'.state = "idle" /\ pack'.state = pack.state
    BY ONLY <1>11, <1>16, Zenon
  <2>2. pack' = pack
    BY <1>1, <1>16 DEF ChargingMoves, PackRow
  <2>3. \A session, session2 \in ChargingStates, a, b, b2 \in BOOLEAN :
           session = "faulted" /\ session2 = "idle" /\ b2 = b =>
              Bump(View(session2, a, b2), {"charging"}) \in Effects("charging", View(session, a, b))
    BY ONLY EffectsOfViews, Zenon
  <2>4. \A session, session2 \in ChargingStates, a, b, b2 \in BOOLEAN :
             /\ session = charging.state /\ session2 = charging'.state
             /\ b = pack.closed /\ b2 = pack'.closed
             => Bump(View(session2, a, b2), {"charging"}) \in Effects("charging", View(session, a, b))
    BY <2>1, <2>2, <2>3, Zenon
  <2>5. QED
    BY <1>4, <1>5, <1>7, <2>1, <2>2, <2>4, Zenon
<1>17. QED
  BY <1>9, <1>10, <1>12, <1>13, <1>14, <1>15, <1>16 DEF ExecuteChargingCommand

\* A create endpoint counts no command.
LEMMA CreateCovered ==
    ASSUME EnergyInv, Create
    PROVE  CoverStep
<1>1. ledger'.commands = ledger.commands /\ ledger.commands \in Nat
  BY DEF EnergyInv, EnergyIsAccounted, EnergyTypeOK, Ledger, Create, CreateBatteryPack, CreateMotorInverter,
         CreateRegenerativeBrake, CreateChargingSystem, CreateThermalManagement, CreateRangeEstimator
<1>2. ~(ledger'.commands > ledger.commands)
  BY <1>1
<1>3. QED
  BY <1>2, Zenon DEF CoverStep

\* Every command of the physics is one of the outcomes offered to the requests.
LEMMA EnergyCovered ==
    ASSUME EnergyInv, EnergyStep
    PROVE  CoverStep
<1>1. EnergyTypeOK
  BY DEF EnergyInv, EnergyIsAccounted
<1>2. CASE Create
  BY <1>2, CreateCovered
<1>3. CASE \E current \in Currents, drift \in Drifts : SimulateBatteryStep(current, drift)
  BY <1>1, <1>3, BatteryCovered
<1>4. CASE \E torque \in Torques, speed \in Speeds, factor \in {60, 85, 100}, drift \in Drifts :
              SimulateMotorStep(torque, speed, factor, 3 * drift)
  BY <1>1, <1>4, MotorCovered
<1>5. CASE \E force \in Forces, speed \in {0, 2} : SimulateBrakeStep(force, speed)
  BY <1>1, <1>5, BrakeCovered
<1>6. CASE \E target \in Targets, connector \in {"ac", "dc"}, power \in {0, 20} :
              ExecuteChargingCommand(target, connector, power)
  BY <1>6, ChargingCovered
<1>7. CASE \E enabled, faulted \in BOOLEAN, d, e \in Drifts : SimulateThermalStep(enabled, faulted, d, e)
  BY <1>1, <1>7, ThermalCovered
<1>8. CASE \E traction \in {0, 15}, recovered \in {0, 5} : SimulateRangeCycle(traction, recovered)
  BY <1>1, <1>8, RangeCovered
<1>9. CASE \E t \in {60, 80} : ExecuteOvertemperatureScenario(t)
  BY <1>1, <1>9, ScenarioCovered
<1>10. QED
  BY <1>2, <1>3, <1>4, <1>5, <1>6, <1>7, <1>8, <1>9 DEF EnergyStep, EnergyCommand

-----------------------------------------------------------------------------
(* Orders of locks and outcomes of the requests                              *)

\* The first n rows that a command locks, and all of them.
Prefix(kind, n) == {Locks[kind][i] : i \in 1 .. n}
Locked(kind) == Prefix(kind, Len(Locks[kind]))

\* No order names a row twice, and only the motor comes before the pack.
LEMMA LockOrders ==
    ASSUME NEW kind \in AllKinds
    PROVE  /\ Len(Locks[kind]) \in Nat
           /\ \A i \in 1 .. Len(Locks[kind]) : Locks[kind][i] \in Rows
           /\ \A i, j \in 1 .. Len(Locks[kind]) : Locks[kind][i] = Locks[kind][j] => i = j
           /\ \A i \in 1 .. Len(Locks[kind]) :
                 Locks[kind][i] \notin {"pack", "motor"} =>
                    \E j \in 1 .. Len(Locks[kind]) : j < i /\ Locks[kind][j] = "pack"
<1> DEFINE Ordered(L) ==
             /\ Len(L) \in Nat
             /\ \A i \in 1 .. Len(L) : L[i] \in Rows
             /\ \A i, j \in 1 .. Len(L) : L[i] = L[j] => i = j
             /\ \A i \in 1 .. Len(L) : L[i] \notin {"pack", "motor"} =>
                   \E j \in 1 .. Len(L) : j < i /\ L[j] = "pack"
<1>1. CASE kind = "battery"
  <2>1. Ordered(<<"pack">>)
    BY DEF Rows
  <2>2. QED
    BY <1>1, <2>1 DEF Locks
<1>2. CASE kind = "range"
  <2>1. Ordered(<<"pack", "thermal", "range">>)
    BY DEF Rows
  <2>2. QED
    BY <1>2, <2>1 DEF Locks
<1>3. CASE kind = "motor"
  <2>1. Ordered(<<"motor", "pack">>)
    BY DEF Rows
  <2>2. QED
    BY <1>3, <2>1 DEF Locks
<1>4. CASE kind = "brake"
  <2>1. Ordered(<<"motor", "pack", "brake">>)
    BY DEF Rows
  <2>2. QED
    BY <1>4, <2>1 DEF Locks
<1>5. CASE kind = "charging"
  <2>1. Ordered(<<"pack", "charging">>)
    BY DEF Rows
  <2>2. QED
    BY <1>5, <2>1 DEF Locks
<1>6. CASE kind = "thermal"
  <2>1. Ordered(<<"pack", "motor", "thermal">>)
    BY DEF Rows
  <2>2. QED
    BY <1>6, <2>1 DEF Locks
<1>7. CASE kind = "scenario"
  <2>1. Ordered(<<"pack", "motor", "brake", "charging", "thermal", "range", "ecu", "network">>)
    BY DEF Rows
  <2>2. QED
    BY <1>7, <2>1 DEF Locks
<1>8. QED
  BY <1>1, <1>2, <1>3, <1>4, <1>5, <1>6, <1>7 DEF AllKinds

\* The rows a command can change are among those it locks.
LEMMA LockedRows ==
    /\ "pack" \in Locked("battery")
    /\ "range" \in Locked("range")
    /\ "motor" \in Locked("motor")
    /\ {"brake", "pack"} \subseteq Locked("brake")
    /\ {"charging", "pack"} \subseteq Locked("charging")
    /\ {"pack", "motor", "thermal"} \subseteq Locked("thermal")
    /\ Rows \subseteq Locked("scenario")
<1> DEFINE L == <<"pack", "motor", "brake", "charging", "thermal", "range", "ecu", "network">>
<1>1. Rows \subseteq {L[i] : i \in 1 .. 8}
  BY DEF Rows
<1>2. Len(L) = 8 /\ Locks["scenario"] = L
  BY DEF Locks
<1>3. Rows \subseteq Locked("scenario")
  BY <1>1, <1>2 DEF Locked, Prefix
<1>4. QED
  BY <1>3 DEF Locked, Prefix, Locks

\* A command names the versions of rows that it locks.
LEMMA CheckedRows ==
    ASSUME NEW kind \in AllKinds
    PROVE  Checked(kind) \subseteq Locked(kind)
<1>1. CASE kind = "motor"
  <2>1. Checked(kind) = {"motor"}
    BY <1>1 DEF Checked
  <2>2. QED
    BY <1>1, <2>1, LockedRows
<1>2. CASE kind = "brake"
  <2>1. Checked(kind) = {"brake", "pack"}
    BY <1>2 DEF Checked
  <2>2. QED
    BY <1>2, <2>1, LockedRows
<1>3. CASE kind # "motor" /\ kind # "brake"
  <2>1. Checked(kind) = Locked(kind)
    BY <1>3, Zenon DEF Checked, Locked, Prefix
  <2>2. QED
    BY <2>1
<1>4. QED
  BY <1>1, <1>2, <1>3

-----------------------------------------------------------------------------
\* Replacing the protection and the contactors of the pack changes nothing else.
LEMMA PackOf ==
    ASSUME NEW s \in [Rows -> Value], NEW p \in BOOLEAN, NEW c \in BOOLEAN
    PROVE  LET t == WithPack(s, p, c)
           IN  /\ t \in [Rows -> Value]
               /\ \A r \in Rows : t[r].version = s[r].version
               /\ \A r \in Rows \ {"pack"} : t[r] = s[r]
               /\ t["pack"].protection = p /\ t["pack"].closed = c
<1>1. "pack" \in Rows
  BY DEF Rows
<1>2. QED
  BY <1>1 DEF WithPack, Value

\* Replacing the state of the session changes nothing else.
LEMMA ChargingOf ==
    ASSUME NEW s \in [Rows -> Value], NEW state \in ChargingStates
    PROVE  LET t == WithCharging(s, state)
           IN  /\ t \in [Rows -> Value]
               /\ \A r \in Rows : t[r].version = s[r].version
               /\ \A r \in Rows \ {"charging"} : t[r] = s[r]
               /\ t["charging"].state = state
<1>1. "charging" \in Rows
  BY DEF Rows
<1>2. s["charging"] \in Value
  BY <1>1
<1>3. [s["charging"] EXCEPT !.state = state] \in Value /\ [s["charging"] EXCEPT !.state = state].version = s["charging"].version
      /\ [s["charging"] EXCEPT !.state = state].state = state
  BY <1>2 DEF Value
<1>4. QED
  BY <1>1, <1>3 DEF WithCharging

\* What an outcome may be: a new version of each changed row, of locked rows only.
Outcome(s, t, changed) ==
    /\ t \in [Rows -> Value]
    /\ \A r \in Rows : t[r].version = s[r].version
    /\ \A r \in Rows \ changed : t[r] = s[r]

\* A stamp raises the version of each changed row by one and keeps the rest of it.
LEMMA BumpOf ==
    ASSUME NEW s \in [Rows -> Value], NEW t, NEW changed \in SUBSET Rows, Outcome(s, t, changed)
    PROVE  LET e == Bump(t, changed)
           IN  /\ e \in [Rows -> Value]
               /\ \A r \in Rows : e[r] # s[r] => r \in changed /\ e[r].version = s[r].version + 1
               /\ \A r \in Rows : /\ e[r].protection = t[r].protection
                                  /\ e[r].closed = t[r].closed /\ e[r].state = t[r].state
<1> DEFINE e == Bump(t, changed)
<1>1. ASSUME NEW r \in Rows
      PROVE  /\ e[r] \in Value
             /\ e[r] # s[r] => r \in changed /\ e[r].version = s[r].version + 1
             /\ e[r].protection = t[r].protection /\ e[r].closed = t[r].closed /\ e[r].state = t[r].state
  <2>1. t[r] \in Value /\ t[r].version = s[r].version /\ (r \notin changed => t[r] = s[r])
    BY DEF Outcome
  <2>2. CASE r \in changed
    <3>1. e[r] = [t[r] EXCEPT !.version = t[r].version + 1]
      BY <2>2 DEF Bump
    <3> HIDE DEF e
    <3>2. QED
      BY <2>1, <2>2, <3>1 DEF Value
  <2>3. CASE r \notin changed
    <3>1. e[r] = t[r]
      BY <2>3 DEF Bump
    <3> HIDE DEF e
    <3>2. QED
      BY <2>1, <2>3, <3>1
  <2>4. QED
    BY <2>2, <2>3
<1>2. e = [r \in Rows |-> e[r]]
  BY DEF Bump
<1> HIDE DEF e
<1>3. e \in [Rows -> Value]
  BY <1>1, <1>2
<1>4. QED
  BY <1>1, <1>3 DEF e

\* ChargingContactors, of any rows.
Contactors(s) == s["charging"].state = "charging" /\ ~s["pack"].closed => s["pack"].protection

\* An outcome e of rows s: only named rows change, each to its next version.
Sound(s, e, changed) ==
    /\ e \in [Rows -> Value]
    /\ \A r \in Rows : e[r] # s[r] => r \in changed /\ e[r].version = s[r].version + 1
    /\ Contactors(s) => Contactors(e)

\* A stamped outcome changes only the rows it names, each to the next version.
LEMMA SoundBump ==
    ASSUME NEW s \in [Rows -> Value], NEW t, NEW changed \in SUBSET Rows, Outcome(s, t, changed),
           Contactors(s) => Contactors(t)
    PROVE  Sound(s, Bump(t, changed), changed)
<1>1. "pack" \in Rows /\ "charging" \in Rows
  BY DEF Rows
<1> DEFINE e == Bump(t, changed)
<1>2. /\ e \in [Rows -> Value]
      /\ \A r \in Rows : e[r] # s[r] => r \in changed /\ e[r].version = s[r].version + 1
      /\ \A r \in Rows : /\ e[r].protection = t[r].protection
                         /\ e[r].closed = t[r].closed /\ e[r].state = t[r].state
  BY BumpOf
<1> HIDE DEF e
<1>3. Contactors(t) => Contactors(e)
  BY <1>1, <1>2 DEF Contactors
<1>4. Sound(s, e, changed)
  BY <1>2, <1>3 DEF Sound
<1>5. QED
  BY <1>4 DEF e

\* Rows that are only stamped with a new version.
LEMMA SoundStamp ==
    ASSUME NEW s \in [Rows -> Value], NEW changed \in SUBSET Rows
    PROVE  Sound(s, Bump(s, changed), changed)
BY SoundBump DEF Outcome

\* A charging action on contactors and session state.
LEMMA SoundPack ==
    ASSUME NEW s \in [Rows -> Value], NEW state \in ChargingStates, NEW p \in BOOLEAN, NEW c \in BOOLEAN,
           NEW changed \in SUBSET Rows, "charging" \in changed,
           "pack" \in changed \/ (p = s["pack"].protection /\ c = s["pack"].closed),
           state = "charging" /\ ~c => p
    PROVE  Sound(s, Bump(WithPack(WithCharging(s, state), p, c), changed), changed)
<1> DEFINE t == WithCharging(s, state)
           u == WithPack(t, p, c)
<1>1. "pack" \in Rows /\ "charging" \in Rows
  BY DEF Rows
<1>2. /\ t \in [Rows -> Value]
      /\ \A r \in Rows : t[r].version = s[r].version
      /\ \A r \in Rows \ {"charging"} : t[r] = s[r]
      /\ t["charging"].state = state
  BY ChargingOf
<1> HIDE DEF t
<1>3. /\ u \in [Rows -> Value]
      /\ \A r \in Rows : u[r].version = t[r].version
      /\ \A r \in Rows \ {"pack"} : u[r] = t[r]
      /\ u["pack"].protection = p /\ u["pack"].closed = c
  BY <1>2, PackOf
<1>4. "pack" \notin changed => u["pack"] = s["pack"]
  <2>1. u["pack"] = [version |-> t["pack"].version, protection |-> p, closed |-> c, state |-> t["pack"].state]
    BY <1>1, <1>2 DEF WithPack
  <2> HIDE DEF u
  <2>2. t["pack"] = s["pack"]
    BY <1>1, <1>2
  <2>3. s["pack"] \in Value
    BY <1>1
  <2>4. QED
    BY <2>1, <2>2, <2>3 DEF Value
<1> HIDE DEF u
<1>5. Outcome(s, u, changed)
  <2>1. \A r \in Rows : u[r].version = s[r].version
    BY <1>2, <1>3
  <2>2. \A r \in Rows \ changed : u[r] = s[r]
    BY <1>2, <1>3, <1>4
  <2>3. QED
    BY <1>3, <2>1, <2>2 DEF Outcome
<1>6. Contactors(u)
  <2>1. u["charging"].state = state
    BY <1>1, <1>2, <1>3
  <2>2. QED
    BY <1>3, <2>1 DEF Contactors
<1>7. Sound(s, Bump(u, changed), changed)
  BY <1>5, <1>6, SoundBump
<1>8. QED
  BY <1>7 DEF u, t

\* A battery step opens the contactors exactly in protection.
LEMMA SoundBattery ==
    ASSUME NEW s \in [Rows -> Value], NEW e \in BatteryEffects(s)
    PROVE  Sound(s, e, {"pack"})
<1>1. PICK p, c \in BOOLEAN : e = Bump(WithPack(s, p, c), {"pack"}) /\ c = ~p
  BY DEF BatteryEffects
<1> DEFINE t == WithPack(s, p, c)
<1>2. /\ t \in [Rows -> Value]
      /\ \A r \in Rows : t[r].version = s[r].version
      /\ \A r \in Rows \ {"pack"} : t[r] = s[r]
      /\ t["pack"].protection = p /\ t["pack"].closed = c
  BY PackOf
<1> HIDE DEF t
<1>3. Outcome(s, t, {"pack"}) /\ Contactors(t) /\ {"pack"} \in SUBSET Rows
  BY <1>1, <1>2 DEF Outcome, Contactors, Rows
<1>4. Sound(s, Bump(t, {"pack"}), {"pack"})
  BY <1>3, SoundBump
<1>5. QED
  BY <1>1, <1>4 DEF t

\* Every charging action, from rows whose contactors agree with the session.
LEMMA SoundCharging ==
    ASSUME NEW s \in [Rows -> Value], Contactors(s), NEW e \in ChargingEffects(s)
    PROVE  Sound(s, e, {"charging", "pack"})
<1> DEFINE both == {"charging", "pack"}
<1>1. /\ s["pack"].protection \in BOOLEAN /\ s["pack"].closed \in BOOLEAN
      /\ both \in SUBSET Rows /\ {"charging"} \in SUBSET Rows
  BY DEF Rows, Value
<1>2. \A changed \in {both, {"charging"}} : Sound(s, e, changed) => Sound(s, e, both)
  BY DEF Sound
<1>3. \A state \in ChargingStates, c \in BOOLEAN :
         (state = "charging" /\ ~c => s["pack"].protection)
           => Sound(s, Bump(WithPack(WithCharging(s, state), s["pack"].protection, c), both), both)
  <2>1. PICK p \in BOOLEAN : p = s["pack"].protection
    BY <1>1
  <2>2. ASSUME NEW state \in ChargingStates, NEW c \in BOOLEAN, state = "charging" /\ ~c => p
        PROVE  Sound(s, Bump(WithPack(WithCharging(s, state), p, c), both), both)
    <3>1. both \in SUBSET Rows /\ "charging" \in both /\ "pack" \in both
      BY <1>1
    <3>2. s \in [Rows -> Value] /\ p \in BOOLEAN /\ state \in ChargingStates /\ c \in BOOLEAN
      OBVIOUS
    <3> HIDE DEF both
    <3>3. QED
      BY ONLY <2>2, <3>1, <3>2, SoundPack
  <2>3. QED
    BY <2>1, <2>2, Zenon
<1>4. ASSUME NEW from, NEW to \in ChargingStates, NEW c \in BOOLEAN, e \in ChargingMove(s, from, to, c),
             to = "charging" /\ ~c => s["pack"].protection
      PROVE  Sound(s, e, both)
  BY <1>3, <1>4 DEF ChargingMove
<1>5. CASE e \in ChargingStart(s)
  <2>1. PICK yes \in BOOLEAN : yes = TRUE
    OBVIOUS
  <2>2. "charging" \in ChargingStates
    BY DEF ChargingStates
  <2>3. CASE s["pack"].closed
    <3>1. e = Bump(WithPack(WithCharging(s, "charging"), s["pack"].protection, yes), {"charging"})
      BY <1>5, <2>1, <2>3 DEF ChargingStart
    <3>2. s["pack"].closed = yes
      BY <1>1, <2>1, <2>3
    <3>3. Sound(s, Bump(WithPack(WithCharging(s, "charging"), s["pack"].protection, yes), {"charging"}), {"charging"})
      BY <1>1, <2>1, <2>2, <3>2, SoundPack
    <3>4. QED
      BY <1>2, <3>1, <3>3
  <2>4. CASE ~s["pack"].closed
    <3>1. e = Bump(WithPack(WithCharging(s, "charging"), s["pack"].protection, yes), both)
      BY <1>5, <2>1, <2>4 DEF ChargingStart
    <3>2. QED
      BY <1>3, <2>1, <2>2, <3>1
  <2>5. QED
    BY <2>3, <2>4
<1>6. CASE e \in ChargingClear(s)
  <2>1. e = Bump(WithCharging(s, "idle"), {"charging"}) /\ "idle" \in ChargingStates
    BY <1>6 DEF ChargingClear, ChargingStates
  <2> DEFINE t == WithCharging(s, "idle")
  <2>2. /\ t \in [Rows -> Value]
        /\ \A r \in Rows : t[r].version = s[r].version
        /\ \A r \in Rows \ {"charging"} : t[r] = s[r]
        /\ t["charging"].state = "idle"
    BY <2>1, ChargingOf
  <2> HIDE DEF t
  <2>3. Outcome(s, t, {"charging"}) /\ Contactors(t)
    BY <2>2 DEF Outcome, Contactors
  <2>4. Sound(s, Bump(t, {"charging"}), {"charging"})
    BY <1>1, <2>3, SoundBump
  <2>5. QED
    BY <1>2, <2>1, <2>4 DEF t
<1>7. \/ e \in ChargingStart(s) \/ e \in ChargingClear(s)
      \/ e \in ChargingMove(s, {"charging"}, "charging", s["pack"].closed)
      \/ e \in ChargingMove(s, {"charging"}, "completed", FALSE)
      \/ e \in ChargingMove(s, {"charging"}, "paused", FALSE)
      \/ e \in ChargingMove(s, {"paused"}, "charging", TRUE)
      \/ e \in ChargingMove(s, {"charging", "paused"}, "completed", FALSE)
      \/ e \in ChargingMove(s, {"charging", "paused"}, "faulted", FALSE)
  BY Zenon DEF ChargingEffects
<1>8. CASE e \in ChargingMove(s, {"charging"}, "charging", s["pack"].closed)
  <2>1. s["charging"].state = "charging"
    BY <1>8 DEF ChargingMove
  <2>2. ~s["pack"].closed => s["pack"].protection
    BY <2>1 DEF Contactors
  <2>3. QED
    BY <1>1, <1>4, <1>8, <2>2 DEF ChargingStates
<1>9. {"charging", "paused", "completed", "faulted"} \subseteq ChargingStates /\ TRUE \in BOOLEAN /\ FALSE \in BOOLEAN
  BY DEF ChargingStates
<1>10. QED
  BY <1>4, <1>5, <1>6, <1>7, <1>8, <1>9

\* Every command: only locked rows change, each to the next version, and the contactors stay in agreement.
LEMMA EffectsAreSound ==
    ASSUME NEW s \in [Rows -> Value], Contactors(s), NEW kind \in AllKinds, NEW e \in Effects(kind, s)
    PROVE  Sound(s, e, Locked(kind))
<1>1. ASSUME NEW changed, Sound(s, e, changed), changed \subseteq Locked(kind)
      PROVE  Sound(s, e, Locked(kind))
  BY <1>1 DEF Sound
<1>2. /\ \A changed \in SUBSET Rows : Sound(s, Bump(s, changed), changed)
      /\ {{"range"}, {"motor"}, {"brake"}, {"brake", "pack"}, {"pack", "motor", "thermal"}} \subseteq SUBSET Rows
  BY SoundStamp DEF Rows
<1>3. CASE kind = "battery"
  BY <1>1, <1>3, SoundBattery, LockedRows DEF Effects
<1>4. CASE kind = "range"
  <2>1. e = Bump(s, {"range"})
    BY <1>4 DEF Effects
  <2>2. QED
    BY <1>1, <1>2, <1>4, <2>1, LockedRows
<1>5. CASE kind = "motor"
  <2>1. e = Bump(s, {"motor"})
    BY <1>5 DEF Effects
  <2>2. QED
    BY <1>1, <1>2, <1>5, <2>1, LockedRows
<1>6. CASE kind = "brake"
  <2>1. e = Bump(s, {"brake"}) \/ e = Bump(s, {"brake", "pack"})
    BY <1>6 DEF Effects, BrakeEffects
  <2>2. QED
    BY <1>1, <1>2, <1>6, <2>1, LockedRows
<1>7. CASE kind = "charging"
  BY <1>1, <1>7, SoundCharging, LockedRows DEF Effects
<1>8. CASE kind = "thermal"
  <2>1. e = Bump(s, {"pack", "motor", "thermal"})
    BY <1>8 DEF Effects
  <2>2. QED
    BY <1>1, <1>2, <1>8, <2>1, LockedRows
<1>9. CASE kind = "scenario"
  <2>1. PICK p, c \in BOOLEAN : p = TRUE /\ c = FALSE
    OBVIOUS
  <2>2. e = Bump(WithPack(WithCharging(s, "faulted"), p, c), Rows)
    BY <1>9, <2>1 DEF Effects, ScenarioEffects
  <2>3. "faulted" \in ChargingStates /\ Rows \in SUBSET Rows /\ "charging" \in Rows /\ "pack" \in Rows
    BY DEF ChargingStates, Rows
  <2>4. Sound(s, Bump(WithPack(WithCharging(s, "faulted"), p, c), Rows), Rows)
    BY <2>3, SoundPack
  <2>5. QED
    BY <1>1, <1>9, <2>2, <2>4, LockedRows
<1>10. QED
  BY <1>3, <1>4, <1>5, <1>6, <1>7, <1>8, <1>9 DEF AllKinds

-----------------------------------------------------------------------------
(* The requests, serialised                                                  *)

KindOf(q) == request[q].command.kind

\* A request in flight holds the first rows of its order, as they are now.
HoldsPrefix(q) ==
    /\ request[q] = [command |-> request[q].command, loaded |-> request[q].loaded]
    /\ request[q].command \in sent
    /\ IsFiniteSet(Loaded(q))
    /\ \E n \in 0 .. Len(Locks[KindOf(q)]) : Loaded(q) = Prefix(KindOf(q), n) /\ Cardinality(Loaded(q)) = n
    /\ \A r \in Loaded(q) : request[q].loaded[r] = row[r]

\* A stored step changed rows that it had read, and they have moved on.
StepIsPast(s) ==
    /\ s.command \in sent
    /\ s.changed \subseteq DOMAIN s.before /\ s.changed \subseteq Rows
    /\ \A r \in s.changed : s.before[r] \in Nat /\ s.before[r] < row[r].version

RequestsInv ==
    /\ row \in [Rows -> Value]
    /\ IsFiniteSet(sent) /\ Cardinality(sent) <= MaxSent
    /\ \A c \in sent : IsCommand(c)
    /\ IsFiniteSet(steps)
    /\ \A s \in steps : StepIsPast(s)
    /\ request = [q \in Requests |-> request[q]]
    /\ \A q \in Requests : request[q] # None => HoldsPrefix(q)
    /\ \A q, p \in Requests : q # p /\ request[q] # None /\ request[p] # None => Loaded(q) \cap Loaded(p) = {}
    /\ VersionsCountSteps
    /\ ChargingContactors

\* No request, no step: the invariant holds at the start.
LEMMA InitRequests == RequestsInit => RequestsInv
<1> SUFFICES ASSUME RequestsInit PROVE RequestsInv
  OBVIOUS
<1>1. row \in [Rows -> Value]
  BY DEF RequestsInit, Value, ChargingStates
<1>2. sent = {} /\ steps = {} /\ IsFiniteSet({}) /\ Cardinality({}) = 0
  BY FS_EmptySet DEF RequestsInit
<1>3. MaxSent \in Nat
  BY ElectricVehicleAssumption
<1>4. VersionsCountSteps
  <2>1. \A r \in Rows : {s \in steps : r \in s.changed} = {}
    BY <1>2
  <2>2. \A r \in Rows : row[r].version = 1
    BY DEF RequestsInit
  <2>3. QED
    BY <1>2, <2>1, <2>2 DEF VersionsCountSteps
<1>5. ChargingContactors
  BY DEF RequestsInit, ChargingContactors, Rows
<1>6. request = [q \in Requests |-> request[q]] /\ \A q \in Requests : request[q] = None
  BY DEF RequestsInit
<1>7. QED
  BY <1>1, <1>2, <1>3, <1>4, <1>5, <1>6 DEF RequestsInv

\* A request in flight, and what its command locks.
LEMMA InFlight ==
    ASSUME RequestsInv, NEW q \in Requests, request[q] # None
    PROVE  /\ KindOf(q) \in AllKinds
           /\ IsCommand(request[q].command)
           /\ Loaded(q) \subseteq Locked(KindOf(q)) /\ Locked(KindOf(q)) \subseteq Rows
<1>1. HoldsPrefix(q) /\ IsCommand(request[q].command)
  BY DEF RequestsInv, HoldsPrefix
<1>2. KindOf(q) \in AllKinds
  BY <1>1, ElectricVehicleAssumption DEF IsCommand, KindOf
<1>3. Len(Locks[KindOf(q)]) \in Nat /\ \A i \in 1 .. Len(Locks[KindOf(q)]) : Locks[KindOf(q)][i] \in Rows
  BY <1>2, LockOrders
<1>4. Loaded(q) \subseteq Locked(KindOf(q)) /\ Locked(KindOf(q)) \subseteq Rows
  BY <1>1, <1>3 DEF HoldsPrefix, Prefix, Locked
<1>5. QED
  BY <1>1, <1>2, <1>4

\* The next row is not one that the request has.
LEMMA NextIsNew ==
    ASSUME RequestsInv, NEW q \in Requests, request[q] # None, ~HoldsAll(q)
    PROVE  /\ NextRow(q) \in Rows \ Loaded(q)
           /\ NextRow(q) \notin {"pack", "motor"} => "pack" \in Loaded(q)
           /\ \E n \in 0 .. Len(Locks[KindOf(q)]) - 1 :
                 /\ Loaded(q) = Prefix(KindOf(q), n) /\ Cardinality(Loaded(q)) = n
                 /\ Loaded(q) \cup {NextRow(q)} = Prefix(KindOf(q), n + 1)
<1> DEFINE L == Locks[KindOf(q)]
<1>1. /\ KindOf(q) \in AllKinds /\ HoldsPrefix(q)
  BY InFlight DEF RequestsInv
<1>2. PICK n \in 0 .. Len(L) : Loaded(q) = Prefix(KindOf(q), n) /\ Cardinality(Loaded(q)) = n
  BY <1>1 DEF HoldsPrefix
<1>3. /\ Len(L) \in Nat
      /\ \A i \in 1 .. Len(L) : L[i] \in Rows
      /\ \A i, j \in 1 .. Len(L) : L[i] = L[j] => i = j
      /\ \A i \in 1 .. Len(L) : L[i] \notin {"pack", "motor"} => \E j \in 1 .. Len(L) : j < i /\ L[j] = "pack"
  BY <1>1, LockOrders
<1>4. Loaded(q) = {L[i] : i \in 1 .. n} /\ Prefix(KindOf(q), n + 1) = {L[i] : i \in 1 .. n + 1}
  BY <1>2 DEF Prefix
<1>5. NextRow(q) = L[n + 1] /\ n # Len(L)
  BY <1>2 DEF NextRow, HoldsAll, KindOf
<1> HIDE DEF L
<1>6. n + 1 \in 1 .. Len(L) /\ n \in 0 .. Len(L) - 1
  BY <1>2, <1>3, <1>5
<1>7. NextRow(q) \in Rows \ Loaded(q)
  BY <1>3, <1>4, <1>5, <1>6
<1>8. NextRow(q) \notin {"pack", "motor"} => "pack" \in Loaded(q)
  BY <1>3, <1>4, <1>5, <1>6
<1>9. Loaded(q) \cup {NextRow(q)} = {L[i] : i \in 1 .. n + 1}
  BY <1>4, <1>5, <1>6
<1>10. QED
  BY <1>2, <1>4, <1>6, <1>7, <1>8, <1>9 DEF L

\* What the invariant says of the stored steps is kept while rows and steps are.
LEMMA StepsKept ==
    ASSUME RequestsInv, UNCHANGED <<row, steps>>, sent \subseteq sent'
    PROVE  /\ \A s \in steps' : StepIsPast(s)'
           /\ VersionsCountSteps' /\ ChargingContactors'
<1>1. ASSUME NEW s \in steps'
      PROVE  StepIsPast(s)'
  BY DEF RequestsInv, StepIsPast
<1>2. VersionsCountSteps' /\ ChargingContactors'
  BY DEF RequestsInv, VersionsCountSteps, ChargingContactors
<1>3. QED
  BY <1>1, <1>2

\* A request begins: it holds no row yet.
LEMMA BeginStep ==
    ASSUME RequestsInv, NEW q \in Requests, NEW c, IsCommand(c), Begin(q, c)
    PROVE  RequestsInv'
<1>1. /\ sent' = sent \cup {c}
      /\ c \in sent \/ Cardinality(sent) < MaxSent
      /\ request' = [request EXCEPT ![q] = [command |-> c, loaded |-> <<>>]]
      /\ request[q] = None /\ UNCHANGED <<row, steps>>
  BY DEF Begin
<1>2. /\ IsFiniteSet(sent) /\ Cardinality(sent) <= MaxSent /\ Cardinality(sent) \in Nat /\ MaxSent \in Nat
  BY FS_CardinalityType, ElectricVehicleAssumption DEF RequestsInv
<1>3. IsFiniteSet(sent') /\ Cardinality(sent') <= MaxSent
  <2>1. CASE c \in sent
    <3>1. sent' = sent
      BY <1>1, <2>1
    <3>2. QED
      BY <1>2, <3>1
  <2>2. CASE c \notin sent
    <3>1. IsFiniteSet(sent') /\ Cardinality(sent') = Cardinality(sent) + 1
      BY <1>1, <1>2, <2>2, FS_AddElement
    <3>2. QED
      BY <1>1, <1>2, <2>2, <3>1
  <2>3. QED
    BY <2>1, <2>2
<1>4. \A d \in sent' : IsCommand(d)
  BY <1>1 DEF RequestsInv
<1>5. request' = [p \in Requests |-> request'[p]]
  BY <1>1 DEF RequestsInv
<1>6. request'[q] = [command |-> c, loaded |-> <<>>] /\ \A p \in Requests : p # q => request'[p] = request[p]
  BY <1>1 DEF RequestsInv
<1>7. DOMAIN request'[q].loaded = {}
  <2>1. DOMAIN <<>> = {}
    OBVIOUS
  <2>2. request'[q].loaded = <<>>
    BY <1>6
  <2>3. QED
    BY <2>1, <2>2, Zenon
<1>8. HoldsPrefix(q)'
  <2>1. c.kind \in AllKinds
    BY ElectricVehicleAssumption DEF IsCommand
  <2>2. 0 \in 0 .. Len(Locks[c.kind]) /\ Prefix(c.kind, 0) = {}
    BY <2>1, LockOrders DEF Prefix
  <2>3. IsFiniteSet({}) /\ Cardinality({}) = 0
    BY FS_EmptySet
  <2>4. c \in sent' /\ request'[q].command = c
    BY <1>1, <1>6
  <2>5. request'[q] = [command |-> request'[q].command, loaded |-> request'[q].loaded]
    BY <1>6
  <2>6. QED
    BY <1>7, <2>2, <2>3, <2>4, <2>5 DEF HoldsPrefix, Loaded, KindOf
<1>9. ASSUME NEW p \in Requests, request'[p] # None
      PROVE  HoldsPrefix(p)'
  <2>1. CASE p = q
    BY <1>8, <2>1
  <2>2. CASE p # q
    <3>1. request'[p] = request[p] /\ HoldsPrefix(p)
      BY <1>6, <1>9, <2>2 DEF RequestsInv
    <3>2. QED
      BY <1>1, <3>1 DEF HoldsPrefix, Loaded, KindOf
  <2>3. QED
    BY <2>1, <2>2
<1>10. ASSUME NEW p \in Requests, NEW o \in Requests, p # o, request'[p] # None, request'[o] # None
       PROVE  Loaded(p)' \cap Loaded(o)' = {}
  BY <1>6, <1>7, <1>10 DEF RequestsInv, Loaded
<1>11. QED
  BY <1>1, <1>3, <1>4, <1>5, <1>9, <1>10, StepsKept DEF RequestsInv

\* A client's new command names the versions it sees.
LEMMA FreshIsCommand ==
    ASSUME RequestsInv, NEW kind \in Kinds, NEW id \in Drawn(kind)
    PROVE  IsCommand(Fresh(kind, id))
<1>1. id \in Ids
  <2> DEFINE used == {c.id : c \in {d \in sent : d.kind = kind}}
  <2>1. used \subseteq Ids
    BY DEF RequestsInv, IsCommand
  <2> DEFINE new == CHOOSE i \in Ids : i \notin used
  <2>2. id \in used \/ (~(Ids \subseteq used) /\ id = new)
    BY Zenon DEF Drawn
  <2> HIDE DEF used
  <2>3. ~(Ids \subseteq used) => new \in Ids
    BY Zenon
  <2> HIDE DEF new
  <2>4. QED
    BY <2>1, <2>2, <2>3
<1>2. Checked(kind) \subseteq Rows
  <2>1. kind \in AllKinds
    BY ElectricVehicleAssumption
  <2>2. QED
    BY <2>1, CheckedRows, LockOrders DEF Locked, Prefix
<1>3. \A r \in Checked(kind) : row[r].version \in Nat
  BY <1>2 DEF RequestsInv, Value
<1>4. QED
  BY <1>1, <1>3 DEF Fresh, IsCommand

\* SELECT FOR UPDATE of the next row.
LEMMA AcquireStep ==
    ASSUME RequestsInv, NEW q \in Requests, Acquire(q)
    PROVE  RequestsInv'
<1> DEFINE next == NextRow(q)
           loaded == Load(q, next)
<1>1. /\ request[q] # None /\ ~HoldsAll(q)
      /\ \A p \in Requests : ~Holds(p, next)
      /\ request' = [request EXCEPT ![q].loaded = loaded]
      /\ UNCHANGED <<row, steps, sent>>
  BY DEF Acquire
<1>2. /\ HoldsPrefix(q) /\ next \in Rows \ Loaded(q)
  BY <1>1, NextIsNew DEF RequestsInv
<1>3. PICK n \in 0 .. Len(Locks[KindOf(q)]) - 1 :
         /\ Cardinality(Loaded(q)) = n
         /\ Loaded(q) \cup {next} = Prefix(KindOf(q), n + 1)
  BY <1>1, NextIsNew
<1>4. DOMAIN loaded = Loaded(q) \cup {next} /\ \A r \in DOMAIN loaded : loaded[r] = row[r]
  BY <1>2 DEF Load, HoldsPrefix
<1> HIDE DEF loaded, next
<1>5. /\ request'[q] = [command |-> request[q].command, loaded |-> loaded]
      /\ request' = [p \in Requests |-> request'[p]]
      /\ \A p \in Requests : p # q => request'[p] = request[p]
  <2>1. request = [p \in Requests |-> request[p]]
    BY DEF RequestsInv
  <2>2. request[q] = [command |-> request[q].command, loaded |-> request[q].loaded]
    BY <1>2 DEF HoldsPrefix
  <2>3. /\ request'[q] = [request[q] EXCEPT !.loaded = loaded]
        /\ request' = [p \in Requests |-> request'[p]]
        /\ \A p \in Requests : p # q => request'[p] = request[p]
    BY <1>1, <2>1
  <2>4. [request[q] EXCEPT !.loaded = loaded] = [command |-> request[q].command, loaded |-> loaded]
    BY <2>2
  <2>5. QED
    BY <2>3, <2>4
<1>6. Loaded(q)' = Loaded(q) \cup {next} /\ KindOf(q)' = KindOf(q)
  BY <1>4, <1>5 DEF Loaded, KindOf
<1>7. HoldsPrefix(q)'
  <2>1. IsFiniteSet(Loaded(q)') /\ Cardinality(Loaded(q)') = n + 1
    <3>1. IsFiniteSet(Loaded(q)) /\ next \notin Loaded(q)
      BY <1>2 DEF HoldsPrefix
    <3>2. /\ IsFiniteSet(Loaded(q) \cup {next})
          /\ Cardinality(Loaded(q) \cup {next}) = Cardinality(Loaded(q)) + 1
      BY ONLY <3>1, FS_AddElement
    <3> QED
      BY ONLY <1>3, <1>6, <3>2
  <2>2. n + 1 \in 0 .. Len(Locks[KindOf(q)])
    <3>1. Len(Locks[KindOf(q)]) \in Nat
      BY <1>1, InFlight, LockOrders
    <3>2. QED
      BY <3>1
  <2>3. \A r \in Loaded(q)' : request'[q].loaded[r] = row'[r]
    BY <1>1, <1>4, <1>5, <1>6
  <2>4. request'[q].command \in sent' /\ request'[q] = [command |-> request'[q].command, loaded |-> request'[q].loaded]
    BY <1>1, <1>2, <1>5 DEF HoldsPrefix
  <2>5. QED
    BY <1>3, <1>6, <2>1, <2>2, <2>3, <2>4 DEF HoldsPrefix
<1>8. ASSUME NEW p \in Requests, request'[p] # None, p # q
      PROVE  HoldsPrefix(p)' /\ Loaded(p)' = Loaded(p) /\ next \notin Loaded(p) /\ request[p] # None
  <2>1. request'[p] = request[p] /\ HoldsPrefix(p)
    BY <1>5, <1>8 DEF RequestsInv
  <2>2. HoldsPrefix(p)' /\ Loaded(p)' = Loaded(p)
    BY <1>1, <2>1 DEF HoldsPrefix, Loaded, KindOf
  <2>3. QED
    BY <1>1, <1>8, <2>1, <2>2 DEF Holds
<1>9. ASSUME NEW p \in Requests, NEW o \in Requests, p # o, request'[p] # None, request'[o] # None
      PROVE  Loaded(p)' \cap Loaded(o)' = {}
  BY <1>1, <1>6, <1>8, <1>9 DEF RequestsInv
<1>10. \A p \in Requests : request'[p] # None => HoldsPrefix(p)'
  BY <1>7, <1>8
<1>11. QED
  BY <1>1, <1>5, <1>9, <1>10, StepsKept DEF RequestsInv

\* The end of a request that leaves rows and steps alone.
LEMMA EndStep ==
    ASSUME RequestsInv, NEW q \in Requests, End(q), UNCHANGED <<row, steps>>
    PROVE  RequestsInv'
<1>1. request' = [request EXCEPT ![q] = None] /\ sent' = sent
  BY DEF End
<1>2. /\ request' = [p \in Requests |-> request'[p]]
      /\ \A p \in Requests : request'[p] # None => request'[p] = request[p]
  BY <1>1 DEF RequestsInv
<1>3. ASSUME NEW p \in Requests, request'[p] # None
      PROVE  HoldsPrefix(p)' /\ Loaded(p)' = Loaded(p)
  <2>1. HoldsPrefix(p) /\ request'[p] = request[p]
    BY <1>2, <1>3 DEF RequestsInv
  <2>2. QED
    BY <1>1, <2>1 DEF HoldsPrefix, Loaded, KindOf
<1>4. QED
  BY <1>1, <1>2, <1>3, StepsKept DEF RequestsInv

\* The last lock is held: what the transaction sees is what is stored.
LEMMA SeenIsNow ==
    ASSUME RequestsInv, NEW q \in Requests, request[q] # None, HoldsAll(q)
    PROVE  Seen(q) = row /\ Loaded(q) = Locked(KindOf(q))
<1>1. HoldsPrefix(q) /\ row \in [Rows -> Value]
  BY DEF RequestsInv
<1>2. Seen(q) = row
  BY <1>1 DEF Seen, HoldsPrefix
<1>3. Cardinality(Loaded(q)) = Len(Locks[KindOf(q)])
  BY DEF HoldsAll, KindOf
<1>4. QED
  BY <1>1, <1>2, <1>3 DEF HoldsPrefix, Locked

\* A transaction that holds its rows writes them and its evidence in one step.
LEMMA CommitStep ==
    ASSUME RequestsInv, NEW q \in Requests, Commit(q)
    PROVE  RequestsInv'
<1>1. request[q] # None /\ HoldsAll(q) /\ ~KeyUsed(request[q].command) /\ End(q)
  BY DEF Commit, Apply
<1>2. /\ Seen(q) = row /\ Loaded(q) = Locked(KindOf(q)) /\ Loaded(q) \subseteq Rows
      /\ KindOf(q) \in AllKinds /\ HoldsPrefix(q) /\ request[q].command \in sent
  BY <1>1, SeenIsNow, InFlight DEF RequestsInv, HoldsPrefix
<1>3. PICK e \in Effects(KindOf(q), row) :
         /\ row' = [r \in Rows |-> IF e[r] = row[r] THEN row[r] ELSE e[r]]
         /\ steps' = steps \cup {[command |-> request[q].command,
                                  before |-> [r \in Loaded(q) |-> row[r].version],
                                  changed |-> {r \in Rows : e[r] # row[r]}]}
  BY <1>2 DEF Commit, Apply, KindOf
<1>4. Sound(row, e, Loaded(q)) /\ row \in [Rows -> Value]
  <2>1. row \in [Rows -> Value] /\ Contactors(row)
    BY DEF RequestsInv, ChargingContactors, Contactors
  <2>2. QED
    BY <1>2, <2>1, EffectsAreSound
<1>5. row' = e /\ row' \in [Rows -> Value] /\ ChargingContactors'
  <2>1. e \in [Rows -> Value]
    BY <1>4 DEF Sound
  <2>2. row' = e
    BY <1>3, <2>1
  <2>3. Contactors(e)
    BY <1>4 DEF Sound, RequestsInv, ChargingContactors, Contactors
  <2>4. QED
    BY <2>1, <2>2, <2>3 DEF ChargingContactors, Contactors
<1> DEFINE step == [command |-> request[q].command,
                    before |-> [r \in Loaded(q) |-> row[r].version],
                    changed |-> {r \in Rows : e[r] # row[r]}]
<1>6. /\ step.command = request[q].command /\ DOMAIN step.before = Loaded(q)
      /\ \A r \in Loaded(q) : step.before[r] = row[r].version
      /\ step.changed = {r \in Rows : e[r] # row[r]}
      /\ steps' = steps \cup {step}
  BY <1>3
<1> HIDE DEF step
<1>7. \A r \in Rows : row[r].version \in Nat
  BY <1>4 DEF Value
<1>8. \A r \in Rows : /\ r \in step.changed => r \in Loaded(q) /\ row'[r].version = row[r].version + 1
                      /\ r \notin step.changed => row'[r] = row[r]
  BY <1>4, <1>5, <1>6 DEF Sound
<1>9. sent' = sent /\ request' = [request EXCEPT ![q] = None]
  BY <1>1 DEF End
<1>10. step \notin steps /\ IsFiniteSet(steps) /\ IsFiniteSet(steps')
  <2>1. step \notin steps
    BY <1>1, <1>6 DEF KeyUsed
  <2>2. QED
    BY <1>6, <2>1, FS_AddElement DEF RequestsInv
<1>11. ASSUME NEW s \in steps'
       PROVE  StepIsPast(s)'
  <2>1. CASE s = step
    <3>1. s.changed \subseteq Rows /\ s.changed \subseteq DOMAIN s.before /\ s.command \in sent'
      BY <1>2, <1>6, <1>8, <1>9, <2>1
    <3>2. \A r \in s.changed : s.before[r] = row[r].version /\ row'[r].version = row[r].version + 1
      BY <1>6, <1>8, <2>1, <3>1
    <3>3. \A r \in s.changed : s.before[r] \in Nat /\ s.before[r] < row'[r].version
      BY <1>7, <3>1, <3>2
    <3>4. QED
      BY <3>1, <3>3 DEF StepIsPast
  <2>2. CASE s \in steps
    <3>1. /\ s.command \in sent' /\ s.changed \subseteq DOMAIN s.before
          /\ s.changed \subseteq Rows
          /\ \A r \in s.changed : s.before[r] \in Nat /\ s.before[r] < row[r].version
      BY <1>9, <2>2 DEF RequestsInv, StepIsPast
    <3>2. ASSUME NEW r \in s.changed
          PROVE  s.before[r] < row'[r].version
      <4>1. r \in Rows /\ s.before[r] < row[r].version
        BY <3>1
      <4>2. row'[r].version = row[r].version + 1 \/ row'[r].version = row[r].version
        BY <1>8, <4>1
      <4>3. QED
        BY <1>7, <3>1, <4>1, <4>2
    <3>3. QED
      BY <3>1, <3>2 DEF StepIsPast
  <2>3. QED
    BY <1>6, <2>1, <2>2
<1>12. ASSUME NEW p \in Requests, request'[p] # None
       PROVE  /\ p # q /\ request'[p] = request[p] /\ Loaded(p)' = Loaded(p)
              /\ HoldsPrefix(p)'
  <2>1. p # q /\ request'[p] = request[p]
    BY <1>9, <1>12 DEF RequestsInv
  <2>2. HoldsPrefix(p) /\ Loaded(p) \cap Loaded(q) = {} /\ Loaded(p) \subseteq Rows
    BY <1>1, <1>12, <2>1, InFlight DEF RequestsInv
  <2>3. Loaded(p)' = Loaded(p) /\ KindOf(p)' = KindOf(p)
    BY <2>1 DEF Loaded, KindOf
  <2>4. \A r \in Loaded(p) : row'[r] = row[r]
    BY <1>8, <2>2
  <2>5. QED
    BY <1>9, <2>1, <2>2, <2>3, <2>4 DEF HoldsPrefix
<1>13. /\ request' = [p \in Requests |-> request'[p]]
       /\ \A p, o \in Requests : p # o /\ request'[p] # None /\ request'[o] # None
             => Loaded(p)' \cap Loaded(o)' = {}
  <2>1. request' = [p \in Requests |-> request'[p]]
    BY <1>9 DEF RequestsInv
  <2>2. QED
    BY <1>12, <2>1 DEF RequestsInv
<1>14. ASSUME NEW r \in Rows
       PROVE  row'[r].version = 1 + Cardinality({s \in steps' : r \in s.changed})
  <2> DEFINE of == {s \in steps : r \in s.changed}
             new == {s \in steps' : r \in s.changed}
  <2>1. IsFiniteSet(of) /\ step \notin of /\ Cardinality(of) \in Nat
    BY <1>10, FS_Subset, FS_CardinalityType
  <2>2. row[r].version = 1 + Cardinality(of)
    BY DEF RequestsInv, VersionsCountSteps
  <2>3. CASE r \in step.changed
    <3>1. new = of \cup {step}
      BY <1>6, <2>3
    <3> HIDE DEF of, new
    <3>2. Cardinality(new) = Cardinality(of) + 1
      BY <2>1, <3>1, FS_AddElement
    <3>3. QED
      BY <1>8, <2>1, <2>2, <2>3, <3>2 DEF new
  <2>4. CASE r \notin step.changed
    <3>1. new = of
      BY <1>6, <2>4
    <3>2. QED
      BY <1>8, <2>2, <2>4, <3>1
  <2>5. QED
    BY <2>3, <2>4
<1>15. ASSUME NEW r \in Rows, NEW s \in steps', NEW t \in steps', s # t, r \in s.changed \cap t.changed
       PROVE  s.before[r] # t.before[r]
  <2>1. r \in step.changed => step.before[r] = row[r].version
    BY <1>6, <1>8
  <2>2. \A o \in steps : r \in o.changed => o.before[r] \in Nat /\ o.before[r] < row[r].version
    BY DEF RequestsInv, StepIsPast
  <2>3. CASE s \in steps /\ t \in steps
    BY <1>15, <2>3 DEF RequestsInv, VersionsCountSteps
  <2>4. CASE s = step /\ t \in steps
    BY <1>7, <1>15, <2>1, <2>2, <2>4
  <2>5. CASE s \in steps /\ t = step
    BY <1>7, <1>15, <2>1, <2>2, <2>5
  <2>6. QED
    BY <1>6, <1>15, <2>3, <2>4, <2>5
<1>16. VersionsCountSteps'
  BY <1>14, <1>15 DEF VersionsCountSteps
<1>17. QED
  BY <1>5, <1>9, <1>10, <1>11, <1>12, <1>13, <1>16 DEF RequestsInv

\* Whoever holds a row other than the motor holds the pack.
LEMMA PackFirst ==
    ASSUME RequestsInv, NEW q \in Requests, request[q] # None, NEW r \in Loaded(q), r # "motor"
    PROVE  "pack" \in Loaded(q)
<1> DEFINE L == Locks[KindOf(q)]
<1>1. KindOf(q) \in AllKinds /\ HoldsPrefix(q)
  BY InFlight DEF RequestsInv
<1>2. PICK n \in 0 .. Len(L) : Loaded(q) = {L[i] : i \in 1 .. n}
  BY <1>1 DEF HoldsPrefix, Prefix
<1>3. /\ Len(L) \in Nat
      /\ \A i \in 1 .. Len(L) : L[i] \notin {"pack", "motor"} => \E j \in 1 .. Len(L) : j < i /\ L[j] = "pack"
  BY <1>1, LockOrders
<1> HIDE DEF L
<1>4. PICK i \in 1 .. n : r = L[i]
  BY <1>2
<1>5. i \in 1 .. Len(L)
  BY <1>2, <1>3
<1>6. CASE r = "pack"
  BY <1>6
<1>7. CASE r # "pack"
  <2>1. PICK j \in 1 .. Len(L) : j < i /\ L[j] = "pack"
    BY <1>3, <1>4, <1>5, <1>7
  <2>2. j \in 1 .. n
    BY <1>2, <1>3, <2>1
  <2>3. QED
    BY <1>2, <2>1, <2>2
<1>8. QED
  BY <1>6, <1>7

\* Waits are for the pack or the motor, and a cycle has one of each.
LEMMA Waiting ==
    ASSUME RequestsInv
    PROVE  WaitsAreForPackOrMotor
<1>1. ASSUME NEW q \in Requests, NEW p \in Requests, Waits(q, p)
      PROVE  NextRow(q) \in {"pack", "motor"}
  <2>1. /\ request[q] # None /\ request[p] # None /\ ~HoldsAll(q) /\ NextRow(q) \in Loaded(p)
    BY <1>1 DEF Waits
  <2>2. NextRow(q) \notin Loaded(q) /\ (NextRow(q) \notin {"pack", "motor"} => "pack" \in Loaded(q))
    BY <2>1, NextIsNew
  <2>3. q # p
    BY <2>1, <2>2
  <2>4. NextRow(q) \notin {"pack", "motor"} => "pack" \in Loaded(p)
    BY <2>1, PackFirst
  <2>5. Loaded(q) \cap Loaded(p) = {}
    BY <2>1, <2>3 DEF RequestsInv
  <2>6. QED
    BY <2>2, <2>4, <2>5
<1>2. ASSUME NEW q \in Requests, NEW p \in Requests, Waits(q, p), Waits(p, q)
      PROVE  NextRow(q) # NextRow(p)
  <2>1. /\ request[q] # None /\ ~HoldsAll(q) /\ NextRow(p) \in Loaded(q)
    BY <1>2 DEF Waits
  <2>2. NextRow(q) \notin Loaded(q)
    BY <2>1, NextIsNew
  <2>3. QED
    BY <2>1, <2>2
<1>3. QED
  BY <1>1, <1>2 DEF WaitsAreForPackOrMotor

\* What the invariant says of overlapping requests.
LEMMA Serialised == RequestsInv => RequestsAreSerialised
<1> SUFFICES ASSUME RequestsInv PROVE RequestsAreSerialised
  OBVIOUS
<1>1. \A s \in steps : s.command \in sent /\ s.changed \subseteq DOMAIN s.before
  BY DEF RequestsInv, StepIsPast
<1>2. ASSUME NEW q \in Requests, request[q] # None
      PROVE  /\ request[q].command \in sent
             /\ \E n \in 0 .. Len(Locks[request[q].command.kind]) :
                  Loaded(q) = {Locks[request[q].command.kind][i] : i \in 1 .. n}
  BY <1>2 DEF RequestsInv, HoldsPrefix, Prefix, KindOf
<1>3. RequestsTypeOK
  BY <1>1, <1>2 DEF RequestsTypeOK, RequestsInv
<1>4. VersionsCountSteps /\ ChargingContactors /\ WaitsAreForPackOrMotor
  BY Waiting DEF RequestsInv
<1>5. QED
  BY <1>3, <1>4 DEF RequestsAreSerialised

\* One action of the requests.
LEMMA RequestsStep ==
    ASSUME RequestsInv, RequestStep
    PROVE  RequestsInv'
<1>1. PICK q \in Requests :
         \/ \E kind \in Kinds : \E id \in Drawn(kind) : Begin(q, Fresh(kind, id))
         \/ \E c \in sent : Begin(q, c)
         \/ Run(q)
  BY DEF RequestStep
<1>2. CASE \E kind \in Kinds : \E id \in Drawn(kind) : Begin(q, Fresh(kind, id))
  <2>1. PICK kind \in Kinds : \E id \in Drawn(kind) : Begin(q, Fresh(kind, id))
    BY <1>2
  <2>2. PICK id \in Drawn(kind) : Begin(q, Fresh(kind, id))
    BY <2>1
  <2>3. IsCommand(Fresh(kind, id))
    BY FreshIsCommand
  <2>4. QED
    BY <2>2, <2>3, BeginStep
<1>3. CASE \E c \in sent : Begin(q, c)
  <2>1. PICK c \in sent : Begin(q, c)
    BY <1>3
  <2>2. IsCommand(c)
    BY DEF RequestsInv
  <2>3. QED
    BY <2>1, <2>2, BeginStep
<1>4. CASE Acquire(q)
  BY <1>4, AcquireStep
<1>5. CASE Commit(q)
  BY <1>5, CommitStep
<1>6. CASE Conflict(q) \/ DeadlockVictim(q) \/ Fail(q)
  <2>1. End(q) /\ UNCHANGED <<row, steps>>
    BY <1>6 DEF Conflict, DeadlockVictim, Fail
  <2>2. QED
    BY <2>1, EndStep
<1>7. QED
  BY <1>1, <1>2, <1>3, <1>4, <1>5, <1>6 DEF Run

-----------------------------------------------------------------------------
(* The system                                                                *)

\* The inductive invariant: the parts do not share a variable.
IInv == RequestsInv /\ EnergyInv

\* Nothing is created, nothing is accounted.
LEMMA InitEnergy == EnergyInit => EnergyInv
<1> SUFFICES ASSUME EnergyInit PROVE EnergyInv
  OBVIOUS
<1>1. /\ pack = Missing /\ motor = Missing /\ brake = Missing
      /\ charging = Missing /\ thermal = Missing /\ range = Missing
  BY DEF EnergyInit
<1>2. ledger \in Ledger /\ ledger.drawn = 0 /\ ledger.charged = 0
  BY DEF EnergyInit, Ledger
<1>3. QED
  BY <1>1, <1>2 DEF EnergyInv, EnergyIsAccounted, EnergyTypeOK

\* While the aggregates of the physics stay, so do the statements about them.
LEMMA EnergyKept ==
    ASSUME EnergyInv, UNCHANGED energyVars
    PROVE  EnergyInv' /\ ChargeStep /\ CoverStep
<1>1. UNCHANGED <<pack, motor, brake, charging, thermal, range, ledger>>
  BY DEF energyVars
<1>2. EnergyInv'
  BY <1>1 DEF EnergyInv, EnergyIsAccounted, EnergyTypeOK
<1>3. pack # Missing => ~(pack'.soc > pack.soc)
  BY <1>1, PackNumbers
<1>4. ~(ledger'.commands > ledger.commands)
  <2>1. ledger.commands \in Nat
    BY DEF EnergyInv, EnergyIsAccounted, EnergyTypeOK, Ledger
  <2>2. ledger'.commands = ledger.commands
    BY <1>1
  <2>3. QED
    BY <2>1, <2>2
<1>5. QED
  BY <1>2, <1>3, <1>4 DEF ChargeStep, CoverStep

\* While rows, steps and requests stay, so do the statements about them.
LEMMA RequestsKept ==
    ASSUME RequestsInv, UNCHANGED requestVars
    PROVE  RequestsInv'
<1>1. UNCHANGED <<row, steps, sent, request>>
  BY DEF requestVars
<1>2. ASSUME NEW q \in Requests, request'[q] # None
      PROVE  HoldsPrefix(q)'
  BY <1>1, <1>2 DEF RequestsInv, HoldsPrefix, Loaded, KindOf
<1>3. \A q, p \in Requests : q # p /\ request'[q] # None /\ request'[p] # None => Loaded(q)' \cap Loaded(p)' = {}
  BY <1>1 DEF RequestsInv, Loaded
<1>4. /\ \A s \in steps' : StepIsPast(s)'
      /\ VersionsCountSteps' /\ ChargingContactors'
  BY <1>1, StepsKept
<1>5. QED
  BY <1>1, <1>2, <1>3, <1>4 DEF RequestsInv

\* One step of either part.
LEMMA StepHolds ==
    ASSUME IInv, [Next]_vars
    PROVE  IInv' /\ ChargeStep /\ CoverStep
<1>1. RequestsInv /\ EnergyInv
  BY DEF IInv
<1>2. CASE RequestStep /\ UNCHANGED energyVars
  <2>1. RequestsInv'
    BY <1>1, <1>2, RequestsStep
  <2>2. EnergyInv' /\ ChargeStep /\ CoverStep
    BY <1>1, <1>2, EnergyKept
  <2>3. QED
    BY <2>1, <2>2 DEF IInv
<1>3. CASE EnergyStep /\ UNCHANGED requestVars
  <2>1. RequestsInv'
    BY <1>1, <1>3, RequestsKept
  <2>2. EnergyInv' /\ ChargeStep /\ CoverStep
    BY <1>1, <1>3, EnergyStepHolds, EnergyCovered
  <2>3. QED
    BY <2>1, <2>2 DEF IInv
<1>4. CASE UNCHANGED vars
  <2>1. UNCHANGED energyVars /\ UNCHANGED requestVars
    BY <1>4 DEF vars
  <2>2. RequestsInv' /\ EnergyInv' /\ ChargeStep /\ CoverStep
    BY <1>1, <2>1, RequestsKept, EnergyKept
  <2>3. QED
    BY <2>2 DEF IInv
<1>5. QED
  BY <1>2, <1>3, <1>4 DEF Next

(* Every reachable state satisfies the inductive invariant.                  *)
THEOREM Invariance == Spec => []IInv
<1>1. Init => IInv
  BY InitRequests, InitEnergy DEF Init, IInv
<1>2. IInv /\ [Next]_vars => IInv'
  BY StepHolds
<1>3. QED
  BY <1>1, <1>2, PTL DEF Spec

(* EV-NF-004, for any number of overlapping requests, identifiers and commands*)
(* of clients: versions count the stored steps, no two of which started from  *)
(* the same version of a row they changed; every wait is for the pack or the  *)
(* motor row, and a cycle of two for one of each; contactors agree with the   *)
(* charging session.                                                          *)
THEOREM RequestsSerialised == Spec => []RequestsAreSerialised
<1>1. IInv => RequestsAreSerialised
  BY Serialised DEF IInv
<1>2. QED
  BY <1>1, Invariance, PTL

(* EV-F-038, EV-F-049, for any currents, drifts, forces, torques and targets: *)
(* the charge of the pack is what it began with, less what battery steps drew,*)
(* plus what brake steps report as recovered and sessions as charged.         *)
THEOREM EnergyAccounted == Spec => []EnergyIsAccounted
<1>1. IInv => EnergyIsAccounted
  BY DEF IInv, EnergyInv
<1>2. QED
  BY <1>1, Invariance, PTL

(* EV-F-032, EV-F-053: only a battery step charges a pack whose contactors are*)
(* open, that is in protection or that is too cold or too hot.                *)
THEOREM ChargeAccepted == Spec => ChargeIsAccepted
<1>1. IInv /\ [Next]_vars => ChargeStep
  BY StepHolds
<1>2. QED
  BY <1>1, Invariance, PTL DEF Spec, ChargeIsAccepted, ChargeStep

(* EV-NF-004: whatever a command does to protection, contactors and session   *)
(* is one of the outcomes that the overlapping requests are offered, and every*)
(* row it changes gets a new version there.                                   *)
THEOREM StepsCovered == Spec => StepsAreCovered
<1>1. IInv /\ [Next]_vars => CoverStep
  BY StepHolds
<1>2. QED
  BY <1>1, Invariance, PTL DEF Spec, StepsAreCovered, CoverStep
=============================================================================
