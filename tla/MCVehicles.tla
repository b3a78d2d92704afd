----------------------------- MODULE MCVehicles -----------------------------
(* Small instances of Vehicles for TLC. *)
EXTENDS Vehicles, TLC

MCRank == [v \in Vehicles |-> IF v = CHOOSE w \in Vehicles : TRUE THEN 1 ELSE 2]

\* A stopped vehicle in driving mode with its motor off, a charging one, one
\* that faulted, and one that could drive off with the charger connected.
MCPayloads ==
    {[Baseline EXCEPT !.mode = "driving", !.parkingBrake = FALSE],
     [Baseline EXCEPT !.mode = "charging", !.charging = "charging", !.contactors = TRUE],
     [Baseline EXCEPT !.mode = "fault", !.speed = 10],
     [Baseline EXCEPT !.charging = "connected", !.energy = 1000]}

Inputs(accelerator, brake, grade, steering) ==
    [accelerator |-> accelerator, brake |-> brake, grade |-> grade, steering |-> steering]
MCStepInputs == {Inputs(0, 0, 0, 0), Inputs(100, 0, -20, 0), Inputs(0, 100, 0, 0), Inputs(0, 40, -30, 90)}

\* No definition orders or names a delivery or a request.
Symmetries == Permutations(Commands) \cup Permutations(Pollers) \cup Permutations(Acks)
              \cup Permutations(Restores) \cup Permutations(Simulators)
=============================================================================
