--------------------------- MODULE MCElectricDrive ---------------------------
(* The electric vehicle with a handful of physical inputs.                   *)
EXTENDS ElectricDrive

MCCharges == {8, 88}
MCTemperatures == {20}
MCDrifts == {-35, 35}
MCCurrents == {15, -15}
MCTorques == {90}
MCSpeeds == {0, 1, 2}
MCForces == {9, 30}
MCTargets == {90}
=============================================================================
