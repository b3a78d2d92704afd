---------------------------- MODULE ElectricDrive ----------------------------
(* The electric vehicle of one vehicle, in two parts that a behaviour starts  *)
(* one of: the overlapping requests of ElectricVehicle, whose physical        *)
(* outcomes are free, and the physics of ElectricEnergy, one command at a     *)
(* time.  StepsAreCovered relates the two: whatever the physics does is one   *)
(* of the outcomes that the requests are allowed.                             *)
EXTENDS ElectricVehicle, ElectricEnergy

CONSTANTS Workloads  \* the parts offered, of "requests" and "energy"

VARIABLES workload

vars == <<workload, requestVars, energyVars>>

Init ==
    /\ workload \in Workloads
    /\ RequestsInit
    /\ EnergyInit

Next ==
    \/ workload = "requests" /\ RequestStep /\ UNCHANGED <<workload, energyVars>>
    \/ workload = "energy" /\ EnergyStep /\ UNCHANGED <<workload, requestVars>>

Spec == Init /\ [][Next]_vars /\ Fairness

-----------------------------------------------------------------------------
(* The rows that the requests lock, as the physics has them. *)
Abstract(p, c) ==
    WithPack(WithCharging([r \in Rows |-> [version |-> 1, protection |-> FALSE, closed |-> FALSE,
                                          state |-> "idle"]],
                          IF c = Missing THEN "idle" ELSE c.state),
             p.state = "protection", p.closed)

(* What a row is beside its version, which the physics does not have. *)
Unversioned(r) == [r EXCEPT !.version = 1]

(* The rows that a command changed. *)
Changed ==
    LET old == <<pack, motor, brake, charging, thermal, range>>
        names == <<"pack", "motor", "brake", "charging", "thermal", "range">>
    IN  {names[i] : i \in {j \in 1..6 : old'[j] # old[j]}}

-----------------------------------------------------------------------------
(* EV-NF-004 "Mutations lock the pack and require an exact expected version": *)
(* a command changes no row without the version bump that the requests        *)
(* account for, and its protection, contactors and session state are one of   *)
(* the outcomes offered there.  Were it not so, a client that names the       *)
(* version it saw could act on another state.                                 *)
StepsAreCovered ==
    [][ledger'.commands > ledger.commands =>
         LET old == Abstract(pack, charging)
             new == Abstract(pack, charging)'
         IN  \E e \in Effects(ledger'.kind, old) :
               /\ \A r \in Rows : Unversioned(e[r]) = new[r]
               /\ \A r \in Changed : e[r].version > 1]_vars

(* EV-F-032, EV-F-053: only a battery step, which names its current, charges  *)
(* a pack whose contactors are open, that is in protection or that is too     *)
(* cold or too hot, whichever steps moved its temperature or its contactors   *)
(* since its state was last classified.                                       *)
ChargeIsAccepted ==
    [][pack # Missing /\ pack'.soc > pack.soc /\ ledger'.kind # "battery" => Chargeable(pack)]_vars
=============================================================================
