------------------------------- MODULE EcuFleet -------------------------------
(* The ECUs of a vehicle, in two parts that a behaviour starts one of: every  *)
(* command of one ECU (EcuCommands), and the requests that involve several    *)
(* (EcuNetwork).                                                              *)
EXTENDS EcuCommands, EcuNetwork

CONSTANTS Workloads  \* the parts offered, of "commands" and "network"

VARIABLES workload

vars == <<workload, ecuVars, fleetVars>>

Init == workload \in Workloads /\ EcuInit /\ NetworkInit

Next ==
    \/ workload = "commands" /\ EcuStep /\ UNCHANGED <<workload, fleetVars>>
    \/ workload = "network" /\ NetworkStep /\ UNCHANGED <<workload, ecuVars>>

Spec == Init /\ [][Next]_vars /\ NetworkFairness

-----------------------------------------------------------------------------
(* Type correctness of both parts. *)
TypeOK == workload \in Workloads /\ EcuTypeOK /\ NetworkTypeOK

(* The history of one ECU (EcuCommands), and of several (EcuNetwork): no      *)
(* command is lost, applied twice to a version, or kept by half, and cyclic   *)
(* tasks ran as often as their ECU's clock has passed their releases.  Of one *)
(* ECU it holds until a request is stored that had read an older row.         *)
HistoriesAreSound ==
    /\ TypeOK
    /\ overtaken = 0 => CommandsAreOneHistory /\ TaskRunsAreDue
    /\ ScenariosAreWhole /\ AloneTheyAreSerial
=============================================================================
