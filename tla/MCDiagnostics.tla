---------------------------- MODULE MCDiagnostics ----------------------------
(* Bounds for Diagnostics: which services a behaviour combines, and what the *)
(* catalogues may define.                                                    *)
EXTENDS Diagnostics, TLC

Workload(services, types, n, unlocked) ==
    [services |-> services \cup {"session_control"}, types |-> types, commands |-> n,
     unlocked |-> unlocked]
MCWorkloads ==
    {Workload({"security_access", "flash"}, {"programming"}, 8, TRUE),
     Workload({"security_access", "wrong_key", "ecu_reset"}, {"default", "extended"}, 5, FALSE),
     Workload({"did"}, {"programming"}, 3, FALSE),
     Workload({"dtc"}, {"programming"}, 3, FALSE),
     Workload({"dtc", "campaign"}, {}, 2, FALSE),
     Workload({"routine"}, {"programming"}, 3, FALSE)}

MCSymmetry == Permutations(Requests)

MCDidDefinitions == {[writable |-> TRUE, readable |-> SessionTypes,
                      writableIn |-> {"default", "extended"}]}
MCRoutineDefinitions == {[sessions |-> {"default", "extended"}, duration |-> 1, stops |-> TRUE]}
===============================================================================
