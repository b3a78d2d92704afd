--------------------------- MODULE MCEcuFleet -----------------------------
(* Small instances of EcuFleet for TLC. *)
EXTENDS EcuFleet

\* A latched and an unlatched policy, with different thresholds.
MCPolicies ==
    {[critical |-> TRUE, confirm |-> 1, heal |-> 1, latched |-> TRUE],
     [critical |-> TRUE, confirm |-> 2, heal |-> 2, latched |-> FALSE]}

\* No faults, or an inactive confirmed critical one.
MCReplacementFaults ==
    LET f == [critical |-> TRUE, confirm |-> 1, heal |-> 2, latched |-> FALSE,
              status |-> "confirmed", active |-> FALSE, occurrences |-> 1, healing |-> 1]
        none == [c \in Codes |-> None]
    IN  {none, [none EXCEPT ![CHOOSE c \in Codes : TRUE] = f]}

Route(a, b) == [gateway |-> "gateway", source |-> a, target |-> b]

\* Two opposite routes; one gateway is the source of its route.
MCGatewayRoutes == {Route("a", "b"), [Route("b", "a") EXCEPT !.gateway = "b"]}

\* A scenario that meets the opposite transfer, and one that meets its second
\* ECU.
MCPlans == {<<PublishSignalOf("a", 1), TransferOn(Route("a", "b"))>>, <<ChangeOf("b")>>}
=============================================================================
