------------------------------- MODULE MCAdas -------------------------------
(* One straight road: the ego follows a vehicle that is slower, and somebody  *)
(* steps onto the road, stops and goes back.                                  *)
EXTENDS AdasScenarios

CONSTANTS q1, q2

MCActors ==
    [ego |-> [type |-> "ego_vehicle", order |-> 1, trajectory |-> <<>>],
     lead |-> [type |-> "vehicle", order |-> 2, trajectory |-> <<>>],
     walker |-> [type |-> "pedestrian", order |-> 3,
                 trajectory |-> <<[time |-> 0, x |-> 40, v |-> None],
                                  [time |-> 2, x |-> 36, v |-> None],
                                  [time |-> 3, x |-> 36, v |-> -1]>>]]
Clear == [visibility |-> 100, light |-> "green"]
Fog == [visibility |-> 20, light |-> "red"]
MCInitial ==
    {[actors |-> [ego |-> [x |-> 0, v |-> 10], lead |-> [x |-> 30, v |-> lead],
                  walker |-> [x |-> 40, v |-> 0]],
      context |-> Clear] : lead \in {5, 15}}
MCContexts == {Fog}
MCSensors == [radar |-> [range |-> 35, latency |-> 1]]
MCLanes == [near |-> 2, far |-> 30]
Lead == <<"object", "lead", "vehicle">>
Walker == <<"pedestrian", "walker", "pedestrian">>
RedLight == <<"signal", "light", "red">>
MCPredictionLists == {<<Lead>>, <<Lead, RedLight>>, <<Walker, RedLight>>}
Parameter(lane, following) ==
    [lane |-> lane, following |-> following, warning |-> 5, braking |-> 2, margin |-> 3]
MCParameters == {Parameter("near", 5), Parameter("far", 25)}
MCFaults == {<<>>, <<1, None>>, <<2, "green">>}
MCExpectations == {[maneuver |-> "stop", alerts |-> {"red_signal"}, f1 |-> 50]}
MCRun == [telemetry |-> {"t1"}, commands |-> {"c1"}]
MCReferences ==
    {[telemetry |-> {"t1"}, commands |-> {}, displayed |-> {"passed"}],
     [telemetry |-> {}, commands |-> {"c1", "c2"}, displayed |-> {}]}

Symmetry == Permutations(Requests)
=============================================================================
