---------------------------- MODULE MCCanNetwork ----------------------------
(* Bounds for CanNetwork: a topology in which every rule has two sides.    *)
EXTENDS CanNetwork

MCWorkloads ==
    {[services |-> {"frame", "arbitrate"}, commands |-> 2, advances |-> {0, 150}],
     [services |-> {"frame", "arbitrate", "fault"}, commands |-> 3, advances |-> {0}],
     [services |-> {"frame", "fault"}, commands |-> 4, advances |-> {0}],
     [services |-> {"frame", "gateway", "campaign"}, commands |-> 3, advances |-> {0, 100}],
     [services |-> {"dbc"}, commands |-> 1, advances |-> {}]}

Contract(id, frame_id, extended, fd, dlc, producer, consumers) ==
    [id |-> id, frame_id |-> frame_id, extended |-> extended, fd |-> fd, brs |-> fd, dlc |-> dlc,
     producer |-> producer, consumers |-> consumers]
MCNodes == {"engine", "body"}
MCGateways == {"body"}
MCContracts == {Contract("torque", 16, FALSE, FALSE, 1, "engine", {"body"}),
                Contract("doors", 16, TRUE, FALSE, 2, "body", {"engine"}),
                Contract("camera", 256, FALSE, TRUE, 12, "engine", {"body"})}

MCConfigurations ==
    {[lin |-> {LinFrame("lamp", 1, 20)}, ethernet |-> {},
      routes |-> {Route("light", "body", <<"can", "torque">>, <<"lin", "lamp">>)}],
     [lin |-> {}, ethernet |-> {EthernetMessage("video", 12, 100)},
      routes |-> {Route("stream", "body", <<"ethernet", "video">>, <<"can", "camera">>),
                  Route("record", "body", <<"can", "camera">>, <<"ethernet", "video">>)}],
     [lin |-> {LinFrame("lamp", 3, 20)}, ethernet |-> {},
      routes |-> {Route("light", "body", <<"can", "torque">>, <<"lin", "lamp">>)}]}

MCPhysicals == {-8, -3, 0, 1, 5, 7, 12, 15}
MCPayloads == SUBSET {0, 1, 2, 3, 4, 7, 14, 15}
MCMessages ==
    {{Signal("speed", "motorola", 1, 4, FALSE, 1, 0), Signal("gear", "intel", 2, 3, TRUE, 1, 0)},
     {Signal("speed", "intel", 0, 4, TRUE, 1, 0), Signal("gear", "motorola", 7, 4, FALSE, 2, -3)},
     {Signal("speed", "intel", 2, 4, FALSE, 1, 0), Signal("gear", "motorola", 3, 3, FALSE, 1, 0)}}
=============================================================================
