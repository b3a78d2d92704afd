----------------------------- MODULE CanNetwork -----------------------------
(***************************************************************************)
(* The CAN network of one vehicle (can_network/): frames, arbitration,     *)
(* error confinement, the multi-bus gateway and its campaigns, and the DBC *)
(* codec.                                                                  *)
(*                                                                         *)
(* Every command selects the network FOR UPDATE before it reads anything   *)
(* else of it and holds the row until the commit: a command is one step.   *)
(* A command with another version than the network's, one that is refused  *)
(* and the replay of a stored one change nothing and are no step.          *)
(***************************************************************************)
EXTENDS CanSignalCodec, Sequences, SequencesExt

CONSTANTS
    None,
    Nodes,            \* ECUs of the network
    Gateways,         \* those with the role gateway
    Contracts,        \* frame contracts of the network
    Configurations,   \* multi-bus configurations clients send
    Messages,         \* DBC messages clients declare, as sets of signals
    Physicals,        \* physical values clients encode
    Bitrate, DataBitrate,   \* kbit/s
    Payloads,         \* payloads clients decode
    Occurrences,      \* occurrences of a fault
    Budget,           \* latency_budget_us of a campaign step
    Workloads         \* the services used, the stored commands, and the
                      \* advance_time_us and ready_offset_us of a behaviour

VARIABLES
    network,        \* the row of can_networks
    transmissions,  \* table can_frame_transmissions
    executions,     \* the other command tables, a service names its table
    catalogue,      \* messages of can_dbc_catalogues, by contract
    workload        \* the services clients use in this behaviour

vars == <<network, transmissions, executions, catalogue, workload>>

Services == {"frame", "arbitrate", "fault", "gateway", "campaign", "dbc"}
ContractType == [id : STRING, frame_id : Nat, extended : BOOLEAN, fd : BOOLEAN, brs : BOOLEAN,
                 dlc : Nat, producer : Nodes, consumers : SUBSET Nodes]
\* A LIN frame or an Ethernet message with the rate of its bus.
BusFrame == [id : STRING, length : Nat \ {0}, rate : Nat \ {0}]
\* A producer does not consume, identifiers are unique per format.
ValidTopology ==
    /\ \A c \in Contracts : /\ c.producer \notin c.consumers
                            /\ c.fd \/ (c.dlc <= 8 /\ ~c.brs)
                            /\ c.extended \/ c.frame_id <= 2047
    /\ \A c, d \in Contracts : c = d \/ /\ c.id # d.id
                                        /\ <<c.extended, c.frame_id>> # <<d.extended, d.frame_id>>

ASSUME NetworkAssumption ==
    /\ Gateways \subseteq Nodes /\ Contracts \subseteq ContractType /\ ValidTopology
    /\ IsFiniteSet(Contracts)
    /\ None \notin Nat /\ None \notin [contract : Contracts, message : Messages, version : Nat]
    /\ \A g \in Configurations : g.lin \cup g.ethernet \subseteq BusFrame
    /\ \A w \in Workloads : w.services \subseteq Services /\ w.commands \in Nat
                            /\ w.advances \subseteq Nat
    /\ {Bitrate, DataBitrate, Budget} \subseteq Nat \ {0}
    /\ Occurrences \subseteq 1..32

NoErrors == [tec |-> 0, rec |-> 0]
CreateNetwork ==
    /\ network = [version |-> 1, time |-> 0, next |-> 1, routes |-> {}, lin |-> {}, ethernet |-> {},
                  errors |-> [n \in Nodes |-> NoErrors]]
    /\ transmissions = {} /\ executions = {} /\ catalogue = None

Init == CreateNetwork /\ workload \in Workloads

\* A row of can_frame_transmissions.
Transmission(id, contract, payload, advance, sequence, time, version) ==
    [id |-> id, contract |-> contract, payload |-> payload, advance |-> advance,
     sequence |-> sequence, time |-> time, version |-> version]

Uses(service) ==
    /\ service \in workload.services
    /\ network.version <= workload.commands
\* The rows of a service have command ids 1, 2, ...: which are used is
\* immaterial, except for those that two services share (see Arbitrate).
NextId(service) == 1 + Cardinality({e \in executions : e.service = service})

\* Every command but the codec's moves the version by one.
Store(service, result) ==
    executions' = executions \cup
        {[service |-> service, id |-> NextId(service), previous |-> network.version,
          version |-> network'.version, result |-> result]}

Ceil(a, b) == (a + b - 1) \div b
BitTime(bits, rate) == Ceil(bits * 1000, rate)

\* Classic frames at one bitrate, FD frames with the data phase apart.
FrameTiming(c) ==
    LET nominal == IF ~c.fd THEN (IF c.extended THEN 67 ELSE 47) + 8 * c.dlc
                   ELSE IF c.extended THEN 52 ELSE 32
        data == IF ~c.fd THEN 0 ELSE 8 * c.dlc + IF c.dlc <= 16 THEN 17 ELSE 21
    IN  BitTime(nominal, Bitrate) + BitTime(data, IF c.brs THEN DataBitrate ELSE Bitrate)

-----------------------------------------------------------------------------
(* Error confinement *)

ErrorMode(e) == CASE e.tec >= 256 -> "bus_off"
                  [] e.tec < 256 /\ (e.tec >= 128 \/ e.rec >= 128) -> "error_passive"
                  [] OTHER -> "error_active"
IsBusOff(n) == ErrorMode(network.errors[n]) = "bus_off"
WithErrors(n, tec, rec) ==
    [network.errors EXCEPT ![n] = [tec |-> Min({tec, 256}), rec |-> Min({rec, 255})]]

\* elapsed: the advance and the error frames, 14 bits each.
InjectFault(c, n, type, count, advance) ==
    LET before == network.errors[n]
        elapsed == advance + BitTime(IF type = "frame_loss" THEN 0 ELSE 14 * count, Bitrate)
    IN  /\ Uses("fault")
        /\ IF type = "transmission_error" THEN n = c.producer ELSE n \in c.consumers
        /\ network' = [network EXCEPT !.version = @ + 1, !.time = @ + elapsed,
             !.errors = WithErrors(n,
                before.tec + (IF type = "transmission_error" THEN 8 * count ELSE 0),
                before.rec + (IF type = "reception_error" THEN count ELSE 0))]
        /\ Store("fault", [node |-> n, type |-> type, count |-> count, elapsed |-> elapsed])
        /\ UNCHANGED <<transmissions, catalogue, workload>>

RecoverNode(n) ==
    LET elapsed == BitTime(128 * 11, Bitrate)
    IN  /\ Uses("fault") /\ IsBusOff(n)
        /\ network' = [network EXCEPT !.version = @ + 1, !.time = @ + elapsed,
                                      !.errors = WithErrors(n, 0, 0)]
        /\ Store("fault", [node |-> n, type |-> "recover", count |-> 0, elapsed |-> elapsed])
        /\ UNCHANGED <<transmissions, catalogue, workload>>

-----------------------------------------------------------------------------
(* Frames and arbitration.  The rows of an arbitration are transmissions   *)
(* with command ids of their own, arb:<id>:<rank>, which a client may have *)
(* given to a frame: then the unique constraint breaks the arbitration off *)

FrameIdFree(id) == \A t \in transmissions : t.id # id

SubmitFrame(c, id, advance) ==
    /\ Uses("frame")
    /\ FrameIdFree(id)
    /\ ~IsBusOff(c.producer)
    /\ network' = [network EXCEPT !.version = @ + 1, !.next = @ + 1, !.time = @ + advance]
    /\ transmissions' = transmissions \cup
         {Transmission(id, c, c.id, advance, network.next, network'.time, network'.version)}
    /\ UNCHANGED <<executions, catalogue, workload>>

\* Lower identifiers first, standard before extended.
Precedes(c, d) == \/ c.frame_id < d.frame_id
                  \/ c.frame_id = d.frame_id /\ ~c.extended /\ d.extended

Winner(ready) == CHOOSE w \in ready : \A v \in ready : v = w \/ Precedes(w.contract, v.contract)

\* Faulty variant: the sequence is taken after it was advanced.
SequenceAfter(rank) == network.next + rank
SequenceOf(rank) == network.next + rank - 1

\* The bus when it is free again after the frame of a rank.
Send(state, rank) ==
    LET clock == Max({state.clock, Min({w.ready : w \in state.pending})})
        winner == Winner({w \in state.pending : w.ready <= clock})
        end == clock + FrameTiming(winner.contract)
    IN  [clock |-> end, pending |-> state.pending \ {winner},
         frames |-> Append(state.frames,
            [contract |-> winner.contract, ready |-> winner.ready,
             start |-> clock, end |-> end, sequence |-> SequenceOf(rank)])]

\* contenders: a sequence of [contract, payload, ready].
Arbitrated(contenders) ==
    LET n == Len(contenders)
        bus[r \in 0..n] ==
          IF r = 0 THEN [clock |-> network.time, pending |-> ToSet(contenders), frames |-> <<>>]
          ELSE Send(bus[r - 1], r)
    IN  bus[n]

ResolveContenders(order, offset) ==
    [i \in DOMAIN order |-> [contract |-> order[i], payload |-> order[i].id,
                             ready |-> network.time + offset[order[i]]]]
\* Only the declared producer contends, and none that is bus-off.
MayContend(order) == \A i \in DOMAIN order : ~IsBusOff(order[i].producer)

\* Faulty variant: the rows are zipped with the contenders as they were sent.
RankedAsSent(contenders, frames) == contenders
\* frame_order: the contenders in the order in which their frames won.
Ranked(contenders, frames) ==
    [r \in DOMAIN frames |->
       contenders[CHOOSE i \in DOMAIN contenders : contenders[i].contract = frames[r].contract]]

Arbitrate(order, offset) ==
    LET contenders == ResolveContenders(order, offset)
        outcome == Arbitrated(contenders)
        frames == outcome.frames
        ranked == Ranked(contenders, frames)
        Id(rank) == <<NextId("arbitrate"), rank>>
    IN  /\ Uses("arbitrate") /\ MayContend(order)
        /\ \A r \in DOMAIN frames : FrameIdFree(Id(r))
        /\ network' = [network EXCEPT !.version = @ + 1, !.next = @ + Len(frames),
                                      !.time = outcome.clock]
        /\ transmissions' = transmissions \cup
             {Transmission(Id(r), frames[r].contract, ranked[r].payload, 0,
                           frames[r].sequence, frames[r].end, network'.version) :
                r \in DOMAIN frames}
        /\ Store("arbitrate", [start |-> network.time, frames |-> frames])
        /\ UNCHANGED <<catalogue, workload>>

-----------------------------------------------------------------------------
(* The multi-bus gateway.  A configuration is [lin, ethernet, routes], a   *)
(* route [id, gateway, source, destination] between contracts named        *)
(* <<protocol, id>>, a LIN or Ethernet contract [id, length, rate].        *)

CanContracts == {[id |-> c.id, length |-> c.dlc] : c \in Contracts}
Declared(configuration, protocol) ==
    CASE protocol = "can" -> CanContracts
      [] protocol = "lin" -> configuration.lin
      [] protocol = "ethernet" -> configuration.ethernet
Named(configuration, end) == {d \in Declared(configuration, end[1]) : d.id = end[2]}

Protocols == {"can", "lin", "ethernet"}
Route(id, gateway, source, destination) ==
    [id |-> id, gateway |-> gateway, source |-> source, destination |-> destination]
LinFrame(id, length, rate) == [id |-> id, length |-> length, rate |-> rate]
EthernetMessage(id, length, speed) == [id |-> id, length |-> length, rate |-> speed]

\* Routes join two buses over a gateway and keep the payload length.
ValidConfiguration(configuration) ==
    \A r \in configuration.routes :
        /\ r.gateway \in Gateways
        /\ {r.source[1], r.destination[1]} \subseteq Protocols /\ r.source[1] # r.destination[1]
        /\ \E s \in Named(configuration, r.source), d \in Named(configuration, r.destination) :
             s.length = d.length

ConfigureMultibus(configuration) ==
    /\ Uses("gateway") /\ ValidConfiguration(configuration)
    /\ network' = [network EXCEPT !.version = @ + 1, !.routes = configuration.routes,
                                  !.lin = configuration.lin, !.ethernet = configuration.ethernet]
    /\ Store("gateway", [elapsed |-> 0, sequences |-> {}])
    /\ UNCHANGED <<transmissions, catalogue, workload>>

\* Time on the destination bus, whose contract the configuration holds.
RouteDuration(route) ==
    LET name == route.destination
    IN  IF name[1] = "can" THEN FrameTiming(CHOOSE c \in Contracts : c.id = name[2])
        ELSE LET d == CHOOSE x \in Named(network, name) : TRUE
             IN  IF name[1] = "lin" THEN BitTime(43 + 10 * d.length, d.rate)
                 ELSE Ceil((38 + d.length) * 8, d.rate)

ExecuteRoute(route, advance) ==
    LET elapsed == advance + RouteDuration(route)
    IN  /\ Uses("gateway")
        /\ network' = [network EXCEPT !.version = @ + 1, !.next = @ + 1, !.time = @ + elapsed]
        /\ Store("gateway", [elapsed |-> elapsed, sequences |-> {network.next}])
        /\ UNCHANGED <<transmissions, catalogue, workload>>

Faults == {"none", "frame_loss", "gateway_unavailable"}
CampaignStep == [route : network.routes, advance : workload.advances, fault : Faults]
\* A gateway that is unavailable uses neither the bus nor a sequence.
TraceStep(state, s) ==
    LET sent == s.fault # "gateway_unavailable"
        start == state.time + s.advance
        duration == IF sent THEN RouteDuration(s.route) ELSE 0
    IN  [time |-> start + duration,
         next |-> state.next + IF sent THEN 1 ELSE 0,
         trace |-> Append(state.trace,
            [sequence |-> IF sent THEN state.next ELSE None, start |-> start,
             end |-> start + duration,
             outcome |-> IF s.fault # "none" THEN "failed"
                         ELSE IF duration > Budget THEN "performance_violation"
                         ELSE "delivered"])]

\* steps: a sequence of campaign steps.
CampaignTrace(steps) ==
    LET n == Len(steps)
        run[i \in 0..n] ==
          IF i = 0 THEN [time |-> network.time, next |-> network.next, trace |-> <<>>]
          ELSE TraceStep(run[i - 1], steps[i])
    IN  run[n]

CampaignStatus(trace) ==
    LET Some(outcome) == \E i \in DOMAIN trace : trace[i].outcome = outcome
    IN  IF Some("failed") THEN "failed"
        ELSE IF Some("performance_violation") THEN "performance_degraded" ELSE "passed"

RunCampaign(steps) ==
    LET outcome == CampaignTrace(steps)
    IN  /\ Uses("campaign")
        /\ network' = [network EXCEPT !.version = @ + 1, !.next = outcome.next,
                                      !.time = outcome.time]
        /\ Store("campaign", [start |-> network.time, trace |-> outcome.trace,
                              status |-> CampaignStatus(outcome.trace)])
        /\ UNCHANGED <<transmissions, catalogue, workload>>

-----------------------------------------------------------------------------
(* The DBC catalogue and its codec, whose commands leave the network alone *)

CreateCatalogue(c, message) ==
    /\ Uses("dbc") /\ catalogue = None /\ ValidMessage(message, c.dlc)
    /\ network' = [network EXCEPT !.version = @ + 1]
    /\ catalogue' = [contract |-> c, message |-> message, version |-> network'.version]
    /\ UNCHANGED <<transmissions, executions, workload>>

StoreCodec(operation, values, payload) ==
    /\ "dbc" \in workload.services /\ catalogue # None
    /\ NextId("codec") <= workload.commands
    /\ UNCHANGED network
    /\ Store("codec", [operation |-> operation, values |-> values, payload |-> payload])
    /\ UNCHANGED <<transmissions, catalogue, workload>>

\* Values for exactly the declared signals, each of them representable.
EncodeSignals(values) ==
    /\ \A s \in catalogue.message : Representable(s, values[s.name])
    /\ StoreCodec("encode", values, EncodeMessage(catalogue.message, values))

DecodeSignals(payload) ==
    StoreCodec("decode", DecodeMessage(catalogue.message, payload), payload)

-----------------------------------------------------------------------------
Advances == workload.advances
\* Command ids of frames: their own, or one that an arbitration will want.
FrameIds == {<<0, Cardinality(transmissions)>>}
            \cup IF "arbitrate" \in workload.services THEN {<<1, 1>>} ELSE {}

FrameCommand == \E c \in Contracts, a \in Advances : \E id \in FrameIds : SubmitFrame(c, id, a)
ArbitrationCommand ==
    \E S \in (SUBSET Contracts) \ {{}} : \E offset \in [S -> Advances] : \E order \in SetToSeqs(S) :
        Arbitrate(order, offset)
FaultCommand ==
    \/ \E c \in Contracts, n \in Nodes, count \in Occurrences, a \in Advances :
         \E type \in {"transmission_error", "reception_error", "frame_loss"} :
            InjectFault(c, n, type, count, a)
    \/ \E n \in Nodes : RecoverNode(n)
GatewayCommand ==
    \/ \E configuration \in Configurations : ConfigureMultibus(configuration)
    \/ \E route \in network.routes, a \in Advances : ExecuteRoute(route, a)
CampaignCommand ==
    \E steps \in BoundedSeq(CampaignStep, 2) :
        steps # <<>> /\ RunCampaign(steps)
DbcCommand ==
    \/ \E c \in Contracts, message \in Messages : CreateCatalogue(c, message)
    \/ /\ catalogue # None
       /\ \/ \E values \in [{s.name : s \in catalogue.message} -> Physicals] : EncodeSignals(values)
          \/ \E payload \in Payloads :
               payload \subseteq 0..8 * catalogue.contract.dlc - 1 /\ DecodeSignals(payload)

Next == \/ FrameCommand \/ ArbitrationCommand \/ FaultCommand
        \/ GatewayCommand \/ CampaignCommand \/ DbcCommand

Spec == Init /\ [][Next]_vars

-----------------------------------------------------------------------------
Of(service) == {e \in executions : e.service = service}

TypeOK ==
    /\ network.version \in 1..workload.commands + 1 /\ network.time \in Nat
    /\ network.errors \in [Nodes -> [tec : 0..256, rec : 0..255]]
    /\ \A e \in executions : e.service \in Services \cup {"codec"}
    /\ \A t \in transmissions : t.contract \in Contracts

(* A network has one history: every version after the first is that of one *)
(* stored command, whichever table keeps it, or of the catalogue, and a    *)
(* command id is used once in its table.                                   *)
VersionsAreOneHistory ==
    LET changes == executions \ Of("codec")
        Versions == {e.version : e \in changes} \cup {t.version : t \in transmissions}
                    \cup IF catalogue = None THEN {} ELSE {catalogue.version}
        frames == {t \in transmissions : \A e \in Of("arbitrate") : e.version # t.version}
    IN  /\ Versions = 2..network.version
        /\ Cardinality(changes) + Cardinality(frames) + (IF catalogue = None THEN 0 ELSE 1)
             = network.version - 1
        /\ \A t, u \in transmissions : t.id = u.id => t = u

(* Frames, arbitrated frames, routed messages and campaign traces share    *)
(* one sequence without gaps, and a later sequence never ends earlier.     *)
SequencesAreOneHistory ==
    LET sent(e) == {i \in DOMAIN e.result.trace : e.result.trace[i].sequence # None}
        ends == {<<t.sequence, t.time>> : t \in transmissions}
                \cup UNION {{<<e.result.trace[i].sequence, e.result.trace[i].end>> : i \in sent(e)} :
                             e \in Of("campaign")}
        routed == UNION {e.result.sequences : e \in Of("gateway")}
    IN  /\ {x[1] : x \in ends} \cup routed = 1..network.next - 1
        /\ Cardinality(ends) + Cardinality(routed) = network.next - 1
        /\ \A x, y \in ends : x[1] < y[1] => x[2] <= y[2]
        /\ \A x \in ends : x[2] <= network.time

(* A producer that the faults before a frame left bus-off has not sent it, *)
(* neither directly nor in an arbitration: counters are those of the       *)
(* faults since the last recovery.                                         *)
LastRecovery(n, version) ==
    Max({1} \cup {e.version : e \in {f \in Of("fault") :
        f.result.node = n /\ f.result.type = "recover" /\ f.version <= version}})
TransmitErrors(n, version) ==
    LET errors == {e \in Of("fault") : /\ e.result.node = n
                                       /\ e.result.type = "transmission_error"
                                       /\ e.version \in LastRecovery(n, version)..version}
    IN  MapThenSumSet(LAMBDA e : 8 * e.result.count, errors)
BusOffIsSilent ==
    /\ \A n \in Nodes : IsBusOff(n) <=> TransmitErrors(n, network.version) >= 256
    /\ \A t \in transmissions : TransmitErrors(t.contract.producer, t.version) < 256

(* In every stored arbitration the bus carries one frame at a time, none   *)
(* before it is ready, is not idle while a frame waits, and starts no      *)
(* frame while one that precedes it waits; the row of a frame carries the  *)
(* payload its own contender sent.                                         *)
ArbitrationIsSound ==
    /\ \A e \in Of("arbitrate") : LET f == e.result.frames IN \A i \in DOMAIN f :
         LET free == IF i = 1 THEN e.result.start ELSE f[i - 1].end
         IN  /\ f[i].start >= free /\ f[i].start >= f[i].ready
             /\ \A j \in i..Len(f) : f[j].ready >= f[i].start \/ f[i].start = free
             /\ \A j \in i + 1..Len(f) :
                  ~(f[j].ready <= f[i].start /\ Precedes(f[j].contract, f[i].contract))
    /\ \A t \in transmissions : t.payload = t.contract.id

(* The logical clock is the sum of what the stored commands have used:     *)
(* waiting, frames, error frames and recoveries, nothing twice.  A         *)
(* campaign is passed only if every step was delivered within its budget.  *)
Elapsed(e) ==
    CASE e.service \in {"fault", "gateway"} -> e.result.elapsed
      [] e.service = "arbitrate" -> Last(e.result.frames).end - e.result.start
      [] e.service = "campaign" -> Last(e.result.trace).end - e.result.start
      [] e.service = "codec" -> 0
ClockAccountsForCommands ==
    /\ network.time = MapThenSumSet(Elapsed, executions)
                        + MapThenSumSet(LAMBDA t : t.advance, transmissions)
    /\ \A e \in Of("campaign") : e.result.status = "passed" =>
         \A i \in DOMAIN e.result.trace : LET s == e.result.trace[i] IN
             s.sequence # None /\ s.end - s.start <= Budget

(* What was encoded decodes to the same values, whichever other signals    *)
(* share the payload, and a payload decodes to values that encode to its   *)
(* occupied bits again.                                                    *)
CodecsRoundTrip ==
    \A e \in Of("codec") :
        LET message == catalogue.message
            bits == UNION {Occupied(s) : s \in message}
        IN  IF e.result.operation = "encode"
            THEN DecodeMessage(message, e.result.payload) = e.result.values
            ELSE EncodeMessage(message, e.result.values) = e.result.payload \cap bits

(* Versions, sequences and time of the network are used once each.         *)
HistoryIsOne ==
    /\ TypeOK
    /\ VersionsAreOneHistory /\ SequencesAreOneHistory /\ ClockAccountsForCommands

(* What is on the bus may be there, in its order and with its content.     *)
FramesAreSound == BusOffIsSilent /\ ArbitrationIsSound
=============================================================================
