------------------------------ MODULE EcuNetwork ------------------------------
(* Several ECUs of one vehicle: signal routes and their transfers in         *)
(* ecus/service.py, and the scenarios of ecus/scenario_service.py, which run *)
(* the commands of single ECUs one after the other in one transaction.       *)
(*                                                                           *)
(* A transaction reads some rows before it locks them, and keeps what it     *)
(* read (see EcuCommands): a publication its ECU, a transfer the gateway, a  *)
(* scenario every ECU of the vehicle.                                        *)
(*                                                                           *)
(* Exact retries, expected versions that are not those seen, and values that *)
(* a signal does not accept change nothing: they are a DropRequest.          *)
EXTENDS Integers, Sequences, FiniteSets, FiniteSetsExt

CONSTANTS
    Ecus,        \* the ECUs of the vehicle
    Routes,      \* routes that may be created: gateway, source, target
    Values,      \* values of a signal
    Plans,       \* action sequences of the scenarios
    Executions,  \* execution_id values of the scenarios
    Clients,     \* requests in flight
    MaxStored,   \* bound on the commands stored and in progress
    NoRequest    \* absence of a request

VARIABLES
    fleet,       \* signals and version of every ECU
    routes,      \* table ecu_signal_routes
    stored,      \* table ecu_simulation_commands, in the order of the commits
    executions,  \* table ecu_scenario_executions
    client       \* transactions: plan, rows read and locked, results so far

fleetVars == <<fleet, routes, stored, executions, client>>

\* One action, on the rows it locks, in their order.  The actions that advance
\* time, observe a fault or corrupt memory change no signal: one stands for all.
PublishSignalOf(e, v) == [kind |-> "publish", rows |-> <<e>>, value |-> v]
ChangeOf(e) == [kind |-> "change", rows |-> <<e>>]
TransferOn(r) == [kind |-> "transfer", rows |-> <<r.source, r.target>>, route |-> r]

RouteOf(a) == IF a.kind = "transfer" THEN a.route ELSE NoRequest

\* What a scenario may contain: at least one action, each of one of these forms.
PlannedActions ==
    {PublishSignalOf(e, v) : e \in Ecus, v \in Values} \cup {ChangeOf(e) : e \in Ecus}
        \cup {TransferOn(r) : r \in Routes}

ASSUME EcuNetworkAssumption ==
    /\ IsFiniteSet(Clients)
    /\ \A r \in Routes : {r.source, r.target} \subseteq Ecus /\ r.source # r.target
    /\ \A plan \in Plans : plan \in Seq(PlannedActions) /\ plan # <<>>
    /\ Values # {} /\ NoRequest \notin Executions
    /\ MaxStored \in Nat

Active(c) == client[c] # NoRequest
Waiting(c) == client[c].kind = "scenario" /\ DOMAIN client[c].seen = {}
More(c) == Active(c) /\ ~Waiting(c) /\ Len(client[c].results) < Len(client[c].plan)
Action(c) == client[c].plan[Len(client[c].results) + 1]
Unlocked(c) == {i \in DOMAIN Action(c).rows : Action(c).rows[i] \notin client[c].locks}
NextLock(c) == Action(c).rows[Min(Unlocked(c))]
Blocks(c, d) == More(c) /\ Unlocked(c) # {} /\ Active(d) /\ NextLock(c) \in client[d].locks

InProgress ==
    Len(stored) + MapThenSumSet(LAMBDA c : IF Active(c) THEN Len(client[c].plan) ELSE 0, Clients)

NetworkInit ==
    /\ LET v == CHOOSE x \in Values : TRUE    \* all signals start alike
       IN  fleet = [e \in Ecus |-> [produced |-> v, consumed |-> v, version |-> 1]]
    /\ routes = {}
    /\ stored = <<>>
    /\ executions = {}
    /\ client = [c \in Clients |-> NoRequest]

-----------------------------------------------------------------------------
CreateSignalRoute(r) ==
    /\ r \notin routes
    /\ routes' = routes \cup {r}
    /\ UNCHANGED <<fleet, stored, executions, client>>

Start(c, kind, execution, plan, read) ==
    /\ ~Active(c)
    /\ InProgress + Len(plan) <= MaxStored
    /\ client' = [client EXCEPT ![c] =
           [kind |-> kind, execution |-> execution, plan |-> plan,
            seen |-> [e \in read |-> fleet[e]], locks |-> {}, touched |-> {},
            results |-> <<>>]]
    /\ UNCHANGED <<fleet, routes, stored, executions>>

\* The endpoint's require_ecu reads the ECU of a publication, and the gateway
\* of a transfer.
StartPublish(c, e, v) == Start(c, "direct", NoRequest, <<PublishSignalOf(e, v)>>, {e})

StartTransfer(c, r) ==
    /\ r \in routes
    /\ Start(c, "direct", NoRequest, <<TransferOn(r)>>, {r.gateway} \cap Ecus)

StartScenario(c, x, plan) == Start(c, "scenario", x, plan, {})

\* The vehicle row, the check for a stored execution, and the first measurement
\* of resources, which reads every ECU of the vehicle.
ClaimScenario(c) ==
    /\ Active(c) /\ Waiting(c)
    /\ \A d \in Clients : Active(d) /\ client[d].kind = "scenario" => Waiting(d)
    /\ client[c].execution \notin executions
    /\ client' = [client EXCEPT ![c].seen = fleet]
    /\ UNCHANGED <<fleet, routes, stored, executions>>

\* Faulty variant: transfers read their rows without locking them.
LockUnlessTransfer(c) ==
    /\ More(c) /\ Unlocked(c) # {}
    /\ Action(c).kind # "transfer" => \A d \in Clients : ~Blocks(c, d)
    /\ LET e == NextLock(c)
       IN  client' = [client EXCEPT
             ![c].locks = @ \cup {e},
             ![c].seen = [s \in DOMAIN @ \cup {e} |-> IF s \in DOMAIN @ THEN @[s] ELSE fleet[s]]]
    /\ UNCHANGED <<fleet, routes, stored, executions>>

LockRow(c) ==
    /\ More(c) /\ Unlocked(c) # {}
    /\ \A d \in Clients : ~Blocks(c, d)
    /\ LET e == NextLock(c)
       IN  client' = [client EXCEPT
             ![c].locks = @ \cup {e},
             ![c].seen = [s \in DOMAIN @ \cup {e} |-> IF s \in DOMAIN @ THEN @[s] ELSE fleet[s]]]
    /\ UNCHANGED <<fleet, routes, stored, executions>>

-----------------------------------------------------------------------------
(* The actions, on the rows as the transaction has them *)

Bumped(row) == [row EXCEPT !.version = @ + 1]

\* The last row of an action is the one it changes.
Changed(a) == a.rows[Len(a.rows)]

Effect(a, seen) ==
    CASE a.kind = "publish" -> Bumped([seen[Changed(a)] EXCEPT !.produced = a.value])
      [] a.kind = "change" -> Bumped(seen[Changed(a)])
      [] a.kind = "transfer" ->
           Bumped([seen[Changed(a)] EXCEPT !.consumed = seen[a.route.source].produced])

\* A route that was created disabled stays so, and is refused like one that was
\* not created: it is left out of the routes.
Allowed(a) == a.kind = "transfer" => a.route \in routes

Perform(c) ==
    /\ More(c) /\ Unlocked(c) = {}
    /\ Allowed(Action(c))
    /\ LET e == Changed(Action(c))
           old == client[c].seen[e]
           new == Effect(Action(c), client[c].seen)
       IN  client' = [client EXCEPT
             ![c].seen[e] = new,
             ![c].touched = IF [new EXCEPT !.version = 0] = [old EXCEPT !.version = 0]
                            THEN @ ELSE @ \cup {e},
             ![c].results = Append(@, [kind |-> Action(c).kind, ecu |-> e,
                                       execution |-> client[c].execution,
                                       index |-> Len(@) + 1, previous |-> old.version,
                                       consumed |-> new.consumed,
                                       route |-> RouteOf(Action(c))])]
    /\ UNCHANGED <<fleet, routes, stored, executions>>

\* The flush writes the columns that were changed: the version of every ECU
\* acted on, and its signals, one column, if one of them differs.
Flushed(c) ==
    LET acted == {client[c].results[i].ecu : i \in DOMAIN client[c].results}
    IN  [e \in Ecus |->
           [produced |-> IF e \in client[c].touched THEN client[c].seen[e].produced
                         ELSE fleet[e].produced,
            consumed |-> IF e \in client[c].touched THEN client[c].seen[e].consumed
                         ELSE fleet[e].consumed,
            version |-> IF e \in acted THEN client[c].seen[e].version ELSE fleet[e].version]]

End(c) == client' = [client EXCEPT ![c] = NoRequest]

CommitFleet(c) ==
    /\ Active(c) /\ Len(client[c].results) = Len(client[c].plan)
    /\ fleet' = Flushed(c)
    /\ stored' = stored \o client[c].results
    /\ executions' = executions \cup
                       (IF client[c].kind = "scenario" THEN {client[c].execution} ELSE {})
    /\ End(c)
    /\ UNCHANGED routes

\* Faulty variant: what the scenario did before a refused action is kept.
DropRequestKeeping(c) ==
    /\ Active(c)
    /\ fleet' = IF Waiting(c) THEN fleet ELSE Flushed(c)
    /\ stored' = stored \o client[c].results
    /\ End(c)
    /\ UNCHANGED <<routes, executions>>

\* Refused, answered from a stored result, or failed; nothing is kept.
DropRequest(c) ==
    /\ Active(c)
    /\ End(c)
    /\ UNCHANGED <<fleet, routes, stored, executions>>

\* Faulty variant: a stored execution is not answered, the request waits.
AnswerNever(c) == Active(c) /\ UNCHANGED fleetVars

\* What the service refuses or answers by itself.
Answer(c) ==
    /\ Active(c)
    /\ \/ Waiting(c) /\ client[c].execution \in executions
       \/ More(c) /\ Unlocked(c) = {} /\ ~Allowed(Action(c))
    /\ End(c)
    /\ UNCHANGED <<fleet, routes, stored, executions>>

\* The routes join the rows of two ECUs: a cycle of waits is one of two.
FleetDeadlockVictim(c) ==
    /\ \E d \in Clients : Blocks(c, d) /\ Blocks(d, c)
    /\ End(c)
    /\ UNCHANGED <<fleet, routes, stored, executions>>

RunFleet(c) ==
    ClaimScenario(c) \/ LockRow(c) \/ Perform(c) \/ CommitFleet(c) \/ Answer(c)
    \/ FleetDeadlockVictim(c) \/ DropRequest(c)

NetworkStep ==
    \/ \E r \in Routes : CreateSignalRoute(r)
    \/ \E c \in Clients :
         \/ \E e \in Ecus, v \in Values : StartPublish(c, e, v)
         \/ \E r \in Routes : StartTransfer(c, r)
         \/ \E x \in Executions, plan \in Plans : StartScenario(c, x, plan)
         \/ RunFleet(c)

\* The database grants a contended row in turn and finds every deadlock; a
\* transaction that has its rows is run to its end.
NetworkFairness ==
    \A c \in Clients :
        /\ SF_fleetVars(ClaimScenario(c) \/ LockRow(c))
        /\ WF_fleetVars(Perform(c) \/ CommitFleet(c) \/ Answer(c) \/ FleetDeadlockVictim(c))

-----------------------------------------------------------------------------
(* Type correctness; a transaction changes only rows it has locked.   *)
NetworkTypeOK ==
    /\ \A e \in Ecus : fleet[e].produced \in Values /\ fleet[e].consumed \in Values
    /\ routes \subseteq Routes /\ executions \subseteq Executions
    /\ InProgress <= MaxStored
    /\ \A c \in Clients : Active(c) =>
         /\ client[c].locks \subseteq DOMAIN client[c].seen
         /\ client[c].touched \subseteq client[c].locks
         /\ Len(client[c].results) <= Len(client[c].plan)

CommandsOn(e) == {i \in DOMAIN stored : stored[i].ecu = e}
ByScenarios == {i \in DOMAIN stored : stored[i].execution # NoRequest}

(* docs/ecu-simulator.md:130-132 "A vehicle row lock closes concurrent claim   *)
(* races, and the endpoint commits every primitive action [and] the scenario   *)
(* row ... together": an execution stands for all its actions, once, and what  *)
(* is stored under it, in the order of its actions, is there only with it.     *)
ScenariosAreWhole ==
    /\ \A i \in ByScenarios : stored[i].execution \in executions
    /\ \A x \in executions :
         LET mine == {i \in ByScenarios : stored[i].execution = x}
         IN  /\ \E plan \in Plans : Cardinality(mine) = Len(plan)
             /\ \A i, j \in mine : i < j => stored[i].index < stored[j].index

(* Transfers alone, and scenarios alone, lose no update: while no other kind   *)
(* of request has committed, nor a transfer whose gateway is its own target,   *)
(* the version of every ECU counts its commands, and no two of them started    *)
(* from one version.                                                           *)
AloneTheyAreSerial ==
    (\A i \in DOMAIN stored :
        stored[i].kind = "transfer" /\ i \notin ByScenarios
        /\ stored[i].route.gateway # stored[i].ecu)
    \/ ByScenarios = DOMAIN stored
    => \A e \in Ecus :
         /\ fleet[e].version = 1 + Cardinality(CommandsOn(e))
         /\ \A i, j \in CommandsOn(e) : i # j => stored[i].previous # stored[j].previous

(* docs/ecu-simulator.md:114-115 "copies the current value while checking both *)
(* source and target versions, then updates only the target ECU": whatever     *)
(* else is in flight, a direct transfer changes no other ECU.  Its gateway is  *)
(* read before the locks: of the ends that the gateway is not, the transfer    *)
(* advances the version the target has at the commit, and leaves there the     *)
(* value that the source has then.                                             *)
TransfersAreCurrent ==
    [][\A i \in DOMAIN stored' \ DOMAIN stored :
         stored'[i].kind = "transfer" /\ stored'[i].execution = NoRequest =>
           LET r == stored'[i].route
               old == fleet[r.target]
               new == fleet'[r.target]
           IN  /\ r \in routes /\ stored'[i].ecu = r.target
               /\ \A e \in Ecus \ {r.target} : fleet'[e] = fleet[e]
               /\ r.gateway # r.target =>
                    /\ stored'[i].previous = old.version /\ new.version = old.version + 1
                    /\ new.produced = old.produced
               /\ r.gateway \notin {r.source, r.target} =>
                    new.consumed = fleet[r.source].produced]_fleetVars

(* Every request ends, although transfers of opposite routes and scenarios     *)
(* lock the ECUs in different orders.                                          *)
NetworkRequestsEnd == \A c \in Clients : Active(c) ~> ~Active(c)
=============================================================================
