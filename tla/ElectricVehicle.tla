--------------------------- MODULE ElectricVehicle ---------------------------
(***************************************************************************)
(* The electric-vehicle commands of one vehicle: electric_vehicle/service.py*)
(* and scenario_service.py.  Every command looks for its stored result     *)
(* without a lock, then locks the rows it needs one SELECT FOR UPDATE      *)
(* after the other, compares versions, computes, stores its evidence and   *)
(* commits.  Each command has its own order of rows.                       *)
(*                                                                         *)
(* Physical inputs are left out: where they decide (a battery step ends in *)
(* protection or not, a brake step recovers energy or not, a charge step   *)
(* reaches its target or not) the outcome is free.                         *)
(***************************************************************************)
EXTENDS Integers, FiniteSets, Sequences

CONSTANTS
    Kinds,     \* the commands offered, of the seven
    Ids,       \* command_id and execution_id values of the clients
    Requests,  \* requests in flight
    MaxSent,   \* bound on the commands that clients make up
    None       \* absence of a request

VARIABLES
    row,      \* the aggregates of the vehicle
    steps,    \* stored evidence of the applied commands
    sent,     \* commands that clients have made up, and may send again
    request   \* transactions: the command and the rows locked and loaded

requestVars == <<row, steps, sent, request>>

AllKinds == {"battery", "range", "motor", "brake", "charging", "thermal", "scenario"}
Rows == {"pack", "motor", "brake", "charging", "thermal", "range", "ecu", "network"}
ChargingStates == {"idle", "charging", "paused", "completed", "faulted"}
Value == [version : Nat \ {0}, protection : BOOLEAN, closed : BOOLEAN, state : ChargingStates]

ASSUME ElectricVehicleAssumption ==
    /\ Kinds \subseteq AllKinds
    /\ IsFiniteSet(Requests)
    /\ MaxSent \in Nat

\* Faulty variant: the range estimator is locked before what it reads.
LocksRangeFirst ==
    [battery  |-> <<"pack">>,
     range    |-> <<"range", "thermal", "pack">>,
     motor    |-> <<"motor", "pack">>,
     brake    |-> <<"motor", "pack", "brake">>,
     charging |-> <<"pack", "charging">>,
     thermal  |-> <<"pack", "motor", "thermal">>,
     scenario |-> <<"pack", "motor", "brake", "charging", "thermal", "range",
                    "ecu", "network">>]

\* The order in which each command locks its rows.
Locks == [battery  |-> <<"pack">>,
          range    |-> <<"pack", "thermal", "range">>,
          motor    |-> <<"motor", "pack">>,
          brake    |-> <<"motor", "pack", "brake">>,
          charging |-> <<"pack", "charging">>,
          thermal  |-> <<"pack", "motor", "thermal">>,
          scenario |-> <<"pack", "motor", "brake", "charging", "thermal", "range",
                         "ecu", "network">>]

\* The rows whose expected version the command names; a motor step reads the
\* battery pack whatever its version.
Checked(kind) ==
    IF kind = "motor" THEN {"motor"}
    ELSE IF kind = "brake" THEN {"brake", "pack"}
    ELSE {Locks[kind][i] : i \in 1 .. Len(Locks[kind])}

IsCommand(c) == c.kind \in Kinds /\ c.id \in Ids /\ c.expected \in [Checked(c.kind) -> Nat]

Loaded(q) == DOMAIN request[q].loaded
Holds(q, r) == request[q] # None /\ r \in Loaded(q)
NextRow(q) == Locks[request[q].command.kind][Cardinality(Loaded(q)) + 1]
HoldsAll(q) == Cardinality(Loaded(q)) = Len(Locks[request[q].command.kind])
Waits(q, p) == /\ request[q] # None /\ request[p] # None /\ ~HoldsAll(q)
               /\ NextRow(q) \in Loaded(p)

RequestsInit ==
    /\ row = [r \in Rows |-> [version |-> 1, protection |-> FALSE, closed |-> FALSE,
                              state |-> "idle"]]
    /\ steps = {}
    /\ sent = {}
    /\ request = [q \in Requests |-> None]

-----------------------------------------------------------------------------
(* What the commands do to the rows they loaded *)

Bump(s, changed) ==
    [r \in Rows |-> IF r \in changed THEN [s[r] EXCEPT !.version = @ + 1] ELSE s[r]]

WithPack(s, protection, closed) ==
    [s EXCEPT !["pack"] = [version |-> @.version, protection |-> protection,
                           closed |-> closed, state |-> @.state]]

WithCharging(s, state) == [s EXCEPT !["charging"] = [@ EXCEPT !.state = state]]

\* _operating_state: the contactors are open exactly in protection.
BatteryEffects(s) == {Bump(WithPack(s, p, ~p), {"pack"}) : p \in BOOLEAN}

\* Energy is recovered, and the battery changed, only through closed contactors.
BrakeEffects(s) ==
    {Bump(s, {"brake"})} \cup
    (IF s["pack"].closed /\ ~s["pack"].protection THEN {Bump(s, {"brake", "pack"})} ELSE {})

\* START writes the pack only if its contactors are open; the other changes of
\* contactors, and every charge, always count as a change of the pack.
ChargingMove(s, from, to, closed) ==
    IF s["charging"].state \in from
    THEN {Bump(WithPack(WithCharging(s, to), s["pack"].protection, closed),
               {"charging", "pack"})}
    ELSE {}

ChargingStart(s) ==
    IF s["charging"].state \notin {"idle", "completed"} THEN {}
    ELSE {Bump(WithPack(WithCharging(s, "charging"), s["pack"].protection, TRUE),
               IF s["pack"].closed THEN {"charging"} ELSE {"charging", "pack"})}

ChargingClear(s) ==
    IF s["charging"].state # "faulted" THEN {}
    ELSE {Bump(WithCharging(s, "idle"), {"charging"})}

\* start, charge without and with reaching the target, pause, resume, stop,
\* inject_fault, clear_fault
ChargingEffects(s) ==
    UNION {ChargingStart(s),
           ChargingMove(s, {"charging"}, "charging", s["pack"].closed),
           ChargingMove(s, {"charging"}, "completed", FALSE),
           ChargingMove(s, {"charging"}, "paused", FALSE),
           ChargingMove(s, {"paused"}, "charging", TRUE),
           ChargingMove(s, {"charging", "paused"}, "completed", FALSE),
           ChargingMove(s, {"charging", "paused"}, "faulted", FALSE),
           ChargingClear(s)}

ScenarioEffects(s) == {Bump(WithPack(WithCharging(s, "faulted"), TRUE, FALSE), Rows)}

Effects(kind, s) ==
    CASE kind = "battery"  -> BatteryEffects(s)
      [] kind = "range"    -> {Bump(s, {"range"})}
      [] kind = "motor"    -> {Bump(s, {"motor"})}
      [] kind = "brake"    -> BrakeEffects(s)
      [] kind = "charging" -> ChargingEffects(s)
      [] kind = "thermal"  -> {Bump(s, {"pack", "motor", "thermal"})}
      [] kind = "scenario" -> ScenarioEffects(s)

-----------------------------------------------------------------------------
(* The requests *)

KeyUsed(c) == \E s \in steps : s.command.kind = c.kind /\ s.command.id = c.id

\* The client makes a command up from the versions it sees, or sends an earlier
\* one again.  A stored command answers at once, and a used identifier is a
\* conflict; neither changes anything.
Begin(q, c) ==
    /\ request[q] = None
    /\ \/ c \in sent
       \/ Cardinality(sent) < MaxSent
    /\ sent' = sent \cup {c}
    /\ ~KeyUsed(c)
    /\ request' = [request EXCEPT ![q] = [command |-> c, loaded |-> <<>>]]
    /\ UNCHANGED <<row, steps>>

Fresh(kind, id) == [kind |-> kind, id |-> id,
                    expected |-> [r \in Checked(kind) |-> row[r].version]]

\* Clients draw new identifiers, or use one again by mistake; which new one
\* they draw makes no difference.
Drawn(kind) ==
    LET used == {c.id : c \in {d \in sent : d.kind = kind}}
    IN  used \cup (IF Ids \subseteq used THEN {} ELSE {CHOOSE i \in Ids : i \notin used})

Load(q, r) == [x \in Loaded(q) \cup {r} |-> IF x = r THEN row[r] ELSE request[q].loaded[x]]

Acquire(q) ==
    /\ request[q] # None /\ ~HoldsAll(q)
    /\ \A p \in Requests : ~Holds(p, NextRow(q))
    /\ request' = [request EXCEPT ![q].loaded = Load(q, NextRow(q))]
    /\ UNCHANGED <<row, steps, sent>>

Seen(q) == [r \in Rows |-> IF r \in Loaded(q) THEN request[q].loaded[r] ELSE row[r]]

Current(q) == \A r \in Checked(request[q].command.kind) :
                 request[q].command.expected[r] = request[q].loaded[r].version

End(q) ==
    /\ request' = [request EXCEPT ![q] = None]
    /\ UNCHANGED sent

\* Only what differs from the loaded attributes is written; the unique
\* constraint on the command identifier is the last check.
Apply(q) ==
    /\ ~KeyUsed(request[q].command)
    /\ \E new \in Effects(request[q].command.kind, Seen(q)) :
         /\ row' = [r \in Rows |-> IF new[r] = Seen(q)[r] THEN row[r] ELSE new[r]]
         /\ steps' = steps \cup {[command |-> request[q].command,
                                  before |-> [r \in Loaded(q) |-> Seen(q)[r].version],
                                  changed |-> {r \in Rows : new[r] # Seen(q)[r]}]}
    /\ End(q)

Commit(q) ==
    /\ request[q] # None /\ HoldsAll(q)
    /\ Current(q)
    /\ Apply(q)

\* Faulty variant: a request with stale versions waits for better ones.
ConflictWaiting(q) ==
    /\ request[q] # None /\ HoldsAll(q)
    /\ ~Current(q) \/ request[q].command.kind \in {"charging", "scenario"}
    /\ UNCHANGED requestVars

\* A version differs, or the charging state does not allow the action, or
\* the scenario's contract does not fit.
Conflict(q) ==
    /\ request[q] # None /\ HoldsAll(q)
    /\ ~Current(q) \/ request[q].command.kind \in {"charging", "scenario"}
    /\ End(q)
    /\ UNCHANGED <<row, steps>>

\* The database rolls a transaction of a wait cycle back.
DeadlockVictim(q) ==
    /\ \E p \in Requests : Waits(q, p) /\ Waits(p, q)
    /\ End(q)
    /\ UNCHANGED <<row, steps>>

\* Lost connection, crash, violated unique constraint.
Fail(q) ==
    /\ request[q] # None
    /\ End(q)
    /\ UNCHANGED <<row, steps>>

Run(q) == Acquire(q) \/ Commit(q) \/ Conflict(q) \/ DeadlockVictim(q) \/ Fail(q)

RequestStep ==
    \E q \in Requests :
        \/ \E kind \in Kinds : \E id \in Drawn(kind) : Begin(q, Fresh(kind, id))
        \/ \E c \in sent : Begin(q, c)
        \/ Run(q)

\* The database grants a contended row lock in turn and finds every deadlock;
\* a transaction that holds its rows is run to its end.
Fairness ==
    \A q \in Requests : /\ SF_requestVars(Acquire(q))
                        /\ WF_requestVars(Commit(q) \/ Conflict(q) \/ DeadlockVictim(q))

-----------------------------------------------------------------------------
(* Properties *)

\* Type correctness; a transaction loads its rows in the order of its command.
RequestsTypeOK ==
    /\ row \in [Rows -> Value]
    /\ \A s \in steps : s.command \in sent /\ s.changed \subseteq DOMAIN s.before
    /\ \A c \in sent : IsCommand(c)
    /\ Cardinality(sent) <= MaxSent
    /\ \A q \in Requests :
         request[q] # None =>
             /\ request[q].command \in sent
             /\ \E n \in 0 .. Len(Locks[request[q].command.kind]) :
                  Loaded(q) = {Locks[request[q].command.kind][i] : i \in 1 .. n}

\* EV-NF-004 "Mutations lock the pack and require an exact expected version":
\* the version of a row counts the stored steps that changed it, so no step
\* was lost or applied to a state that another step had replaced.
VersionsCountSteps ==
    \A r \in Rows :
        /\ row[r].version = 1 + Cardinality({s \in steps : r \in s.changed})
        /\ \A s, t \in steps :
             s # t /\ r \in s.changed \cap t.changed => s.before[r] # t.before[r]

\* Every command but the motor-first ones passes through the pack row: a
\* transaction that holds any other row holds the pack too, so a wait is only
\* ever for the pack or the motor row, and a cycle of waits is one of a motor or
\* brake step that holds the motor with a thermal step or scenario that holds
\* the pack.
WaitsAreForPackOrMotor ==
    \A q, p \in Requests :
        Waits(q, p) =>
            /\ NextRow(q) \in {"pack", "motor"}
            /\ Waits(p, q) => {NextRow(q), NextRow(p)} = {"pack", "motor"}

\* Contactors do not contradict an active charging session: a session that
\* charges with open contactors was cut by a battery step in protection.
ChargingContactors ==
    row["charging"].state = "charging" /\ ~row["pack"].closed => row["pack"].protection

\* EV-NF-004 for overlapping requests: the parts above.
RequestsAreSerialised ==
    RequestsTypeOK /\ VersionsCountSteps /\ WaitsAreForPackOrMotor /\ ChargingContactors

\* Every request is answered although the commands lock rows in different
\* orders.
RequestsEnd == \A q \in Requests : request[q] # None ~> request[q] = None
=============================================================================
