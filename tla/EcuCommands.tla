----------------------------- MODULE EcuCommands -----------------------------
(***************************************************************************)
(* The commands of one simulated ECU: ecus/service.py and the endpoints of *)
(* ecus/router.py that call it.                                            *)
(*                                                                         *)
(* Every endpoint first reads the ECU without a lock (require_ecu) and the *)
(* service then selects the same row FOR UPDATE.  The ORM's identity map   *)
(* returns the object it already has, with the attributes it already has:  *)
(* version check and new state come from the first read.  The flush writes *)
(* the columns whose new value differs from the value read.                *)
(*                                                                         *)
(* A request whose expected_version is not the version it read, or whose   *)
(* command_id is already stored, changes nothing and is an Abandon.        *)
(***************************************************************************)
EXTENDS EcuTaskSchedule, FiniteSets, FiniteSetsExt

CONSTANTS
    Codes,              \* fault codes
    Policies,           \* severity, thresholds and latching of observations
    ReplacementFaults,  \* faults that a state replacement may contain
    CommandIds,         \* command_id of the recorded commands
    Requests,           \* requests in flight
    MaxCount,           \* upper limit of the fault counters, 1,000,000 in the code
    MaxVersion,         \* bound on the version of the ECU
    MaxOverlap,         \* bound on the versions at which requests overlap
    MaxOvertaken        \* bound on the overtaken requests, before the last one loads

VARIABLES
    ecu,        \* the row of electronic_control_units
    commands,   \* table ecu_simulation_commands
    snapshots,  \* memory images of ecu_memory_snapshots
    request,    \* the attributes each request has loaded
    overtaken   \* how many requests were stored that had read an older row

ecuVars == <<ecu, commands, snapshots, request, overtaken>>

OperationalStates == {"offline", "running", "degraded", "fault"}
Policy == [critical : BOOLEAN, confirm : Nat \ {0}, heal : Nat \ {0}, latched : BOOLEAN]
Fault == [critical : BOOLEAN, confirm : Nat \ {0}, heal : Nat \ {0}, latched : BOOLEAN,
          status : {"pending", "confirmed", "healed"}, active : BOOLEAN,
          occurrences : Nat, healing : Nat]
\* Whether the volatile and the non-volatile cells differ from their defaults.
Image == [volatile : BOOLEAN, nonvolatile : BOOLEAN]
Row == [state : OperationalStates, faults : [Codes -> Fault \cup {None}],
        memory : Image, signal : BOOLEAN, time : Nat, boots : Nat, version : Nat \ {0}]
Kinds == {"advance", "reset", "memory_corruption", "fault_observation",
          "fault_clear", "signal_publish"}
\* What a stored command reports, and what follows from it.
Command == [kind : Kinds, previous : Nat, version : Nat, from : Nat, to : Nat, memory : Image]

ASSUME EcuAssumption ==
    /\ IsFiniteSet(Codes)
    /\ Policies \subseteq Policy
    /\ ReplacementFaults \subseteq [Codes -> Fault \cup {None}]
    /\ MaxCount \in Nat \ {0}
    /\ MaxVersion \in Nat \ {0} /\ MaxOverlap \in Nat /\ MaxOvertaken \in Nat
    /\ None \notin Nat \cup Fault \cup Command \cup Row

-----------------------------------------------------------------------------
(* What the schemas accept *)

\* EcuFault.keep_lifecycle_consistent and the bounds of its counters.
ValidFault(f) ==
    /\ f.occurrences <= MaxCount /\ f.healing <= MaxCount
    /\ f.status = "pending" => f.occurrences < f.confirm
    /\ f.status = "healed" => ~f.active /\ ~f.latched

ValidFaults(faults) == \A c \in Codes : faults[c] # None => ValidFault(faults[c])

CriticalFault(faults) ==
    \E c \in Codes :
        faults[c] # None /\ faults[c].critical /\ faults[c].status = "confirmed"

\* EcuStatePayload: a confirmed critical fault requires the fault state.
ValidState(row) ==
    /\ ValidFaults(row.faults)
    /\ CriticalFault(row.faults) => row.state = "fault"

EcuInit ==
    /\ \E state \in OperationalStates :
         ecu = [state |-> state, faults |-> [c \in Codes |-> None],
                memory |-> [volatile |-> FALSE, nonvolatile |-> FALSE],
                signal |-> FALSE, time |-> 0, boots |-> 0, version |-> 1]
    /\ commands = [i \in CommandIds |-> None]
    /\ snapshots = {}
    /\ request = [q \in Requests |-> None]
    /\ overtaken = 0

-----------------------------------------------------------------------------
(* The shape of every request *)

\* The endpoint's require_ecu.
LoadEcu(q) ==
    /\ request[q] = None
    /\ ecu.version < MaxVersion
    /\ overtaken <= MaxOvertaken
    /\ ecu.version > MaxOverlap => \A p \in Requests : request[p] = None
    /\ request' = [request EXCEPT ![q] = ecu]
    /\ UNCHANGED <<ecu, commands, snapshots, overtaken>>

\* Conflict, exact retry, rejected input or broken connection.
Abandon(q) ==
    /\ request[q] # None
    /\ request' = [request EXCEPT ![q] = None]
    /\ UNCHANGED <<ecu, commands, snapshots, overtaken>>

\* Lock the row, set the attributes, flush and commit.
Store(q, new) ==
    /\ ecu' = [f \in DOMAIN ecu |-> IF new[f] = request[q][f] THEN ecu[f] ELSE new[f]]
    /\ request' = [request EXCEPT ![q] = None]
    /\ overtaken' = overtaken + (IF request[q] = ecu THEN 0 ELSE 1)

\* Which new identifier the client draws makes no difference.
Free == {i \in CommandIds : commands[i] = None}

\* The command is looked up under the lock and stored with the state.
RecordWith(q, kind, new, image) ==
    /\ Free # {}
    /\ commands' = [commands EXCEPT ![CHOOSE i \in Free : TRUE] =
         [kind |-> kind, previous |-> request[q].version, version |-> new.version,
          from |-> request[q].time, to |-> new.time, memory |-> image]]
    /\ Store(q, new)
    /\ UNCHANGED snapshots

Record(q, kind, new) == RecordWith(q, kind, new, new.memory)

Bump(row) == [row EXCEPT !.version = @ + 1]

-----------------------------------------------------------------------------
(* The operations *)

ReplaceState(q) ==
    /\ request[q] # None
    /\ ValidState(request[q])
    /\ \E state \in OperationalStates, faults \in ReplacementFaults, image \in Image :
         LET new == [request[q] EXCEPT !.state = state, !.faults = faults, !.memory = image]
         IN  /\ ValidState(new)
             /\ new # request[q]           \* else: nothing to replace
             /\ Store(q, Bump(new))
    /\ UNCHANGED <<commands, snapshots>>

Advance(q, duration) ==
    /\ request[q] # None
    /\ request[q].state \in {"running", "degraded"}
    /\ ValidState(request[q])
    /\ Record(q, "advance", Bump([request[q] EXCEPT !.time = @ + duration]))

\* Faulty variant: faults do not hold the fault state.
ResetToOffline(q, hard) ==
    /\ request[q] # None
    /\ ValidState(request[q])
    /\ Record(q, "reset", Bump([request[q] EXCEPT !.state = "offline", !.time = @ + 1]))

\* A power cycle is a longer hard reset.
Reset(q, hard) ==
    /\ request[q] # None
    /\ ValidState(request[q])
    /\ Record(q, "reset", Bump([request[q] EXCEPT
           !.state = IF CriticalFault(request[q].faults) THEN "fault" ELSE "offline",
           !.memory.volatile = @ /\ ~hard,
           !.time = @ + (IF hard THEN 2 ELSE 1),
           !.boots = @ + 1]))

CreateSnapshot(q) ==
    /\ request[q] # None
    /\ snapshots' = snapshots \cup {request[q].memory}
    /\ request' = [request EXCEPT ![q] = None]
    /\ UNCHANGED <<ecu, commands, overtaken>>

RestoreSnapshot(q) ==
    /\ request[q] # None
    /\ ValidState(request[q])
    /\ \E image \in snapshots : Store(q, Bump([request[q] EXCEPT !.memory = image]))
    /\ UNCHANGED <<commands, snapshots>>

\* The cells are changed in place, in the list that was read: the new list
\* equals it, and the flush does not write the column.
CorruptMemory(q) ==
    /\ request[q] # None
    /\ \E image \in Image :
         RecordWith(q, "memory_corruption", Bump(request[q]), image)

PublishSignal(q) ==
    /\ request[q] # None
    /\ \E value \in BOOLEAN :
         Record(q, "signal_publish", Bump([request[q] EXCEPT !.signal = value]))

-----------------------------------------------------------------------------
(* The fault lifecycle *)

\* _apply_fault_operational_state
FaultState(state, faults) ==
    IF \E c \in Codes : /\ faults[c] # None
                        /\ faults[c].active
                        /\ faults[c].critical
                        /\ faults[c].status = "confirmed"
    THEN "fault"
    ELSE IF state = "fault" THEN "degraded" ELSE state

WithFault(row, c, fault) ==
    LET faults == [row.faults EXCEPT ![c] = fault]
    IN  Bump([row EXCEPT !.faults = faults, !.state = FaultState(row.state, faults)])

Status(confirmed) == IF confirmed THEN "confirmed" ELSE "pending"

FirstDetection(p) ==
    [critical |-> p.critical, confirm |-> p.confirm, heal |-> p.heal, latched |-> p.latched,
     status |-> Status(p.confirm = 1), active |-> TRUE, occurrences |-> 1, healing |-> 0]

Detection(f) ==
    [f EXCEPT !.status = Status(@ = "confirmed" \/ f.occurrences + 1 >= f.confirm),
              !.active = TRUE, !.occurrences = @ + 1, !.healing = 0]

\* Faulty variant: a latched fault heals like any other.
AbsenceOfLatched(f) ==
    LET healed == f.healing + 1 >= f.heal
    IN  [f EXCEPT !.status = IF healed THEN "healed" ELSE @, !.active = ~healed,
                  !.healing = @ + 1]

Absence(f) ==
    LET latched == f.latched /\ f.status = "confirmed"
        healed == ~latched /\ f.healing + 1 >= f.heal
    IN  [f EXCEPT !.status = IF healed THEN "healed" ELSE @,
                  !.active = ~healed,
                  !.occurrences = IF f.status = "pending" THEN 0 ELSE @,
                  !.healing = @ + 1]

Known(f) == f # None /\ f.status # "healed"

\* An observation of a known fault must repeat its policy, an unknown or healed
\* fault must be detected; anything else is rejected.
ObserveFault(q, c, detected) ==
    /\ request[q] # None
    /\ ValidFaults(request[q].faults)
    /\ LET current == request[q].faults[c]
       IN  \E fault \in IF ~Known(current)
                        THEN IF detected THEN {FirstDetection(p) : p \in Policies} ELSE {}
                        ELSE {IF detected THEN Detection(current) ELSE Absence(current)} :
               Record(q, "fault_observation", WithFault(request[q], c, fault))

ClearFault(q, c) ==
    /\ request[q] # None
    /\ ValidFaults(request[q].faults)
    /\ Known(request[q].faults[c])
    /\ Record(q, "fault_clear", WithFault(request[q], c,
           [request[q].faults[c] EXCEPT !.status = "healed", !.active = FALSE,
                                        !.latched = FALSE]))

-----------------------------------------------------------------------------

StateCommand(q) ==
    \/ ReplaceState(q)
    \/ \E duration \in 1 .. 2 : Advance(q, duration)
    \/ \E hard \in BOOLEAN : Reset(q, hard)

MemoryCommand(q) == CreateSnapshot(q) \/ RestoreSnapshot(q) \/ CorruptMemory(q)

SignalCommand(q) ==
    \/ PublishSignal(q)
    \/ \E c \in Codes, detected \in BOOLEAN : ObserveFault(q, c, detected)
    \/ \E c \in Codes : ClearFault(q, c)

Execute(q) == StateCommand(q) \/ MemoryCommand(q) \/ SignalCommand(q)

EcuStep == \E q \in Requests : LoadEcu(q) \/ Abandon(q) \/ Execute(q)

-----------------------------------------------------------------------------
(* Properties *)

\* Type correctness; a counter may pass its limit once.
EcuTypeOK ==
    /\ ecu \in Row
    /\ ecu.version <= MaxVersion
    /\ \A c \in Codes :
         ecu.faults[c] # None => ecu.faults[c].occurrences <= MaxCount + 1
    /\ commands \in [CommandIds -> Command \cup {None}]
    /\ snapshots \subseteq Image
    /\ request \in [Requests -> Row \cup {None}]
    /\ overtaken \in Nat

\* ECU-FR-034 "Latched confirmed faults shall require an explicit clear
\* command": no sequence of observations, resets or restores heals one.  (A
\* state replacement states the faults explicitly.)  Whatever requests are in
\* flight, only one that read other faults than are stored may overwrite it.
LatchedNeedsClearing ==
    [][\A c \in Codes :
         LET f == ecu.faults[c]
         IN  f # None /\ f.status = "confirmed" /\ f.latched /\ ecu'.faults[c] # f =>
               \/ ecu'.faults[c] # None /\ ecu'.faults[c].status = "confirmed"
               \/ \E q \in Requests : /\ request[q] # None /\ request'[q] = None
                                      /\ request[q].faults # ecu.faults
               \/ ecu'.faults \in ReplacementFaults
               \/ \E i \in CommandIds : commands[i] = None /\ commands'[i] # None
                                       /\ commands'[i].kind = "fault_clear"]_ecuVars

\* ECU-FR-033 "Confirmed critical faults shall move the ECU to fault state",
\* and nothing but their end moves it away again: not a reset, not an advance,
\* whatever requests are in flight, until one of them is stored that had read
\* an older row.
ActiveCriticalMeansFault ==
    overtaken = 0 =>
    \A c \in Codes :
        LET f == ecu.faults[c]
        IN  f # None /\ f.critical /\ f.active /\ f.status = "confirmed"
              => ecu.state = "fault"

Stored(i) == commands[i] # None

\* docs/ecu-simulator.md:42 "A row lock and expected version make concurrent
\* updates explicit": no two commands were applied to the same version.
VersionsAreUsedOnce ==
    \A i, j \in CommandIds :
        i # j /\ Stored(i) /\ Stored(j) => commands[i].previous # commands[j].previous

\* The stored commands are one history: in the order of their versions each
\* starts at or after the logical time at which the one before it ended, and
\* the ECU has not fallen behind any of them.
CommandsAreOneHistory ==
    /\ VersionsAreUsedOnce
    /\ \A i, j \in CommandIds :
         Stored(i) /\ Stored(j) /\ commands[i].previous < commands[j].previous =>
             commands[i].version <= commands[j].previous /\ commands[i].to <= commands[j].from
    /\ \A i \in CommandIds :
         Stored(i) => commands[i].version <= ecu.version /\ commands[i].to <= ecu.time

\* The reference definition: the instants of a window at which a task is due.
DueInstants(t, from, to) ==
    {at \in from + 1 .. to : at >= FirstSchedule(t) /\ (at - t.offset) % t.period = 0}

Advances == {i \in CommandIds : Stored(i) /\ commands[i].kind = "advance"}

\* docs/ecu-simulator.md "returns execution count plus first and last due times
\* for every task ... without executing a real-time loop": whatever commands
\* lie between them, the stored advances report exactly the due instants they
\* passed, none twice and none lost at the edge between two of them.
TaskRunsAreDue ==
    \A t \in Tasks :
        LET Summary(i) == TaskRunSummary(t, commands[i].from, commands[i].to)
            Instants(i) == DueInstants(t, commands[i].from, commands[i].to)
        IN  /\ \A i \in Advances :
                 IF Instants(i) = {} THEN Summary(i).first = None /\ Summary(i).last = None
                 ELSE /\ Summary(i).first \in Instants(i)
                      /\ Summary(i).last \in Instants(i)
                      /\ Instants(i) \subseteq Summary(i).first .. Summary(i).last
            /\ MapThenSumSet(LAMBDA i : Summary(i).count, Advances)
                 = Cardinality(UNION {Instants(i) : i \in Advances})
=============================================================================
