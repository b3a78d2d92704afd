----------------------------- MODULE Diagnostics -----------------------------
(***************************************************************************)
(* The diagnostic catalogues of one ECU beside its session: data           *)
(* identifiers, routines, trouble codes and read campaigns of              *)
(* diagnostics/service.py.                                                 *)
(*                                                                         *)
(* The catalogues are not under the session lock when an entry is added:   *)
(* a service looks the key and the size of the table up, and inserts       *)
(* afterwards.  A unique constraint refuses the second row of one key;     *)
(* nothing refuses a row over the limit.                                   *)
(***************************************************************************)
EXTENDS DiagnosticSession

CONSTANTS
    Dids, Routines, Codes,      \* keys; Codes is 1..n, in the order of the listing
    DidDefinitions, RoutineDefinitions,
    MaxDids, MaxRoutines, MaxDtcs,  \* limits per ECU: 128, 64 and 200 in the code
    MaxReports                  \* bound on the reports of trouble codes

VARIABLES
    dids,       \* table diagnostic_data_identifiers
    routines,   \* tables diagnostic_routines and diagnostic_routine_states
    dtcs,       \* table diagnostic_trouble_codes
    campaigns,  \* table diagnostic_campaigns
    evidence    \* what the events say of reports, new codes and cleared codes

catalogueVars == <<dids, routines, dtcs, campaigns, evidence>>
vars == <<sessionVars, catalogueVars>>
sessionRows == <<ecu, session, security, flash>>

DidDefinition == [writable : BOOLEAN, readable : SUBSET SessionTypes,
                  writableIn : SUBSET SessionTypes]
RoutineDefinition == [sessions : SUBSET SessionTypes, duration : Nat, stops : BOOLEAN]
Dtc == [occurrences : Nat \ {0}, version : Nat \ {0}]
Campaign == [id : CommandIds, codes : SUBSET Codes, dids : SUBSET Dids]
RoutineState == [status : {"idle", "running", "completed", "stopped"},
                 completes : Nat \cup {None}, invocations : Nat, version : Nat \ {0}]
DidRow == [definition : DidDefinitions, version : Nat \ {0}]
RoutineRow == [definition : RoutineDefinitions, state : RoutineState]

Command ==
    [service : {"session_control", "security_access", "ecu_reset", "flash", "read_dids",
                "write_did", "start_routine", "stop_routine", "routine_results", "clear_dtcs"},
     entry : Dids \cup Routines \cup {None},
     previous : Nat, session : Nat, security : Nat, flash : Nat, onEcu : Nat]

\* What a request has read, the key that it looked up and the codes that it
\* listed; 0 is the version of an entry that the client has not seen.
RequestRow ==
    [stage : {"loaded", "create_did", "create_routine", "report_new", "report_again", "clear"},
     id : CommandIds, ecu : Ecu, session : Nat, security : Nat, flash : Nat, block : Nat,
     catalogue : [did : [Dids -> Nat], routine : [Routines -> Nat]],
     item : Dids \cup Routines \cup Codes \cup {None}, listed : SUBSET Codes]

\* DidCreate.validate_definition; the value is in range of its definition.
ValidDefinition(d) ==
    /\ d.readable # {}
    /\ d.writable <=> d.writableIn # {}

ASSUME DiagnosticsAssumption ==
    /\ DidDefinitions \subseteq {d \in DidDefinition : ValidDefinition(d)}
    /\ RoutineDefinitions \subseteq {r \in RoutineDefinition : r.sessions # {}}
    /\ Codes = 1..Cardinality(Codes)
    /\ {MaxDids, MaxRoutines, MaxDtcs, MaxReports} \subseteq Nat
    /\ IsFiniteSet(Dids) /\ IsFiniteSet(Routines) /\ IsFiniteSet(Codes)
    /\ None \notin DidRow /\ None \notin RoutineRow /\ None \notin Dtc
    /\ None \notin Command /\ None \notin RequestRow

Present(table) == {k \in DOMAIN table : table[k] # None}

Init ==
    /\ SessionInit
    /\ dids = [d \in Dids |-> None]
    /\ routines = [r \in Routines |-> None]
    /\ dtcs = [c \in Codes |-> None]
    /\ campaigns = {}
    /\ evidence = [reported |-> 0, stored |-> 0, cleared |-> 0]

Load(q) ==
    /\ LoadContext(q,
         [did |-> [d \in Dids |-> IF dids[d] = None THEN 0 ELSE dids[d].version],
          routine |-> [r \in Routines |->
                          IF routines[r] = None THEN 0 ELSE routines[r].state.version]])
    /\ UNCHANGED catalogueVars

\* The request keeps what it has looked up.
Look(q, stage, item, listed) ==
    /\ request' = [request EXCEPT ![q].stage = stage, ![q].item = item, ![q].listed = listed]
    /\ UNCHANGED <<sessionRows, commands, workload, catalogueVars>>

Finish(q) ==
    /\ request' = [request EXCEPT ![q] = None]
    /\ UNCHANGED <<sessionRows, commands, workload>>

-----------------------------------------------------------------------------
(* Data identifiers *)

BeginCreateDid(q) ==
    /\ Holds(q, "loaded") /\ "did" \in workload.services
    /\ Cardinality(Present(dids)) < MaxDids
    /\ \E d \in Dids \ Present(dids) : Look(q, "create_did", d, {})

CreateDid(q) ==
    /\ Holds(q, "create_did")
    /\ dids[request[q].item] = None
    /\ \E d \in DidDefinitions :
         dids' = [dids EXCEPT ![request[q].item] = [definition |-> d, version |-> 1]]
    /\ Finish(q)
    /\ UNCHANGED <<routines, dtcs, campaigns, evidence>>

\* Repeatable under one command_id, and read under the session lock.
ReadDids(q) ==
    /\ Ready(q, "did")
    /\ \E d \in Present(dids) : session.type \in dids[d].definition.readable
    /\ UNCHANGED <<sessionRows, catalogueVars>>
    /\ Record(q, "read_dids")

WriteDid(q) ==
    /\ Ready(q, "did")
    /\ SeesSession(q)
    /\ UNCHANGED <<sessionRows, routines, dtcs, campaigns, evidence>>
    /\ \E d \in Present(dids) :
         /\ request[q].catalogue.did[d] = dids[d].version
         /\ dids[d].definition.writable
         /\ session.type \in dids[d].definition.writableIn
         /\ dids' = [dids EXCEPT ![d].version = @ + 1]
         /\ RecordFor(q, "write_did", d)

-----------------------------------------------------------------------------
(* Routines *)

BeginCreateRoutine(q) ==
    /\ Holds(q, "loaded") /\ "routine" \in workload.services
    /\ Cardinality(Present(routines)) < MaxRoutines
    /\ \E r \in Routines \ Present(routines) : Look(q, "create_routine", r, {})

CreateRoutine(q) ==
    /\ Holds(q, "create_routine")
    /\ routines[request[q].item] = None
    /\ \E r \in RoutineDefinitions :
         routines' = [routines EXCEPT ![request[q].item] =
             [definition |-> r,
              state |-> [status |-> "idle", completes |-> None, invocations |-> 0,
                         version |-> 1]]]
    /\ Finish(q)
    /\ UNCHANGED <<dids, dtcs, campaigns, evidence>>

\* _refresh_routine_state
Refreshed(state, now) ==
    IF state.status = "running" /\ now >= state.completes
    THEN [state EXCEPT !.status = "completed", !.version = @ + 1] ELSE state

Started(state, definition, now) ==
    Refreshed([status |-> "running", completes |-> now + definition.duration,
               invocations |-> state.invocations + 1, version |-> state.version + 1], now)

ControlRoutine(q) ==
    /\ Ready(q, "routine")
    /\ SeesSession(q)
    /\ UNCHANGED <<sessionRows, dids, dtcs, campaigns, evidence>>
    /\ \E r \in Present(routines) :
         LET definition == routines[r].definition
             now == request[q].ecu.time
             state == Refreshed(routines[r].state, now)
             Set(new) == routines' = [routines EXCEPT ![r].state = new]
         IN  /\ request[q].catalogue.routine[r] = routines[r].state.version
             /\ session.type \in definition.sessions
             /\ \/ /\ state.status # "running"
                   /\ Set(Started(state, definition, now))
                   /\ RecordFor(q, "start_routine", r)
                \/ /\ definition.stops /\ state.status = "running"
                   /\ Set([state EXCEPT !.status = "stopped", !.completes = None,
                                        !.version = @ + 1])
                   /\ RecordFor(q, "stop_routine", r)
                \/ /\ state.status # "idle"
                   /\ Set(state)
                   /\ RecordFor(q, "routine_results", r)

-----------------------------------------------------------------------------
(* Trouble codes *)

RowLocked(c) == \E p \in Requests : Holds(p, "report_again") /\ request[p].item = c

\* The row is selected FOR UPDATE; without a row nothing is locked.
BeginReportDtc(q) ==
    /\ Holds(q, "loaded") /\ "dtc" \in workload.services
    /\ evidence.reported < MaxReports
    /\ \E c \in Codes :
         IF dtcs[c] = None
         THEN Cardinality(Present(dtcs)) < MaxDtcs /\ Look(q, "report_new", c, {})
         ELSE ~RowLocked(c) /\ Look(q, "report_again", c, {})

ReportDtc(q) ==
    /\ \/ /\ Holds(q, "report_new")
          /\ dtcs[request[q].item] = None
          /\ dtcs' = [dtcs EXCEPT ![request[q].item] = [occurrences |-> 1, version |-> 1]]
          /\ evidence' = [evidence EXCEPT !.reported = @ + 1, !.stored = @ + 1]
       \/ /\ Holds(q, "report_again")
          /\ dtcs' = [dtcs EXCEPT ![request[q].item] =
                       [occurrences |-> @.occurrences + 1, version |-> @.version + 1]]
          /\ evidence' = [evidence EXCEPT !.reported = @ + 1]
    /\ Finish(q)
    /\ UNCHANGED <<dids, routines, campaigns>>

\* list_dtcs with its limit, in the order of the codes.
Listed == {c \in Present(dtcs) : Cardinality({b \in Present(dtcs) : b < c}) < MaxDtcs}

BeginClearDtcs(q) ==
    /\ Ready(q, "dtc")
    /\ SeesSession(q)
    /\ commands[request[q].id] = None
    /\ Look(q, "clear", None, Listed)

ClearDtcs(q) ==
    /\ Holds(q, "clear")
    /\ \A c \in request[q].listed : ~RowLocked(c)
    /\ dtcs' = [c \in Codes |-> IF c \in request[q].listed THEN None ELSE dtcs[c]]
    /\ evidence' = [evidence EXCEPT !.cleared = @ + Cardinality(request[q].listed)]
    /\ session' = Bump(session)
    /\ UNCHANGED <<ecu, security, flash, dids, routines, campaigns>>
    /\ Record(q, "clear_dtcs")

-----------------------------------------------------------------------------
(* Campaigns of OBD and DID reads, which have command ids of their own *)

RunCampaign(q) ==
    /\ Holds(q, "loaded") /\ "campaign" \in workload.services
    /\ \A c \in campaigns : c.id # request[q].id
    /\ campaigns' = campaigns \cup
         {[id |-> request[q].id, codes |-> Listed, dids |-> Present(dids)]}
    /\ Finish(q)
    /\ UNCHANGED <<dids, routines, dtcs, evidence>>

DidRequest(q) == BeginCreateDid(q) \/ CreateDid(q) \/ ReadDids(q) \/ WriteDid(q)
RoutineRequest(q) == BeginCreateRoutine(q) \/ CreateRoutine(q) \/ ControlRoutine(q)
DtcRequest(q) == BeginReportDtc(q) \/ ReportDtc(q) \/ BeginClearDtcs(q) \/ ClearDtcs(q)

Next ==
    \/ SessionStep /\ UNCHANGED catalogueVars
    \/ \E q \in Requests : \/ Load(q) \/ DidRequest(q) \/ RoutineRequest(q)
                           \/ DtcRequest(q) \/ RunCampaign(q)

Spec == Init /\ [][Next]_vars

-----------------------------------------------------------------------------
TypeOK ==
    /\ SessionTypeOK
    /\ workload \in Workloads
    /\ commands \in [CommandIds -> Command \cup {None}]
    /\ request \in [Requests -> RequestRow \cup {None}]
    /\ dids \in [Dids -> DidRow \cup {None}]
    /\ routines \in [Routines -> RoutineRow \cup {None}]
    /\ dtcs \in [Codes -> Dtc \cup {None}]
    /\ campaigns \subseteq Campaign
    /\ evidence \in [reported : Nat, stored : Nat, cleared : Nat]

(* Each command of a service under the session lock took effect once: the  *)
(* session, the security and the download have one history, each routine   *)
(* was invoked as often as a start of it is stored, and the version of     *)
(* each DID counts the stored writes of it.                                *)
StoredFor(service, entry) ==
    {i \in Stored : commands[i].service = service /\ commands[i].entry = entry}
EffectsAreStoredCommands ==
    /\ CommandsAreOneHistory
    /\ \A r \in Present(routines) :
         routines[r].state.invocations = Cardinality(StoredFor("start_routine", r))
    /\ \A d \in Present(dids) :
         dids[d].version - 1 = Cardinality(StoredFor("write_did", d))

(* Whatever requests overlap, a session and what it granted are one        *)
(* history.                                                                *)
SessionsAreSound ==
    /\ TypeOK /\ SecurityIsOfThisSession
    /\ EffectsAreStoredCommands /\ ImageIsInOrder

(* The limits of the catalogues are checked before the insert and not      *)
(* under a lock: they are kept up to one row for every other request in    *)
(* flight, and no further.                                                 *)
CataloguesOverrunByRequests ==
    LET Within(table, limit) == Cardinality(Present(table)) <= limit + Cardinality(Requests) - 1
    IN  Within(dids, MaxDids) /\ Within(routines, MaxRoutines) /\ Within(dtcs, MaxDtcs)

(* Reports race clears: the cleared_count of the clears and the codes that *)
(* are left add up to the codes the reports have stored.                   *)
ClearsAccountForCodes ==
    evidence.stored = evidence.cleared + Cardinality(Present(dtcs))

(* What overlapping requests leave in the catalogues.                      *)
CataloguesAreAccounted == CataloguesOverrunByRequests /\ ClearsAccountForCodes
===============================================================================
