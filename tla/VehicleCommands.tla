-------------------------- MODULE VehicleCommands ---------------------------
(***************************************************************************)
(* Leased delivery of the commands of one vehicle to one gateway module:   *)
(* vehicles/service.py create_vehicle_command, claim_next_vehicle_command  *)
(* and acknowledge_vehicle_command.                                        *)
(*                                                                         *)
(* A claim takes its rows FOR UPDATE SKIP LOCKED.  The statement has no    *)
(* LIMIT: it locks every available row although the caller takes only the  *)
(* first.  An acknowledgement reads the row without a lock and updates it  *)
(* later, when other transactions may have changed it.                     *)
(***************************************************************************)
EXTENDS Integers, FiniteSets

CONSTANTS
    Commands,      \* external command identifiers (command_id)
    Pollers,       \* claim requests of the module
    Acks,          \* acknowledgement requests of the module
    Lease,         \* lease_seconds
    MaxTime,       \* bound on the clock
    None           \* NULL, and the absence of a row or request

VARIABLES
    commands,      \* table vehicle_commands
    claim,         \* claims in flight: the rows they lock and the one they take
    ack,           \* acknowledgements in flight: what they have read
    deliveries,    \* what the module has been handed
    outbox,        \* committed events of each kind, counted
    now            \* wall clock

commandVars == <<commands, claim, ack, deliveries, outbox, now>>

Times == 0 .. MaxTime
Outcomes == {"succeeded", "failed", "rejected"}
CommandRow == [status : {"pending", "claimed"} \cup Outcomes, available : Times,
               attempt : Nat, until : 0 .. MaxTime + Lease \cup {None}, error : BOOLEAN]
Claim == [locked : SUBSET Commands, taken : Commands, at : Times]
\* attempt_count stands for the claim token: both change with every claim.
Delivery == [command : Commands, attempt : Nat, from : Times, until : 0 .. MaxTime + Lease]
Ack == [command : Commands, attempt : Nat, outcome : Outcomes, error : BOOLEAN]
EventKinds == {"requested", "claimed", "completed"} \X Commands

ASSUME CommandsAssumption ==
    /\ IsFiniteSet(Commands)
    /\ Lease \in Nat \ {0}
    /\ MaxTime \in Nat
    /\ None \notin CommandRow \cup Claim \cup Ack \cup Nat

Exists(c) == commands[c] # None
Terminal(c) == Exists(c) /\ commands[c].status \in Outcomes
Locked == UNION {IF claim[p] = None THEN {} ELSE claim[p].locked : p \in Pollers}
Emit(kind, c) == outbox' = [outbox EXCEPT ![<<kind, c>>] = @ + 1]

CommandsInit ==
    /\ commands = [c \in Commands |-> None]
    /\ claim = [p \in Pollers |-> None]
    /\ ack = [a \in Acks |-> None]
    /\ deliveries = {}
    /\ outbox = [k \in EventKinds |-> 0]
    /\ now = 0

-----------------------------------------------------------------------------
(* POST /vehicles/{id}/commands *)

\* A repeated request returns the row, or conflicts: no step.
\* uq_vehicle_commands_command_id decides between two racing requests.
CreateCommand(c, available) ==
    /\ ~Exists(c)
    /\ commands' = [commands EXCEPT ![c] =
                      [status |-> "pending", available |-> available, attempt |-> 0,
                       until |-> None, error |-> FALSE]]
    /\ Emit("requested", c)
    /\ UNCHANGED <<claim, ack, deliveries, now>>

-----------------------------------------------------------------------------
(* POST /vehicles/{id}/commands/claim *)

\* Faulty variant: a claimed command is handed out again before its lease ends.
AvailableWhileLeased(c) ==
    /\ Exists(c)
    /\ commands[c].available <= now
    /\ commands[c].status \in {"pending", "claimed"}

Available(c) ==
    /\ Exists(c)
    /\ commands[c].available <= now
    /\ \/ commands[c].status = "pending"
       \/ commands[c].status = "claimed" /\ commands[c].until <= now

Oldest(S) == {c \in S : \A d \in S : commands[c].available <= commands[d].available}

\* ORDER BY available_at, created_at, id: ties go either way.  With nothing
\* available the answer is 204 and nothing changes.
SelectClaim(p) ==
    /\ claim[p] = None
    /\ LET free == {c \in Commands : Available(c)} \ Locked
       IN  \E c \in Oldest(free) :
               claim' = [claim EXCEPT ![p] = [locked |-> free, taken |-> c, at |-> now]]
    /\ UNCHANGED <<commands, ack, deliveries, outbox, now>>

CommitClaim(p) ==
    /\ claim[p] # None
    /\ LET c == claim[p].taken
           attempt == commands[c].attempt + 1
           until == claim[p].at + Lease
       IN  /\ commands' = [commands EXCEPT ![c].status = "claimed",
                             ![c].attempt = attempt, ![c].until = until]
           /\ deliveries' = deliveries \cup
                {[command |-> c, attempt |-> attempt, from |-> claim[p].at, until |-> until]}
           /\ Emit("claimed", c)
    /\ claim' = [claim EXCEPT ![p] = None]
    /\ UNCHANGED <<ack, now>>

\* The request or its connection dies before the commit.
AbortClaim(p) ==
    /\ claim[p] # None
    /\ claim' = [claim EXCEPT ![p] = None]
    /\ UNCHANGED <<commands, ack, deliveries, outbox, now>>

-----------------------------------------------------------------------------
(* POST /vehicles/{id}/commands/{command_id}/acknowledgement *)

\* Failed and rejected outcomes carry an error code, succeeded ones do not.
ReadForAck(a, d, outcome) ==
    /\ ack[a] = None
    /\ d \in deliveries
    /\ LET row == commands[d.command]
       IN  /\ row.attempt = d.attempt          \* the token's digest
           /\ row.status = "claimed"           \* else a repeat, or a conflict
           /\ row.until >= now
           /\ ack' = [ack EXCEPT ![a] =
                        [command |-> d.command, attempt |-> d.attempt,
                         outcome |-> outcome, error |-> row.error]]
    /\ UNCHANGED <<commands, claim, deliveries, outbox, now>>

\* Faulty variant: the update does not wait for the claim that holds the row.
CommitAckUnlocked(a) ==
    /\ ack[a] # None
    /\ commands' = [commands EXCEPT ![ack[a].command].status = ack[a].outcome,
                                   ![ack[a].command].until = None]
    /\ Emit("completed", ack[a].command)
    /\ ack' = [ack EXCEPT ![a] = None]
    /\ UNCHANGED <<claim, deliveries, now>>

\* Only columns that differ from what was read are written; the event is
\* enqueued in any case.
CommitAck(a) ==
    /\ ack[a] # None
    /\ ack[a].command \notin Locked
    /\ LET c == ack[a].command
           error == ack[a].outcome # "succeeded"
       IN  /\ commands' = [commands EXCEPT
                ![c].status = ack[a].outcome,
                ![c].until = None,
                ![c].error = IF error = ack[a].error THEN @ ELSE error]
           /\ Emit("completed", c)
    /\ ack' = [ack EXCEPT ![a] = None]
    /\ UNCHANGED <<claim, deliveries, now>>

AbortAck(a) ==
    /\ ack[a] # None
    /\ ack' = [ack EXCEPT ![a] = None]
    /\ UNCHANGED <<commands, claim, deliveries, outbox, now>>

Tick ==
    /\ now < MaxTime
    /\ now' = now + 1
    /\ UNCHANGED <<commands, claim, ack, deliveries, outbox>>

-----------------------------------------------------------------------------

Poll(p) == SelectClaim(p) \/ CommitClaim(p)

Acknowledge(a) ==
    \/ \E d \in deliveries, outcome \in Outcomes : ReadForAck(a, d, outcome)
    \/ CommitAck(a)

DeliveryCommand ==
    \/ \E c \in Commands, available \in Times : CreateCommand(c, available)
    \/ \E p \in Pollers : Poll(p) \/ AbortClaim(p)
    \/ \E a \in Acks : Acknowledge(a) \/ AbortAck(a)
    \/ Tick

-----------------------------------------------------------------------------
(* Properties *)

\* Type correctness of the rows, the requests in flight and the evidence.
CommandsTypeOK ==
    /\ commands \in [Commands -> CommandRow \cup {None}]
    /\ claim \in [Pollers -> Claim \cup {None}]
    /\ ack \in [Acks -> Ack \cup {None}]
    /\ deliveries \subseteq Delivery
    /\ outbox \in [EventKinds -> Nat]
    /\ now \in Times

\* Two claims never hold one row, and while a claim holds a row it stays as
\* available as it was: no acknowledgement that read it earlier changes it.
ClaimsAreExclusive ==
    \A p \in Pollers : claim[p] # None =>
        /\ \A q \in Pollers \ {p} :
             claim[q] # None => claim[p].locked \cap claim[q].locked = {}
        /\ claim[p].taken \in claim[p].locked
        /\ \A c \in claim[p].locked :
             commands[c].status = "claimed" => commands[c].until <= claim[p].at

\* ADR-013: a command is not "applied concurrently by multiple workers": it is
\* handed out again only under a new token and once every earlier lease is over.
LeasesAreDisjoint ==
    \A d, e \in deliveries :
        d.command = e.command /\ d # e =>
            /\ d.attempt # e.attempt
            /\ d.attempt < e.attempt => d.until <= e.from

\* Every request and every attempt left exactly one event, an attempt that
\* rolled back none, and a command is terminal exactly when that was announced.
EvidenceExact ==
    \A c \in Commands :
        /\ outbox[<<"requested", c>>] = IF Exists(c) THEN 1 ELSE 0
        /\ outbox[<<"claimed", c>>] = IF Exists(c) THEN commands[c].attempt ELSE 0
        /\ outbox[<<"completed", c>>] > 0 <=> Terminal(c)

\* A terminal command is never delivered again, not even by a claim that was
\* under way when its acknowledgement arrived.
TerminalStays ==
    [][\A c \in Commands : Terminal(c) =>
         Terminal(c)' /\ commands'[c].attempt = commands[c].attempt]_commandVars
=============================================================================
