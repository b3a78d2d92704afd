-------------------------- MODULE DiagnosticSession --------------------------
(***************************************************************************)
(* UDS services of one ECU that move its diagnostic session: session       *)
(* control, security access, ECU reset and the firmware download of        *)
(* diagnostics/service.py, with the endpoints of diagnostics/router.py.    *)
(*                                                                         *)
(* An endpoint reads the ECU without a lock and looks its command_id up;   *)
(* the service then selects the session row FOR UPDATE and holds it until  *)
(* the commit, so the rest of a service is one step.  The session, the     *)
(* security and the flash row are first read under that lock and are       *)
(* current.  The ECU is not: a later SELECT ... FOR UPDATE returns the     *)
(* object that is loaded, with the version and the clock it had then.      *)
(*                                                                         *)
(* A client sends the versions it has seen.  A request refused, replayed   *)
(* or broken off changes nothing and is an Abandon, but for the refusals   *)
(* of security access whose effects the endpoint commits.                  *)
(***************************************************************************)
EXTENDS Integers, FiniteSets, Sequences

CONSTANTS
    None,
    Requests,       \* requests in flight
    CommandIds,     \* command_id of stored commands, 1..n
    Sizes,          \* memory_size of a download, in blocks
    Firmwares,      \* firmware_version of a download
    Counters,       \* block sequence counters before the wrap, 256 in the code
    MaxAttempts,    \* invalid keys until the delay, 3 in the code
    SeedTtl,        \* life of a seed, 30,000 ms in the code
    LockDelay,      \* delay after the last attempt, 10,000 ms in the code
    ResetTime,      \* duration of an ECU reset
    MaxTime,        \* bound on the logical time at which the ECU is advanced
    Workloads       \* what clients use in one behaviour: services, session
                    \* types, how many command ids, and whether the
                    \* session starts unlocked

VARIABLES
    ecu,        \* columns of electronic_control_units
    session,    \* the row of diagnostic_session_states
    security,   \* the row of diagnostic_security_states
    flash,      \* the row of diagnostic_flash_states
    commands,   \* table diagnostic_commands
    request,    \* what each request has read
    workload    \* what clients use in this behaviour

sessionVars == <<ecu, session, security, flash, commands, request, workload>>

SessionTypes == {"default", "programming", "extended"}
\* wrong_key: clients also send keys that are wrong or too early.
Services == {"session_control", "security_access", "wrong_key", "ecu_reset", "flash",
             "routine", "did", "dtc", "campaign"}
ResetModes == {"soft", "hard", "key_off_on"}

Ecu == [version : Nat \ {0}, time : Nat, firmware : Firmwares \cup {"factory"}]
Session == [type : SessionTypes, level : {0, 1}, version : Nat \ {0}]
\* seed is the time until which the key digest is accepted.
Security == [seed : Nat \cup {None}, failed : 0..MaxAttempts,
             locked : Nat \cup {None}, version : Nat \ {0}]
Flash == [status : {"idle", "downloading", "completed"}, size : Nat,
          firmware : Firmwares \cup {""}, target : Nat, counter : 0..Counters - 1,
          image : Seq(Nat), version : Nat \ {0}]

ASSUME SessionAssumption ==
    /\ IsFiniteSet(CommandIds) /\ CommandIds = 1..Cardinality(CommandIds)
    /\ IsFiniteSet(Requests) /\ Requests # {}
    /\ Sizes \subseteq Nat \ {0}
    /\ {Counters, MaxAttempts} \subseteq Nat \ {0}
    /\ {SeedTtl, LockDelay, ResetTime, MaxTime} \subseteq Nat
    /\ \A w \in Workloads : /\ w.services \subseteq Services /\ w.types \subseteq SessionTypes
                            /\ w.commands \in CommandIds /\ w.unlocked \in BOOLEAN
                            /\ w.unlocked => w.commands >= 3
    /\ None \notin Nat

NoTransfer == [status |-> "idle", size |-> 0, firmware |-> "", target |-> 1,
               counter |-> 1 % Counters, image |-> <<>>, version |-> 1]

\* entry is the routine or the data identifier of a catalogue command.
CommandRow(service, entry, previous, sessionVersion, securityVersion, flashVersion, onEcu) ==
    [service |-> service, entry |-> entry, previous |-> previous, session |-> sessionVersion,
     security |-> securityVersion, flash |-> flashVersion, onEcu |-> onEcu]

\* The rows get_or_create_... would insert are there from the start.  The
\* state after session control, seed and key is reachable and saves the
\* model checker three commands.
SessionInit ==
    /\ workload \in Workloads
    /\ ecu = [version |-> 1, time |-> 0, firmware |-> "factory"]
    /\ flash = NoTransfer
    /\ request = [q \in Requests |-> None]
    /\ session = IF workload.unlocked
                 THEN [type |-> "programming", level |-> 1, version |-> 3]
                 ELSE [type |-> "default", level |-> 0, version |-> 1]
    /\ security = [seed |-> None, failed |-> 0, locked |-> None,
                   version |-> IF workload.unlocked THEN 4 ELSE 1]
    /\ commands = [i \in CommandIds |->
         IF ~workload.unlocked \/ i > 3 THEN None
         ELSE CASE i = 1 -> CommandRow("session_control", None, 1, 2, 2, 1, 1)
                [] i = 2 -> CommandRow("security_access", None, 2, 2, 3, 1, 1)
                [] i = 3 -> CommandRow("security_access", None, 2, 3, 4, 1, 1)]

-----------------------------------------------------------------------------
(* The shape of every service *)

Unstored == {i \in 1..workload.commands : commands[i] = None}
InFlight == {q \in Requests : request[q] # None}
Holds(q, stage) == request[q] # None /\ request[q].stage = stage
\* Faulty variant: a clear does not lock the session row.
SessionNeverHeld == TRUE
\* A clear that has listed the codes keeps the session row locked.
SessionFree == \A q \in InFlight : request[q].stage # "clear"

\* _context and _existing_command, with the versions the client has seen.
\* A command_id is new, or that of a request in flight (a duplicated call).
LoadContext(q, catalogue) ==
    /\ request[q] = None
    /\ \E i \in Unstored :
         /\ \A j \in Unstored : j < i => \E p \in InFlight : request[p].id = j
         /\ request' = [request EXCEPT ![q] =
              [stage |-> "loaded", id |-> i, ecu |-> ecu, session |-> session.version,
               security |-> security.version, flash |-> flash.version,
               block |-> Len(flash.image) + 1, catalogue |-> catalogue, item |-> None,
               listed |-> {}]]
    /\ UNCHANGED <<ecu, session, security, flash, commands, workload>>

Abandon(q) ==
    /\ request[q] # None
    /\ request' = [request EXCEPT ![q] = None]
    /\ UNCHANGED <<ecu, session, security, flash, commands, workload>>

Ready(q, service) ==
    /\ Holds(q, "loaded")
    /\ service \in workload.services
    /\ SessionFree
SeesSession(q) == request[q].session = session.version
SeesSecurity(q) == request[q].security = security.version

\* One DiagnosticCommand per ECU and command_id; the request ends.  Its row
\* reports the versions of the three rows after the command.
RecordFor(q, service, entry) ==
    /\ commands[request[q].id] = None
    /\ commands' = [commands EXCEPT ![request[q].id] =
         CommandRow(service, entry, session.version, session'.version, security'.version,
                    flash'.version, request[q].ecu.version)]
    /\ request' = [request EXCEPT ![q] = None]
    /\ UNCHANGED workload
Record(q, service) == RecordFor(q, service, None)

NoChallenge(row) == [row EXCEPT !.seed = None, !.failed = 0, !.locked = None]
Bump(row) == [row EXCEPT !.version = @ + 1]

\* The columns a service sets, computed from the row it loaded.
ChangeEcu(q, changes) == ecu' = [f \in DOMAIN ecu |->
    IF f \in DOMAIN changes /\ changes[f] # request[q].ecu[f] THEN changes[f] ELSE ecu[f]]

-----------------------------------------------------------------------------
(* Session control and security access *)

ControlSession(q) ==
    /\ Ready(q, "session_control")
    /\ SeesSession(q)
    /\ \E type \in workload.types :
         session' = Bump([session EXCEPT !.type = type, !.level = 0])
    /\ security' = Bump(NoChallenge(security))
    /\ UNCHANGED <<ecu, flash>>
    /\ Record(q, "session_control")

Delayed(q) == security.locked # None /\ request[q].ecu.time < security.locked
\* A delay that has run out is cleared by the next request.
Undelayed == IF security.locked = None THEN security
             ELSE [security EXCEPT !.locked = None, !.failed = 0]

MayAccess(q) ==
    /\ Ready(q, "security_access")
    /\ SeesSession(q) /\ SeesSecurity(q)
    /\ session.type # "default"
    /\ ~Delayed(q)

RequestSeed(q) ==
    /\ MayAccess(q)
    /\ security' = Bump([Undelayed EXCEPT !.seed = request[q].ecu.time + SeedTtl])
    /\ UNCHANGED <<ecu, session, flash>>
    /\ Record(q, "security_access")

SeedIsValid(q) == security.seed # None /\ request[q].ecu.time <= security.seed

\* REQUEST_SEQUENCE_ERROR: the endpoint commits what the handler cleared.
SendKeyWithoutSeed(q) ==
    /\ MayAccess(q) /\ "wrong_key" \in workload.services
    /\ ~SeedIsValid(q)
    /\ security' = Undelayed
    /\ request' = [request EXCEPT ![q] = None]
    /\ UNCHANGED <<ecu, session, flash, commands, workload>>

SendWrongKey(q) ==
    /\ MayAccess(q) /\ "wrong_key" \in workload.services
    /\ SeedIsValid(q)
    /\ LET failed == Undelayed.failed + 1
       IN  security' = Bump(
             IF failed >= MaxAttempts
             THEN [Undelayed EXCEPT !.failed = failed, !.seed = None,
                                    !.locked = request[q].ecu.time + LockDelay]
             ELSE [Undelayed EXCEPT !.failed = failed])
    /\ UNCHANGED <<ecu, session, flash>>
    /\ Record(q, "security_access")

SendKey(q) ==
    /\ MayAccess(q) /\ SeedIsValid(q)
    /\ session' = Bump([session EXCEPT !.level = 1])
    /\ security' = Bump(NoChallenge(Undelayed))
    /\ UNCHANGED <<ecu, flash>>
    /\ Record(q, "security_access")

SecurityAccess(q) == RequestSeed(q) \/ SendKeyWithoutSeed(q) \/ SendWrongKey(q) \/ SendKey(q)

-----------------------------------------------------------------------------
(* ECU reset through execute_ecu_reset of the ECU simulator *)

ExecuteEcuReset(q) ==
    ChangeEcu(q, [version |-> request[q].ecu.version + 1,
                  time |-> request[q].ecu.time + ResetTime])

ResetEcu(q) ==
    /\ Ready(q, "ecu_reset")
    /\ SeesSession(q) /\ SeesSecurity(q)
    /\ session.type # "default"
    /\ \E mode \in ResetModes : mode = "soft" \/ session.level >= 1
    /\ ExecuteEcuReset(q)
    /\ session' = Bump([session EXCEPT !.type = "default", !.level = 0])
    /\ security' = Bump(NoChallenge(security))
    /\ UNCHANGED flash
    /\ Record(q, "ecu_reset")

SessionRequest(q) == ControlSession(q) \/ ResetEcu(q)

(* Any other command of the ECU simulator: it has read the ECU without a   *)
(* lock like the services here, writes what follows from that row, and     *)
(* neither waits for the session row nor stores a diagnostic command.      *)
AdvanceEcu(q) ==
    /\ Holds(q, "loaded")
    /\ request[q].ecu.time < MaxTime
    /\ ChangeEcu(q, [version |-> request[q].ecu.version + 1, time |-> request[q].ecu.time + 1])
    /\ request' = [request EXCEPT ![q] = None]
    /\ UNCHANGED <<session, security, flash, commands, workload>>

-----------------------------------------------------------------------------
(* Firmware download *)

FlashAccess == session.type = "programming" /\ session.level >= 1

\* Faulty variant: a new download replaces the active one.
RequestDownloadAgain(q) ==
    /\ Ready(q, "flash")
    /\ SeesSession(q) /\ SeesSecurity(q)
    /\ FlashAccess
    /\ \E size \in Sizes, firmware \in Firmwares :
         flash' = [status |-> "downloading", size |-> size, firmware |-> firmware,
                   target |-> request[q].ecu.version, counter |-> 1 % Counters,
                   image |-> <<>>, version |-> flash.version + 1]
    /\ UNCHANGED <<ecu, session, security>>
    /\ Record(q, "flash")

RequestDownload(q) ==
    /\ Ready(q, "flash")
    /\ SeesSession(q) /\ SeesSecurity(q)
    /\ FlashAccess
    /\ flash.status # "downloading"
    /\ \E size \in Sizes, firmware \in Firmwares :
         flash' = [status |-> "downloading", size |-> size, firmware |-> firmware,
                   target |-> request[q].ecu.version, counter |-> 1 % Counters,
                   image |-> <<>>, version |-> flash.version + 1]
    /\ UNCHANGED <<ecu, session, security>>
    /\ Record(q, "flash")

\* Faulty variant: expected_transfer_version is not compared.
SeesAnyTransfer(q) == request[q].flash <= flash.version
SeesTransfer(q) == request[q].flash = flash.version

\* A client numbers its block by the transfer it has seen; the counter of the
\* block is that number modulo Counters.
TransferBlock(q) ==
    /\ Ready(q, "flash")
    /\ FlashAccess
    /\ flash.status = "downloading"
    /\ SeesTransfer(q)
    /\ request[q].block % Counters = flash.counter
    /\ Len(flash.image) < flash.size
    /\ flash' = Bump([flash EXCEPT !.image = Append(@, request[q].block),
                                   !.counter = (@ + 1) % Counters])
    /\ UNCHANGED <<ecu, session, security>>
    /\ Record(q, "flash")

\* Every block of the image is the one that the digest expects.
DigestMatches == \A n \in DOMAIN flash.image : flash.image[n] = n

ExitTransfer(q) ==
    /\ Ready(q, "flash")
    /\ FlashAccess
    /\ flash.status = "downloading"
    /\ SeesTransfer(q)
    /\ request[q].ecu.version = flash.target
    /\ Len(flash.image) = flash.size
    /\ DigestMatches
    /\ ChangeEcu(q, [version |-> request[q].ecu.version + 1, firmware |-> flash.firmware])
    /\ flash' = Bump([flash EXCEPT !.status = "completed", !.image = <<>>])
    /\ UNCHANGED <<session, security>>
    /\ Record(q, "flash")

FlashRequest(q) == RequestDownload(q) \/ TransferBlock(q) \/ ExitTransfer(q)

SessionStep ==
    \E q \in Requests : \/ Abandon(q) \/ AdvanceEcu(q) \/ SessionRequest(q)
                        \/ SecurityAccess(q) \/ FlashRequest(q)

-----------------------------------------------------------------------------
SessionTypeOK ==
    /\ ecu \in Ecu
    /\ session \in Session
    /\ security \in Security
    /\ flash \in Flash

(* What security access has granted or delayed belongs to the present      *)
(* session: control_session and reset_ecu take it all back, an unlocked    *)
(* level, an open seed and a delay exist only outside the default session, *)
(* the delay runs exactly while the attempts are used up, and no seed is   *)
(* open meanwhile.                                                         *)
SecurityIsOfThisSession ==
    /\ session.level = 1 \/ security.seed # None \/ security.failed > 0
         => session.type # "default"
    /\ security.locked # None <=> security.failed = MaxAttempts
    /\ security.locked # None => security.seed = None

(* The stored commands are one history of each row: the versions they      *)
(* report run from 2 to the version of the row, and no two commands that   *)
(* moved a row report the same.  A duplicated or a stale command that took *)
(* effect twice (expected_..._version, command_id) would break it.         *)
Stored == {i \in CommandIds : commands[i] # None}
Moved(row) == {i \in Stored :
    CASE row = "session" -> commands[i].session # commands[i].previous
      [] row = "security" -> commands[i].service \in {"session_control", "security_access", "ecu_reset"}
      [] row = "flash" -> commands[i].service = "flash"}
IsHistory(row, version) ==
    /\ {commands[i][row] : i \in Moved(row)} = 2..version
    /\ Cardinality(Moved(row)) = version - 1
CommandsAreOneHistory ==
    /\ IsHistory("session", session.version)
    /\ IsHistory("security", security.version)
    /\ IsHistory("flash", flash.version)

(* transfer_data: whatever calls were repeated or overtaken, also across a *)
(* wrap of the block counter, the image is the blocks in order, each once, *)
(* so that request_transfer_exit can match its digest.                     *)
ImageIsInOrder == DigestMatches /\ Len(flash.image) <= flash.size

(* request_transfer_exit wants the ECU version of request_download, and    *)
(* request_download wants no active download.  Once another command has    *)
(* moved the ECU and no older read of it is in flight, the download stays  *)
(* active for ever: no service ends it and no new one can start.           *)
Overtaken ==
    /\ flash.status = "downloading"
    /\ ecu.version > flash.target
    /\ \A q \in InFlight : request[q].ecu.version > flash.target
OvertakenDownloadsStay == [][Overtaken => Overtaken']_sessionVars
===============================================================================
