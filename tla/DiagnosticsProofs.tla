------------------------- MODULE DiagnosticsProofs -------------------------
(***************************************************************************)
(* The diagnostics of one ECU, for any number of overlapping requests, any *)
(* catalogue, any limits and any timing of the ECU.                        *)
(*                                                                         *)
(* RowsStep carries what the session has granted and the image of its      *)
(* download; it needs what each request has seen of the transfer.          *)
(* CommandsHistoryStep and CountsStep relate the stored commands to the    *)
(* versions of the rows and of the catalogue entries.  The limits are an   *)
(* invariant together with the requests that have found room (RoomFor),    *)
(* the clears together with what the requests have looked up               *)
(* (ItemsAreKnown) and with the lock of the session row (OneClear).        *)
(***************************************************************************)
EXTENDS Diagnostics, TLAPS, FiniteSetTheorems, SequenceTheorems

-----------------------------------------------------------------------------
(* The rows *)

\* No row is NULL.
LEMMA NoneIsNoRow ==
    /\ \A r \in DidRow : r # None
    /\ \A r \in RoutineRow : r # None
    /\ \A r \in Dtc : r # None
    /\ \A r \in Command : r # None
    /\ \A r \in RequestRow : r # None
    /\ \A n \in Nat : n # None
BY DiagnosticsAssumption, SessionAssumption

\* What changed columns make of a row.
LEMMA SessionRowLevelled ==
    ASSUME NEW A, NEW B, NEW C, NEW s \in [type : A, level : B, version : C],
           NEW x \in A, NEW y \in B
    PROVE  LET new == [s EXCEPT !.type = x, !.level = y]
           IN  /\ new \in [type : A, level : B, version : C]
               /\ new.type = x /\ new.level = y /\ new.version = s.version
OBVIOUS

\* The level alone, for a key that was right.
LEMMA SessionRowUnlocked ==
    ASSUME NEW A, NEW B, NEW C, NEW s \in [type : A, level : B, version : C],
           NEW x \in A, NEW y \in B
    PROVE  LET new == [s EXCEPT !.level = y]
           IN  /\ new \in [type : A, level : B, version : C]
               /\ new.type = s.type /\ new.level = y /\ new.version = s.version
OBVIOUS

\* The version that counts the changes of the session.
LEMMA SessionRowBumped ==
    ASSUME NEW A, NEW B, NEW s \in [type : A, level : B, version : Nat \ {0}]
    PROVE  LET new == [s EXCEPT !.version = @ + 1]
           IN  /\ new \in [type : A, level : B, version : Nat \ {0}]
               /\ new.type = s.type /\ new.level = s.level /\ new.version = s.version + 1
OBVIOUS

\* What session control, a key, a reset and a clear make of the session.
LEMMA ChangedSession ==
    ASSUME NEW s \in Session, NEW type \in SessionTypes, NEW level \in {0, 1}
    PROVE  /\ LET new == Bump([s EXCEPT !.type = type, !.level = level])
              IN  /\ new \in Session
                  /\ new.type = type /\ new.level = level /\ new.version = s.version + 1
           /\ LET new == Bump([s EXCEPT !.level = level])
              IN  /\ new \in Session
                  /\ new.type = s.type /\ new.level = level /\ new.version = s.version + 1
           /\ LET new == Bump(s)
              IN  /\ new \in Session
                  /\ new.type = s.type /\ new.level = s.level /\ new.version = s.version + 1
<1> DEFINE both == [s EXCEPT !.type = type, !.level = level]
           one == [s EXCEPT !.level = level]
<1>1. /\ both \in Session /\ both.type = type /\ both.level = level
      /\ both.version = s.version
      /\ one \in Session /\ one.type = s.type /\ one.level = level /\ one.version = s.version
  BY SessionRowLevelled, SessionRowUnlocked DEF Session
<1> HIDE DEF both, one
<1>2. \A r \in Session : /\ Bump(r) \in Session
                         /\ Bump(r).type = r.type /\ Bump(r).level = r.level
                         /\ Bump(r).version = r.version + 1
  <2> TAKE r \in Session
  <2> QED
    BY SessionRowBumped DEF Session, Bump
<1> QED
  BY <1>1, <1>2 DEF both, one

\* A seed that is handed out.
LEMMA SecurityRowSeeded ==
    ASSUME NEW A, NEW B, NEW C, NEW s \in [seed : A, failed : B, locked : A, version : C],
           NEW x \in A, NEW y \in B, NEW z \in A
    PROVE  LET new == [s EXCEPT !.seed = x]
           IN  /\ new \in [seed : A, failed : B, locked : A, version : C]
               /\ new.seed = x /\ new.failed = s.failed /\ new.locked = s.locked
               /\ new.version = s.version
OBVIOUS

\* A key that was wrong.
LEMMA SecurityRowFailed ==
    ASSUME NEW A, NEW B, NEW C, NEW s \in [seed : A, failed : B, locked : A, version : C],
           NEW x \in A, NEW y \in B, NEW z \in A
    PROVE  LET new == [s EXCEPT !.failed = y]
           IN  /\ new \in [seed : A, failed : B, locked : A, version : C]
               /\ new.seed = s.seed /\ new.failed = y /\ new.locked = s.locked
               /\ new.version = s.version
OBVIOUS

\* The last wrong key: no seed, and a delay.
LEMMA SecurityRowDelayed ==
    ASSUME NEW A, NEW B, NEW C, NEW s \in [seed : A, failed : B, locked : A, version : C],
           NEW x \in A, NEW y \in B, NEW z \in A
    PROVE  LET new == [s EXCEPT !.failed = y, !.seed = x, !.locked = z]
           IN  /\ new \in [seed : A, failed : B, locked : A, version : C]
               /\ new.seed = x /\ new.failed = y /\ new.locked = z
               /\ new.version = s.version
OBVIOUS

\* The row without a challenge.
LEMMA SecurityRowCleared ==
    ASSUME NEW A, NEW B, NEW C, NEW s \in [seed : A, failed : B, locked : A, version : C],
           NEW x \in A, NEW y \in B, NEW z \in A
    PROVE  LET new == [s EXCEPT !.seed = x, !.failed = y, !.locked = z]
           IN  /\ new \in [seed : A, failed : B, locked : A, version : C]
               /\ new.seed = x /\ new.failed = y /\ new.locked = z
               /\ new.version = s.version
OBVIOUS

\* The row after a delay that has run out.
LEMMA SecurityRowUndelayed ==
    ASSUME NEW A, NEW B, NEW C, NEW s \in [seed : A, failed : B, locked : A, version : C],
           NEW x \in A, NEW y \in B, NEW z \in A
    PROVE  LET new == [s EXCEPT !.locked = z, !.failed = y]
           IN  /\ new \in [seed : A, failed : B, locked : A, version : C]
               /\ new.seed = s.seed /\ new.failed = y /\ new.locked = z
               /\ new.version = s.version
OBVIOUS

\* The version that counts the changes of the security.
LEMMA SecurityRowBumped ==
    ASSUME NEW A, NEW B, NEW s \in [seed : A, failed : B, locked : A, version : Nat \ {0}]
    PROVE  LET new == [s EXCEPT !.version = @ + 1]
           IN  /\ new \in [seed : A, failed : B, locked : A, version : Nat \ {0}]
               /\ new.seed = s.seed /\ new.failed = s.failed /\ new.locked = s.locked
               /\ new.version = s.version + 1
OBVIOUS

\* A counted change leaves the other columns of the security.
LEMMA BumpedSecurity ==
    ASSUME NEW s \in Security
    PROVE  /\ Bump(s) \in Security
           /\ Bump(s).seed = s.seed /\ Bump(s).failed = s.failed
           /\ Bump(s).locked = s.locked
           /\ Bump(s).version = s.version + 1
BY SecurityRowBumped DEF Security, Bump

\* Whatever was open or delayed, NoChallenge takes it back.
LEMMA ChallengeTaken ==
    ASSUME NEW s \in Security
    PROVE  LET new == Bump(NoChallenge(s))
           IN  /\ new \in Security
               /\ new.seed = None /\ new.failed = 0 /\ new.locked = None
               /\ new.version = s.version + 1
<1> DEFINE new == NoChallenge(s)
<1>1. 0 \in 0..MaxAttempts /\ None \in Nat \cup {None}
  BY SessionAssumption
<1>2. /\ new \in Security /\ new.seed = None /\ new.failed = 0 /\ new.locked = None
      /\ new.version = s.version
  BY <1>1, SecurityRowCleared DEF NoChallenge, Security
<1> HIDE DEF new
<1>3. Bump(new) \in Security /\ Bump(new).seed = new.seed /\ Bump(new).failed = new.failed
      /\ Bump(new).locked = new.locked /\ Bump(new).version = new.version + 1
  BY <1>2, BumpedSecurity
<1> QED
  BY <1>2, <1>3 DEF new

\* The row without a delay that has run out.
LEMMA UndelayedRow ==
    ASSUME security \in Security
    PROVE  /\ Undelayed \in Security
           /\ Undelayed.seed = security.seed /\ Undelayed.locked = None
           /\ Undelayed.failed = IF security.locked = None THEN security.failed ELSE 0
           /\ Undelayed.version = security.version
<1>1. 0 \in 0..MaxAttempts /\ None \in Nat \cup {None}
  BY SessionAssumption
<1>2. CASE security.locked = None
  BY <1>2 DEF Undelayed
<1>3. CASE security.locked # None
  <2>1. Undelayed = [security EXCEPT !.locked = None, !.failed = 0]
    BY <1>3 DEF Undelayed
  <2> QED
    BY <1>1, <1>3, <2>1, SecurityRowUndelayed DEF Security
<1> QED
  BY <1>2, <1>3

\* ChangeEcu writes the version that follows the one it read.
LEMMA ChangedEcuRow ==
    ASSUME ecu \in Ecu, NEW q \in Requests, request[q].ecu \in Ecu, NEW changes,
           ChangeEcu(q, changes),
           "version" \in DOMAIN changes, changes["version"] = request[q].ecu.version + 1,
           "time" \in DOMAIN changes => changes["time"] \in Nat,
           "firmware" \in DOMAIN changes => changes["firmware"] \in Firmwares
    PROVE  ecu' \in Ecu /\ ecu'.version = request[q].ecu.version + 1
<1>1. /\ DOMAIN ecu = {"version", "time", "firmware"}
      /\ ecu' = [f \in DOMAIN ecu |->
            IF f \in DOMAIN changes /\ changes[f] # request[q].ecu[f] THEN changes[f] ELSE ecu[f]]
  BY DEF Ecu, ChangeEcu
<1>2. /\ request[q].ecu.version \in Nat \ {0} /\ request[q].ecu.time \in Nat
      /\ ecu.version \in Nat \ {0} /\ ecu.time \in Nat
      /\ ecu.firmware \in Firmwares \cup {"factory"}
  BY DEF Ecu
<1>3. ecu'["version"] = request[q].ecu.version + 1
  BY <1>1, <1>2
<1>4. ecu'["time"] \in Nat
  BY <1>1, <1>2
<1>5. ecu'["firmware"] \in Firmwares \cup {"factory"}
  BY <1>1, <1>2
<1>6. ecu' = [version |-> ecu'["version"], time |-> ecu'["time"], firmware |-> ecu'["firmware"]]
  BY <1>1
<1> QED
  BY <1>2, <1>3, <1>4, <1>5, <1>6 DEF Ecu

\* execute_ecu_reset moves the ECU to the version after the one it read.
LEMMA ResetEcuRow ==
    ASSUME ecu \in Ecu, NEW q \in Requests, request[q].ecu \in Ecu,
           ChangeEcu(q, [version |-> request[q].ecu.version + 1,
                         time |-> request[q].ecu.time + ResetTime])
    PROVE  ecu' \in Ecu /\ ecu'.version = request[q].ecu.version + 1
<1> DEFINE changes == [version |-> request[q].ecu.version + 1,
                       time |-> request[q].ecu.time + ResetTime]
<1>1. /\ DOMAIN changes = {"version", "time"} /\ changes["version"] = request[q].ecu.version + 1
      /\ changes["time"] = request[q].ecu.time + ResetTime
  OBVIOUS
<1>2. request[q].ecu.time + ResetTime \in Nat
  BY SessionAssumption DEF Ecu
<1> HIDE DEF changes
<1> QED
  BY <1>1, <1>2, ChangedEcuRow DEF changes

\* So does the end of a download, which installs its firmware.
LEMMA FlashedEcuRow ==
    ASSUME ecu \in Ecu, NEW q \in Requests, request[q].ecu \in Ecu, NEW firmware \in Firmwares,
           ChangeEcu(q, [version |-> request[q].ecu.version + 1, firmware |-> firmware])
    PROVE  ecu' \in Ecu /\ ecu'.version = request[q].ecu.version + 1
<1> DEFINE changes == [version |-> request[q].ecu.version + 1, firmware |-> firmware]
<1>1. /\ DOMAIN changes = {"version", "firmware"}
      /\ changes["version"] = request[q].ecu.version + 1 /\ changes["firmware"] = firmware
  OBVIOUS
<1> HIDE DEF changes
<1> QED
  BY <1>1, ChangedEcuRow DEF changes

\* Another command of the simulator moves it to the version after the one it read.
LEMMA AdvancedEcuRow ==
    ASSUME ecu \in Ecu, NEW q \in Requests, request[q].ecu \in Ecu,
           ChangeEcu(q, [version |-> request[q].ecu.version + 1, time |-> request[q].ecu.time + 1])
    PROVE  ecu' \in Ecu /\ ecu'.version = request[q].ecu.version + 1
<1> DEFINE changes == [version |-> request[q].ecu.version + 1, time |-> request[q].ecu.time + 1]
<1>1. /\ DOMAIN changes = {"version", "time"} /\ changes["version"] = request[q].ecu.version + 1
      /\ changes["time"] = request[q].ecu.time + 1
  OBVIOUS
<1>2. request[q].ecu.time + 1 \in Nat
  BY DEF Ecu
<1> HIDE DEF changes
<1> QED
  BY <1>1, <1>2, ChangedEcuRow DEF changes

\* A block appended to the image.
LEMMA FlashRowExtended ==
    ASSUME NEW A, NEW B, NEW C, NEW D, NEW E, NEW F, NEW G,
           NEW f \in [status : A, size : B, firmware : C, target : D, counter : E,
                      image : F, version : G],
           NEW x \in F, NEW y \in E
    PROVE  LET new == [f EXCEPT !.image = x, !.counter = y]
           IN  /\ new \in [status : A, size : B, firmware : C, target : D, counter : E,
                           image : F, version : G]
               /\ new.image = x /\ new.status = f.status /\ new.size = f.size
               /\ new.firmware = f.firmware
               /\ new.target = f.target /\ new.version = f.version
OBVIOUS

\* A download that ends.
LEMMA FlashRowEnded ==
    ASSUME NEW A, NEW B, NEW C, NEW D, NEW E, NEW F, NEW G,
           NEW f \in [status : A, size : B, firmware : C, target : D, counter : E,
                      image : F, version : G],
           NEW x \in A, NEW y \in F
    PROVE  LET new == [f EXCEPT !.status = x, !.image = y]
           IN  /\ new \in [status : A, size : B, firmware : C, target : D, counter : E,
                           image : F, version : G]
               /\ new.image = y /\ new.status = x /\ new.size = f.size
               /\ new.target = f.target /\ new.version = f.version
OBVIOUS

\* A counted change leaves the other columns of the download.
LEMMA BumpedFlash ==
    ASSUME NEW f \in Flash
    PROVE  /\ Bump(f) \in Flash
           /\ Bump(f).image = f.image /\ Bump(f).status = f.status /\ Bump(f).size = f.size
           /\ Bump(f).firmware = f.firmware
           /\ Bump(f).target = f.target /\ Bump(f).version = f.version + 1
<1> DEFINE A == {"idle", "downloading", "completed"}
           C == Firmwares \cup {""}
           E == 0..Counters - 1
           F == Seq(Nat)
           N == Nat
           V == Nat \ {0}
<1>1. Flash = [status : A, size : N, firmware : C, target : N, counter : E,
               image : F, version : V]
  BY DEF Flash
<1> DEFINE x == f.version + 1
<1>3. Bump(f) = [f EXCEPT !.version = x]
  BY DEF Bump
<1> HIDE DEF A, C, E, F, N, V, x
<1>2. f.version \in V
  BY ONLY <1>1, f \in Flash
<1>4. x \in V
  BY ONLY <1>2 DEF V, x
<1>5. /\ Bump(f) \in Flash
      /\ Bump(f).image = f.image /\ Bump(f).status = f.status /\ Bump(f).size = f.size
      /\ Bump(f).firmware = f.firmware
      /\ Bump(f).target = f.target /\ Bump(f).version = x
  BY ONLY <1>1, <1>3, <1>4, f \in Flash
<1> QED
  BY <1>5 DEF x

Extended(f, x, y) == [f EXCEPT !.image = x, !.counter = y]

\* One more block leaves the rest of the download.
LEMMA ExtendedFlash ==
    ASSUME NEW f \in Flash, NEW x \in Seq(Nat), NEW y \in 0..Counters - 1
    PROVE  LET new == Extended(f, x, y)
           IN  /\ new \in Flash /\ new.image = x /\ new.status = f.status
               /\ new.size = f.size /\ new.firmware = f.firmware
               /\ new.target = f.target /\ new.version = f.version
<1> DEFINE A == {"idle", "downloading", "completed"}
           C == Firmwares \cup {""}
           E == 0..Counters - 1
           F == Seq(Nat)
           N == Nat
           V == Nat \ {0}
<1>1. Flash = [status : A, size : N, firmware : C, target : N, counter : E,
               image : F, version : V]
  BY DEF Flash
<1>2. x \in F /\ y \in E
  OBVIOUS
<1> HIDE DEF A, C, E, F, N, V
<1> QED
  BY <1>1, <1>2, FlashRowExtended DEF Extended

\* A completed download has given its image away.
LEMMA EndedFlash ==
    ASSUME NEW f \in Flash
    PROVE  LET new == [f EXCEPT !.status = "completed", !.image = <<>>]
           IN  /\ new \in Flash /\ new.image = <<>> /\ new.status = "completed"
               /\ new.size = f.size /\ new.version = f.version
<1> DEFINE A == {"idle", "downloading", "completed"}
           C == Firmwares \cup {""}
           E == 0..Counters - 1
           F == Seq(Nat)
           N == Nat
           V == Nat \ {0}
<1>1. Flash = [status : A, size : N, firmware : C, target : N, counter : E,
               image : F, version : V]
  BY DEF Flash
<1>2. "completed" \in A /\ <<>> \in F
  BY EmptySeq
<1> HIDE DEF A, C, E, F, N, V
<1> QED
  BY <1>1, <1>2, FlashRowEnded

\* The block that comes next keeps the image in order.
LEMMA NextBlockAppended ==
    ASSUME NEW image \in Seq(Nat), NEW block \in Nat, NEW size \in Nat,
           \A n \in DOMAIN image : image[n] = n, block = Len(image) + 1, Len(image) < size
    PROVE  LET new == Append(image, block)
           IN  new \in Seq(Nat) /\ (\A n \in DOMAIN new : new[n] = n) /\ Len(new) <= size
<1> DEFINE new == Append(image, block)
<1>1. DOMAIN image = 1..Len(image) /\ Len(image) \in Nat
  BY LenProperties
<1>2. /\ new \in Seq(Nat) /\ Len(new) = Len(image) + 1
      /\ \A n \in 1..Len(image) : new[n] = image[n]
      /\ new[Len(image) + 1] = block
  BY AppendProperties
<1> HIDE DEF new
<1>3. DOMAIN new = 1..Len(new)
  BY <1>2, LenProperties
<1>4. \A n \in DOMAIN new : n \in 1..Len(image) \/ n = Len(image) + 1
  BY ONLY <1>1, <1>2, <1>3
<1>5. \A n \in DOMAIN new : new[n] = n
  BY ONLY <1>1, <1>2, <1>4, block = Len(image) + 1, \A n \in DOMAIN image : image[n] = n
<1>6. Len(new) <= size
  BY ONLY <1>1, <1>2, size \in Nat, Len(image) < size
<1> QED
  BY <1>2, <1>5, <1>6 DEF new

-----------------------------------------------------------------------------
(* What the services do to the rows *)

\* A request in flight has a row, with the ECU that it has read.
LEMMA InFlightRow ==
    ASSUME TypeOK, NEW q \in Requests, request[q] # None
    PROVE  /\ request[q] \in RequestRow
           /\ request[q].id \in CommandIds
           /\ request[q].ecu \in Ecu /\ request[q].ecu.version \in Nat \ {0}
           /\ request[q].ecu.time \in Nat
           /\ request[q].session \in Nat /\ request[q].security \in Nat
           /\ request[q].flash \in Nat /\ request[q].block \in Nat
           /\ request[q].listed \subseteq Codes
<1>1. request[q] \in RequestRow
  BY DEF TypeOK
<1> QED
  BY <1>1 DEF RequestRow, Ecu

\* control_session and reset_ecu take back what was granted or delayed.
LEMMA SessionRequestStep ==
    ASSUME TypeOK, NEW q \in Requests, SessionRequest(q)
    PROVE  /\ session' \in Session /\ session'.level = 0
           /\ session'.version = session.version + 1
           /\ security' \in Security
           /\ security'.seed = None /\ security'.failed = 0 /\ security'.locked = None
           /\ security'.version = security.version + 1
           /\ ecu' \in Ecu /\ flash' = flash
           /\ ecu'.version \in {ecu.version, request[q].ecu.version + 1}
           /\ request[q] # None
           /\ \E service \in {"session_control", "ecu_reset"} : RecordFor(q, service, None)
<1>1. session \in Session /\ security \in Security /\ ecu \in Ecu
  BY DEF TypeOK, SessionTypeOK
<1>2. 0 \in {0, 1}
  OBVIOUS
<1>3. CASE ControlSession(q)
  <2>1. PICK type \in workload.types :
               session' = Bump([session EXCEPT !.type = type, !.level = 0])
    BY <1>3 DEF ControlSession
  <2>2. type \in SessionTypes
    BY SessionAssumption DEF TypeOK
  <2>3. /\ session' \in Session /\ session'.level = 0
        /\ session'.version = session.version + 1
    BY <1>1, <1>2, <2>1, <2>2, ChangedSession
  <2>4. security' = Bump(NoChallenge(security)) /\ UNCHANGED <<ecu, flash>>
        /\ RecordFor(q, "session_control", None)
    BY <1>3 DEF ControlSession, Record
  <2>5. request[q] # None
    BY <1>3 DEF ControlSession, Ready, Holds
  <2> QED
    BY <1>1, <2>3, <2>4, <2>5, ChallengeTaken
<1>4. CASE ResetEcu(q)
  <2>1. /\ session' = Bump([session EXCEPT !.type = "default", !.level = 0])
        /\ security' = Bump(NoChallenge(security)) /\ UNCHANGED flash
        /\ RecordFor(q, "ecu_reset", None)
        /\ ExecuteEcuReset(q)
    BY <1>4 DEF ResetEcu, Record
  <2>2. "default" \in SessionTypes
    BY DEF SessionTypes
  <2>3. /\ session' \in Session /\ session'.level = 0
        /\ session'.version = session.version + 1
    BY <1>1, <1>2, <2>1, <2>2, ChangedSession
  <2>4. request[q] # None
    BY <1>4 DEF ResetEcu, Ready, Holds
  <2>5. ecu' \in Ecu /\ ecu'.version = request[q].ecu.version + 1
    BY <1>1, <2>1, <2>4, InFlightRow, ResetEcuRow DEF ExecuteEcuReset
  <2> QED
    BY <1>1, <2>1, <2>3, <2>4, <2>5, ChallengeTaken
<1> QED
  BY <1>3, <1>4 DEF SessionRequest

\* What any other command of the simulator does.
LEMMA AdvanceEcuStep ==
    ASSUME TypeOK, NEW q \in Requests, AdvanceEcu(q)
    PROVE  /\ ecu' \in Ecu /\ ecu'.version = request[q].ecu.version + 1
           /\ request[q] # None /\ request' = [request EXCEPT ![q] = None]
           /\ UNCHANGED <<session, security, flash, commands, workload>>
<1>1. /\ request[q] # None /\ request' = [request EXCEPT ![q] = None]
      /\ ChangeEcu(q, [version |-> request[q].ecu.version + 1, time |-> request[q].ecu.time + 1])
      /\ UNCHANGED <<session, security, flash, commands, workload>>
  BY DEF AdvanceEcu, Holds
<1>2. ecu \in Ecu /\ request[q].ecu \in Ecu
  BY <1>1, InFlightRow DEF TypeOK, SessionTypeOK
<1> QED
  BY <1>1, <1>2, AdvancedEcuRow

\* What security_access does to the two rows, and that it leaves the rest.
LEMMA SecurityAccessStep ==
    ASSUME TypeOK, SecurityIsOfThisSession, NEW q \in Requests, SecurityAccess(q)
    PROVE  /\ session' \in Session /\ session'.version \in {session.version, session.version + 1}
           /\ session'.type = session.type
           /\ security' \in Security
           /\ SecurityIsOfThisSession'
           /\ ecu' = ecu /\ flash' = flash
           /\ request[q] # None
           /\ \/ /\ RecordFor(q, "security_access", None)
                 /\ security'.version = security.version + 1
              \/ /\ request' = [request EXCEPT ![q] = None]
                 /\ UNCHANGED <<session, commands, workload>>
                 /\ security'.version = security.version
<1>1. session \in Session /\ security \in Security
  BY DEF TypeOK, SessionTypeOK
<1>2. /\ Undelayed \in Security
      /\ Undelayed.seed = security.seed /\ Undelayed.locked = None
      /\ Undelayed.failed = IF security.locked = None THEN security.failed ELSE 0
      /\ Undelayed.version = security.version
  BY <1>1, UndelayedRow
<1>3. session.type # "default" /\ request[q] # None
  BY DEF SecurityAccess, RequestSeed, SendKeyWithoutSeed, SendWrongKey, SendKey, MayAccess,
         Ready, Holds
<1>4. /\ request[q].ecu.time + SeedTtl \in Nat /\ request[q].ecu.time + LockDelay \in Nat
      /\ MaxAttempts \in Nat \ {0} /\ None \notin Nat
  BY <1>3, InFlightRow, SessionAssumption
<1>5. security.failed \in 0..MaxAttempts
  BY <1>1 DEF Security
<1>6. /\ security.locked # None <=> security.failed = MaxAttempts
      /\ security.locked # None => security.seed = None
  BY DEF SecurityIsOfThisSession
<1> DEFINE base == Undelayed
<1>7. /\ base \in Security
      /\ base.seed = security.seed /\ base.locked = None
      /\ base.failed = IF security.locked = None THEN security.failed ELSE 0
      /\ base.version = security.version
  BY <1>2
<1> HIDE DEF base
<1>8. CASE RequestSeed(q)
  <2> DEFINE new == [base EXCEPT !.seed = request[q].ecu.time + SeedTtl]
  <2>1. /\ security' = Bump(new) /\ UNCHANGED <<ecu, session, flash>>
        /\ RecordFor(q, "security_access", None)
    BY <1>8 DEF RequestSeed, Record, base
  <2>2. /\ new \in Security /\ new.failed = base.failed
        /\ new.locked = base.locked /\ new.version = base.version
    BY <1>4, <1>7, SecurityRowSeeded DEF Security
  <2> HIDE DEF new
  <2>3. /\ security' \in Security
        /\ security'.failed = base.failed /\ security'.locked = None
        /\ security'.version = security.version + 1
    BY <2>1, <2>2, <1>7, BumpedSecurity
  <2>4. SecurityIsOfThisSession'
    BY <1>3, <1>4, <1>5, <1>6, <1>7, <2>1, <2>3 DEF SecurityIsOfThisSession
  <2> QED
    BY <1>1, <1>3, <2>1, <2>3, <2>4
<1>9. CASE SendKeyWithoutSeed(q)
  <2>1. /\ security' = base /\ request' = [request EXCEPT ![q] = None]
        /\ UNCHANGED <<ecu, session, flash, commands, workload>>
    BY <1>9 DEF SendKeyWithoutSeed, base
  <2>2. SecurityIsOfThisSession'
    BY <1>3, <1>4, <1>5, <1>6, <1>7, <2>1 DEF SecurityIsOfThisSession
  <2> QED
    BY <1>1, <1>3, <1>7, <2>1, <2>2
<1>10. CASE SendWrongKey(q)
  <2> DEFINE failed == base.failed + 1
             locked == [base EXCEPT !.failed = failed, !.seed = None,
                                    !.locked = request[q].ecu.time + LockDelay]
             again == [base EXCEPT !.failed = failed]
  <2>1. /\ security' = Bump(IF failed >= MaxAttempts THEN locked ELSE again)
        /\ UNCHANGED <<ecu, session, flash>>
        /\ RecordFor(q, "security_access", None)
    BY <1>10 DEF SendWrongKey, Record, base
  <2>2. failed \in 1..MaxAttempts /\ failed \in 0..MaxAttempts
    BY <1>4, <1>5, <1>6, <1>7
  <2>3. /\ locked \in Security /\ locked.seed = None /\ locked.failed = failed
        /\ locked.locked = request[q].ecu.time + LockDelay /\ locked.version = base.version
    BY <1>4, <1>7, <2>2, SecurityRowDelayed DEF Security
  <2>4. /\ again \in Security /\ again.seed = base.seed /\ again.failed = failed
        /\ again.locked = None /\ again.version = base.version
    BY <1>4, <1>7, <2>2, SecurityRowFailed DEF Security
  <2> HIDE DEF locked, again
  <2>5. /\ security' \in Security /\ security'.version = security.version + 1
        /\ security'.failed = failed
        /\ failed >= MaxAttempts =>
             security'.locked = request[q].ecu.time + LockDelay /\ security'.seed = None
        /\ ~(failed >= MaxAttempts) => security'.locked = None
    BY <2>1, <2>3, <2>4, <1>7, BumpedSecurity
  <2>6. SecurityIsOfThisSession'
    BY <1>3, <1>4, <1>7, <2>1, <2>2, <2>5 DEF SecurityIsOfThisSession
  <2> QED
    BY <1>1, <1>3, <2>1, <2>5, <2>6
<1>11. CASE SendKey(q)
  <2>1. /\ session' = Bump([session EXCEPT !.level = 1])
        /\ security' = Bump(NoChallenge(base)) /\ UNCHANGED <<ecu, flash>>
        /\ RecordFor(q, "security_access", None)
    BY <1>11 DEF SendKey, Record, base
  <2>2. /\ security' \in Security
        /\ security'.seed = None /\ security'.failed = 0 /\ security'.locked = None
        /\ security'.version = security.version + 1
    BY <1>7, <2>1, ChallengeTaken
  <2>3. session' \in Session /\ session'.version = session.version + 1
        /\ session'.type = session.type
    BY <1>1, <2>1, ChangedSession, session.type \in SessionTypes, 1 \in {0, 1} DEF Session
  <2>4. SecurityIsOfThisSession'
    BY <1>3, <1>4, <2>2, <2>3 DEF SecurityIsOfThisSession
  <2> QED
    BY <1>3, <2>1, <2>2, <2>3, <2>4
<1> QED
  BY <1>8, <1>9, <1>10, <1>11 DEF SecurityAccess

\* A request that has seen the present transfer numbers the block that it
\* wants next, and nobody has seen a transfer that is still to come.
BlocksAreNext ==
    \A q \in InFlight :
        /\ request[q].flash <= flash.version
        /\ request[q].flash = flash.version => request[q].block = Len(flash.image) + 1

\* A download that is under way has the firmware it was requested for.
DownloadIsNamed == flash.status = "downloading" => flash.firmware \in Firmwares

\* What the three requests of a download do to its row and to the ECU.
LEMMA FlashRequestStep ==
    ASSUME TypeOK, ImageIsInOrder, BlocksAreNext, DownloadIsNamed,
           NEW q \in Requests, FlashRequest(q)
    PROVE  /\ flash' \in Flash /\ flash'.version = flash.version + 1
           /\ ImageIsInOrder' /\ DownloadIsNamed'
           /\ ecu' \in Ecu /\ UNCHANGED <<session, security>>
           /\ request[q] # None
           /\ RecordFor(q, "flash", None)
<1>0. flash \in Flash /\ ecu \in Ecu
  BY DEF TypeOK, SessionTypeOK
<1>1. /\ flash.image \in Seq(Nat) /\ flash.firmware \in Firmwares \cup {""}
  BY <1>0 DEF Flash
<1>11. flash.size \in Nat /\ flash.version \in Nat /\ flash.counter \in 0..Counters - 1
  BY <1>0 DEF Flash
<1>2. request[q] # None
  BY DEF FlashRequest, RequestDownload, TransferBlock, ExitTransfer, Ready, Holds
<1>3. Counters \in Nat \ {0}
  BY SessionAssumption
<1>4. \A c \in Nat : c % Counters \in 0..Counters - 1
  BY <1>3
<1>12. 1 % Counters \in 0..Counters - 1 /\ (flash.counter + 1) % Counters \in 0..Counters - 1
  <2>1. flash.counter + 1 \in Nat /\ 1 \in Nat
    BY ONLY <1>11, <1>3
  <2> QED
    BY ONLY <1>4, <2>1
<1>5. /\ "idle" \in {"idle", "downloading", "completed"}
      /\ "downloading" \in {"idle", "downloading", "completed"}
      /\ "completed" \in {"idle", "downloading", "completed"}
  OBVIOUS
<1>6. << >> \in Seq(Nat) /\ Len(<< >>) = 0 /\ DOMAIN << >> = {}
  OBVIOUS
<1>7. CASE RequestDownload(q)
  <2>1. PICK size \in Sizes, firmware \in Firmwares :
          flash' = [status |-> "downloading", size |-> size, firmware |-> firmware,
                    target |-> request[q].ecu.version, counter |-> 1 % Counters,
                    image |-> <<>>, version |-> flash.version + 1]
    BY <1>7 DEF RequestDownload
  <2>2. size \in Nat /\ request[q].ecu.version \in Nat
    BY <1>2, InFlightRow, SessionAssumption
  <2>3. flash.version + 1 \in Nat \ {0}
    BY ONLY <1>11
  <2>4. flash' \in Flash
    BY ONLY <1>5, <1>6, <1>12, <2>1, <2>2, <2>3, firmware \in Firmwares DEF Flash
  <2>5. flash'.image = << >> /\ flash'.size = size /\ flash'.version = flash.version + 1
    BY <2>1
  <2>6. ImageIsInOrder'
    BY <1>6, <2>2, <2>5 DEF ImageIsInOrder, DigestMatches
  <2>7. DownloadIsNamed'
    BY <2>1 DEF DownloadIsNamed
  <2>8. UNCHANGED <<ecu, session, security>> /\ RecordFor(q, "flash", None)
    BY <1>7 DEF RequestDownload, Record
  <2> QED
    BY <1>0, <1>2, <2>4, <2>5, <2>6, <2>7, <2>8
<1>8. CASE TransferBlock(q)
  <2> DEFINE image == Append(flash.image, request[q].block)
             counter == (flash.counter + 1) % Counters
             new == Extended(flash, image, counter)
  <2>1. /\ flash' = Bump(new) /\ UNCHANGED <<ecu, session, security>>
        /\ RecordFor(q, "flash", None)
        /\ request[q].flash = flash.version /\ Len(flash.image) < flash.size
    BY <1>8 DEF TransferBlock, SeesTransfer, Record, Extended
  <2>2. request[q].block = Len(flash.image) + 1
    BY <1>2, <2>1 DEF BlocksAreNext, InFlight
  <2>3. image \in Seq(Nat) /\ (\A n \in DOMAIN image : image[n] = n) /\ Len(image) <= flash.size
    BY <1>1, <1>11, <1>2, <2>1, <2>2, InFlightRow, NextBlockAppended DEF ImageIsInOrder, DigestMatches
  <2>4. counter \in 0..Counters - 1
    BY <1>12
  <2> HIDE DEF image, counter
  <2>5. /\ new \in Flash /\ new.image = image /\ new.size = flash.size
        /\ new.version = flash.version
        /\ new.status = flash.status /\ new.firmware = flash.firmware
    <3>1. image \in Seq(Nat)
      BY <2>3
    <3> QED
      BY ONLY <1>0, <3>1, <2>4, ExtendedFlash, Zenon
  <2> HIDE DEF new
  <2>6. /\ flash' \in Flash /\ flash'.image = image /\ flash'.size = flash.size
        /\ flash'.version = flash.version + 1
        /\ flash'.status = flash.status /\ flash'.firmware = flash.firmware
    BY <2>1, <2>5, BumpedFlash
  <2>7. ImageIsInOrder'
    BY <2>3, <2>6 DEF ImageIsInOrder, DigestMatches
  <2>8. DownloadIsNamed'
    BY <2>6 DEF DownloadIsNamed
  <2> QED
    BY <1>0, <1>2, <2>1, <2>6, <2>7, <2>8
<1>9. CASE ExitTransfer(q)
  <2> DEFINE new == [flash EXCEPT !.status = "completed", !.image = <<>>]
  <2>1. /\ flash' = Bump(new) /\ UNCHANGED <<session, security>>
        /\ RecordFor(q, "flash", None)
        /\ ChangeEcu(q, [version |-> request[q].ecu.version + 1, firmware |-> flash.firmware])
    BY <1>9 DEF ExitTransfer, Record
  <2>2. /\ new \in Flash /\ new.image = <<>> /\ new.size = flash.size
        /\ new.version = flash.version /\ new.status = "completed"
    BY <1>0, EndedFlash
  <2> HIDE DEF new
  <2>3. /\ flash' \in Flash /\ flash'.image = <<>> /\ flash'.size = flash.size
        /\ flash'.version = flash.version + 1 /\ flash'.status = "completed"
    BY <2>1, <2>2, BumpedFlash
  <2>4. ImageIsInOrder'
    BY ONLY <1>11, <1>6, <2>3 DEF ImageIsInOrder, DigestMatches
  <2>5. flash.firmware \in Firmwares
    BY <1>9 DEF ExitTransfer, DownloadIsNamed
  <2>6. ecu' \in Ecu
    BY <1>0, <1>2, <2>1, <2>5, InFlightRow, FlashedEcuRow
  <2> QED
    BY <1>2, <2>1, <2>3, <2>4, <2>6 DEF DownloadIsNamed
<1> QED
  BY <1>7, <1>8, <1>9 DEF FlashRequest

-----------------------------------------------------------------------------
(* What the requests keep *)

Looked(row, stage, item, listed) ==
    [row EXCEPT !.stage = stage, !.item = item, !.listed = listed]

\* A request that keeps what it has looked up.
LEMMA LookedRow ==
    ASSUME NEW A, NEW B, NEW C, NEW D, NEW E, NEW F,
           NEW row \in [stage : A, id : B, ecu : C, session : D, security : D, flash : D,
                        block : D, catalogue : E, item : F, listed : SUBSET Codes],
           NEW stage \in A, NEW item \in F, NEW listed \in SUBSET Codes
    PROVE  LET new == Looked(row, stage, item, listed)
           IN  /\ new \in [stage : A, id : B, ecu : C, session : D, security : D, flash : D,
                           block : D, catalogue : E, item : F, listed : SUBSET Codes]
               /\ new.stage = stage /\ new.item = item /\ new.listed = listed
               /\ new.ecu = row.ecu /\ new.flash = row.flash /\ new.block = row.block
BY DEF Looked

\* A request that has looked something up has read what it had read before.
LEMMA LookStep ==
    ASSUME TypeOK, NEW q \in Requests, request[q] # None,
           NEW stage \in {"create_did", "create_routine", "report_new", "report_again", "clear"},
           NEW item \in Dids \cup Routines \cup Codes \cup {None}, NEW listed \in SUBSET Codes,
           Look(q, stage, item, listed)
    PROVE  /\ request' \in [Requests -> RequestRow \cup {None}]
           /\ \A p \in Requests : p # q => request'[p] = request[p]
           /\ request'[q] # None
           /\ request'[q].stage = stage /\ request'[q].item = item
           /\ request'[q].listed = listed
           /\ request'[q].ecu = request[q].ecu /\ request'[q].flash = request[q].flash
           /\ request'[q].block = request[q].block
<1> DEFINE A == {"loaded", "create_did", "create_routine", "report_new", "report_again", "clear"}
           E == [did : [Dids -> Nat], routine : [Routines -> Nat]]
           F == Dids \cup Routines \cup Codes \cup {None}
           N == Nat
           new == Looked(request[q], stage, item, listed)
<1>1. RequestRow = [stage : A, id : CommandIds, ecu : Ecu, session : N, security : N, flash : N,
                    block : N, catalogue : E, item : F, listed : SUBSET Codes]
  BY DEF RequestRow
<1>2. request \in [Requests -> RequestRow \cup {None}] /\ request[q] \in RequestRow
  BY InFlightRow DEF TypeOK
<1>3. stage \in A /\ item \in F
  OBVIOUS
<1>4. request' = [request EXCEPT ![q] = new]
  BY <1>2 DEF Look, Looked
<1> HIDE DEF A, E, F, N, new
<1>5. /\ new \in RequestRow
      /\ new.stage = stage /\ new.item = item /\ new.listed = listed
      /\ new.ecu = request[q].ecu /\ new.flash = request[q].flash
      /\ new.block = request[q].block
  BY <1>1, <1>2, <1>3, LookedRow DEF new
<1>6. new # None
  BY <1>5, NoneIsNoRow
<1> QED
  BY <1>2, <1>4, <1>5, <1>6

\* A request that ends or is broken off leaves the others as they are.
LEMMA EndStep ==
    ASSUME TypeOK, NEW q \in Requests, request' = [request EXCEPT ![q] = None]
    PROVE  /\ request' \in [Requests -> RequestRow \cup {None}]
           /\ request'[q] = None
           /\ \A p \in Requests : p # q => request'[p] = request[p]
           /\ \A p \in Requests : request'[p] # None => p # q /\ request'[p] = request[p]
BY DEF TypeOK

\* _context reads the rows as they are.
LEMMA LoadStep ==
    ASSUME TypeOK, NEW q \in Requests, Load(q)
    PROVE  /\ request' \in [Requests -> RequestRow \cup {None}]
           /\ request[q] = None /\ request'[q] # None
           /\ \A p \in Requests : p # q => request'[p] = request[p]
           /\ request'[q].stage = "loaded" /\ request'[q].ecu = ecu
           /\ request'[q].flash = flash.version
           /\ request'[q].block = Len(flash.image) + 1
           /\ UNCHANGED <<sessionRows, commands, workload, catalogueVars>>
<1> DEFINE catalogue ==
         [did |-> [d \in Dids |-> IF dids[d] = None THEN 0 ELSE dids[d].version],
          routine |-> [r \in Routines |->
                          IF routines[r] = None THEN 0 ELSE routines[r].state.version]]
<1>1. request[q] = None /\ UNCHANGED <<sessionRows, commands, workload, catalogueVars>>
  BY DEF Load, LoadContext, sessionRows
<1>2. PICK i \in Unstored :
        request' = [request EXCEPT ![q] =
              [stage |-> "loaded", id |-> i, ecu |-> ecu, session |-> session.version,
               security |-> security.version, flash |-> flash.version,
               block |-> Len(flash.image) + 1, catalogue |-> catalogue, item |-> None,
               listed |-> {}]]
  BY DEF Load, LoadContext
<1> DEFINE new == [stage |-> "loaded", id |-> i, ecu |-> ecu, session |-> session.version,
                   security |-> security.version, flash |-> flash.version,
                   block |-> Len(flash.image) + 1, catalogue |-> catalogue, item |-> None,
                   listed |-> {}]
<1>3. i \in CommandIds
  <2>1. workload.commands \in CommandIds /\ CommandIds = 1..Cardinality(CommandIds)
    BY SessionAssumption DEF TypeOK
  <2>2. Cardinality(CommandIds) \in Nat
    BY SessionAssumption, FS_CardinalityType
  <2>3. i \in 1..workload.commands
    BY DEF Unstored
  <2> QED
    BY ONLY <2>1, <2>2, <2>3
<1>4. /\ ecu \in Ecu /\ session.version \in Nat /\ security.version \in Nat
      /\ flash.version \in Nat /\ flash.image \in Seq(Nat)
  BY DEF TypeOK, SessionTypeOK, Session, Security, Flash
<1>5. Len(flash.image) + 1 \in Nat
  BY <1>4, LenProperties
<1>6. catalogue \in [did : [Dids -> Nat], routine : [Routines -> Nat]]
  <2>1. \A d \in Dids : dids[d] # None => dids[d].version \in Nat
    BY DEF TypeOK, DidRow
  <2>2. \A r \in Routines : routines[r] # None => routines[r].state.version \in Nat
    BY DEF TypeOK, RoutineRow, RoutineState
  <2> QED
    BY <2>1, <2>2
<1> HIDE DEF catalogue
<1>7. new \in RequestRow
  BY <1>3, <1>4, <1>5, <1>6 DEF RequestRow
<1>8. /\ new.stage = "loaded" /\ new.ecu = ecu /\ new.flash = flash.version
      /\ new.block = Len(flash.image) + 1
  OBVIOUS
<1>9. request' = [request EXCEPT ![q] = new]
  BY <1>2
<1> HIDE DEF new
<1>10. new # None
  BY <1>7, NoneIsNoRow
<1>11. request \in [Requests -> RequestRow \cup {None}]
  BY DEF TypeOK
<1> QED
  BY <1>1, <1>7, <1>8, <1>9, <1>10, <1>11

\* The commands of the catalogues that leave the session as it is.
EntryServices == {"read_dids", "write_did", "start_routine", "stop_routine", "routine_results"}

\* How a step of a request treats the rows, the commands and the request.
Ends(q) ==
    /\ request[q] # None
    /\ request' = [request EXCEPT ![q] = None]
    /\ UNCHANGED <<sessionRows, commands, workload>>
Looks(q) ==
    /\ request[q] # None
    /\ \E stage \in {"create_did", "create_routine", "report_new", "report_again", "clear"},
          item \in Dids \cup Routines \cup Codes \cup {None}, listed \in SUBSET Codes :
            Look(q, stage, item, listed)
Stores(q) ==
    /\ request[q] # None
    /\ UNCHANGED sessionRows
    /\ \E service \in EntryServices, entry \in Dids \cup Routines \cup {None} :
          RecordFor(q, service, entry)
Clears(q) ==
    /\ request[q] # None
    /\ session' = Bump(session)
    /\ UNCHANGED <<ecu, security, flash>>
    /\ RecordFor(q, "clear_dtcs", None)

\* Every service of the catalogues ends, looks something up, stores a
\* command, or clears the codes.
LEMMA CatalogueShapes ==
    ASSUME TypeOK, NEW q \in Requests,
           \/ DidRequest(q) \/ RoutineRequest(q) \/ DtcRequest(q) \/ RunCampaign(q)
    PROVE  Ends(q) \/ Looks(q) \/ Stores(q) \/ Clears(q)
<1>1. CASE CreateDid(q) \/ CreateRoutine(q) \/ ReportDtc(q) \/ RunCampaign(q)
  BY <1>1 DEF CreateDid, CreateRoutine, ReportDtc, RunCampaign, Finish, Ends, Holds
<1>2. CASE BeginCreateDid(q)
  <2>1. PICK d \in Dids : Look(q, "create_did", d, {})
    BY <1>2 DEF BeginCreateDid
  <2> QED
    BY <1>2, <2>1 DEF BeginCreateDid, Holds, Looks
<1>3. CASE BeginCreateRoutine(q)
  <2>1. PICK r \in Routines : Look(q, "create_routine", r, {})
    BY <1>3 DEF BeginCreateRoutine
  <2> QED
    BY <1>3, <2>1 DEF BeginCreateRoutine, Holds, Looks
<1>4. CASE BeginReportDtc(q)
  <2>1. PICK c \in Codes : Look(q, "report_new", c, {}) \/ Look(q, "report_again", c, {})
    BY <1>4 DEF BeginReportDtc
  <2> QED
    BY <1>4, <2>1 DEF BeginReportDtc, Holds, Looks
<1>5. CASE BeginClearDtcs(q)
  <2>1. Look(q, "clear", None, Listed) /\ Listed \in SUBSET Codes
    BY <1>5 DEF BeginClearDtcs, Listed, Present, TypeOK
  <2> QED
    BY <1>5, <2>1 DEF BeginClearDtcs, Ready, Holds, Looks
<1>6. CASE ReadDids(q)
  BY <1>6 DEF ReadDids, Ready, Holds, Record, Stores, EntryServices
<1>7. CASE WriteDid(q)
  <2>1. PICK d \in Present(dids) : RecordFor(q, "write_did", d)
    BY <1>7 DEF WriteDid
  <2>2. d \in Dids
    BY DEF Present, TypeOK
  <2> QED
    BY <1>7, <2>1, <2>2 DEF WriteDid, Ready, Holds, Stores, EntryServices
<1>8. CASE ControlRoutine(q)
  <2>1. PICK r \in Present(routines) :
          \/ RecordFor(q, "start_routine", r) \/ RecordFor(q, "stop_routine", r)
          \/ RecordFor(q, "routine_results", r)
    BY <1>8 DEF ControlRoutine
  <2>2. r \in Routines
    BY DEF Present, TypeOK
  <2>3. request[q] # None /\ UNCHANGED sessionRows
    BY <1>8 DEF ControlRoutine, Ready, Holds
  <2> QED
    BY <2>1, <2>2, <2>3 DEF Stores, EntryServices
<1>9. CASE ClearDtcs(q)
  BY <1>9 DEF ClearDtcs, Holds, Record, Clears
<1> QED
  BY <1>1, <1>2, <1>3, <1>4, <1>5, <1>6, <1>7, <1>8, <1>9
     DEF DidRequest, RoutineRequest, DtcRequest

\* Every step of the system is one of these.
LEMMA StepShapes ==
    ASSUME TypeOK, [Next]_vars
    PROVE  \/ UNCHANGED vars
           \/ \E q \in Requests : \/ AdvanceEcu(q) \/ Load(q) \/ Ends(q) \/ Looks(q) \/ Stores(q) \/ Clears(q)
                                  \/ SessionRequest(q) \/ SecurityAccess(q) \/ FlashRequest(q)
<1>1. CASE UNCHANGED vars
  BY <1>1
<1>2. CASE SessionStep
  <2>1. CASE \E q \in Requests : Abandon(q)
    BY <2>1 DEF Abandon, Ends, sessionRows
  <2> QED
    BY <1>2, <2>1 DEF SessionStep
<1>3. CASE \E q \in Requests : \/ Load(q) \/ DidRequest(q) \/ RoutineRequest(q)
                               \/ DtcRequest(q) \/ RunCampaign(q)
  BY <1>3, CatalogueShapes
<1> QED
  BY <1>1, <1>2, <1>3 DEF Next

\* A request that a step does not concern keeps its row; the one that it
\* concerns keeps what it has read, reads the rows as they are, or ends.
RequestsKept ==
    /\ request' \in [Requests -> RequestRow \cup {None}]
    /\ \A p \in Requests : request'[p] # None =>
         \/ /\ request[p] # None
            /\ request'[p].ecu = request[p].ecu /\ request'[p].flash = request[p].flash
            /\ request'[p].block = request[p].block
         \/ /\ request'[p].ecu = ecu /\ request'[p].flash = flash.version
            /\ request'[p].block = Len(flash.image) + 1
            /\ UNCHANGED sessionRows

\* Every step keeps what the requests have read.
LEMMA RequestsStep ==
    ASSUME TypeOK, SecurityIsOfThisSession, ImageIsInOrder, BlocksAreNext, DownloadIsNamed,
           [Next]_vars
    PROVE  RequestsKept /\ workload' = workload
<1>1. request \in [Requests -> RequestRow \cup {None}]
  BY DEF TypeOK
<1>2. ASSUME NEW q \in Requests, request' = [request EXCEPT ![q] = None]
      PROVE  RequestsKept
  BY <1>2, EndStep DEF RequestsKept
<1>3. ASSUME request' = request
      PROVE  RequestsKept
  BY <1>1, <1>3 DEF RequestsKept
<1>4. CASE UNCHANGED vars
  BY <1>3, <1>4 DEF vars, sessionVars
<1>5. ASSUME NEW q \in Requests, AdvanceEcu(q)
      PROVE  RequestsKept /\ workload' = workload
  BY <1>2, <1>5, AdvanceEcuStep
<1>6. ASSUME NEW q \in Requests, Load(q)
      PROVE  RequestsKept /\ workload' = workload
  BY <1>6, LoadStep DEF RequestsKept
<1>7. ASSUME NEW q \in Requests, Looks(q)
      PROVE  RequestsKept /\ workload' = workload
  <2>1. PICK stage \in {"create_did", "create_routine", "report_new", "report_again", "clear"},
             item \in Dids \cup Routines \cup Codes \cup {None}, listed \in SUBSET Codes :
               Look(q, stage, item, listed)
    BY <1>7 DEF Looks
  <2>2. /\ request' \in [Requests -> RequestRow \cup {None}] /\ request[q] # None
        /\ \A p \in Requests : p # q => request'[p] = request[p]
        /\ request'[q].ecu = request[q].ecu /\ request'[q].flash = request[q].flash
        /\ request'[q].block = request[q].block
    BY <1>7, <2>1, LookStep DEF Looks
  <2> QED
    BY <2>1, <2>2 DEF RequestsKept, Look
<1>8. ASSUME NEW q \in Requests,
             \/ Ends(q) \/ Stores(q) \/ Clears(q)
             \/ SessionRequest(q) \/ SecurityAccess(q) \/ FlashRequest(q)
      PROVE  RequestsKept /\ workload' = workload
  <2>1. CASE Ends(q)
    BY <1>2, <2>1 DEF Ends
  <2>2. ASSUME NEW service, NEW entry, RecordFor(q, service, entry)
        PROVE  RequestsKept /\ workload' = workload
    BY <1>2, <2>2 DEF RecordFor
  <2>3. CASE Stores(q) \/ Clears(q)
    BY <2>2, <2>3 DEF Stores, Clears
  <2>4. CASE SessionRequest(q)
    BY <2>2, <2>4, SessionRequestStep
  <2>5. CASE SecurityAccess(q)
    BY <1>2, <2>2, <2>5, SecurityAccessStep
  <2>6. CASE FlashRequest(q)
    BY <2>2, <2>6, FlashRequestStep
  <2> QED
    BY <1>8, <2>1, <2>3, <2>4, <2>5, <2>6
<1> QED
  BY <1>4, <1>5, <1>6, <1>7, <1>8, StepShapes, <1>3 DEF vars, sessionVars

-----------------------------------------------------------------------------
(* The session, what it has granted, and the image of the download *)

RowsInv == SecurityIsOfThisSession /\ ImageIsInOrder /\ BlocksAreNext /\ DownloadIsNamed

\* A step that moves the transfer leaves no request that has seen it.
LEMMA BlocksStep ==
    ASSUME TypeOK, BlocksAreNext, RequestsKept,
           flash' = flash \/ flash'.version = flash.version + 1
    PROVE  BlocksAreNext'
<1> SUFFICES ASSUME NEW p \in Requests, request'[p] # None
             PROVE  /\ request'[p].flash <= flash'.version
                    /\ request'[p].flash = flash'.version =>
                         request'[p].block = Len(flash'.image) + 1
  BY DEF BlocksAreNext, InFlight
<1>1. flash.version \in Nat
  BY DEF TypeOK, SessionTypeOK, Flash
<1>2. CASE /\ request[p] # None
           /\ request'[p].flash = request[p].flash /\ request'[p].block = request[p].block
  <2>1. /\ request[p].flash <= flash.version /\ request[p].flash \in Nat
        /\ request[p].flash = flash.version => request[p].block = Len(flash.image) + 1
    BY <1>2, InFlightRow DEF BlocksAreNext, InFlight
  <2> QED
    BY <1>1, <1>2, <2>1
<1>3. CASE /\ request'[p].flash = flash.version /\ request'[p].block = Len(flash.image) + 1
           /\ flash' = flash
  BY <1>1, <1>3
<1> QED
  BY <1>2, <1>3 DEF RequestsKept, sessionRows

\* The rows stay what they are, whatever request moves them.
LEMMA RowsStep ==
    ASSUME TypeOK, RowsInv, [Next]_vars
    PROVE  SessionTypeOK' /\ RowsInv'
<1> USE DEF RowsInv
<1>1. /\ ecu \in Ecu /\ session \in Session /\ security \in Security /\ flash \in Flash
  BY DEF TypeOK, SessionTypeOK
<1>2. RequestsKept
  BY RequestsStep
<1>3. ASSUME UNCHANGED <<session, security>>
      PROVE  SecurityIsOfThisSession'
  BY <1>3 DEF SecurityIsOfThisSession
<1>4. ASSUME UNCHANGED flash
      PROVE  ImageIsInOrder' /\ DownloadIsNamed'
  BY <1>4 DEF ImageIsInOrder, DigestMatches, DownloadIsNamed
<1>5. ASSUME UNCHANGED sessionRows
      PROVE  SessionTypeOK' /\ RowsInv'
  BY <1>1, <1>2, <1>3, <1>4, <1>5, BlocksStep DEF SessionTypeOK, sessionRows
<1>6. CASE UNCHANGED vars
  BY <1>5, <1>6 DEF vars, sessionVars, sessionRows
<1>7. ASSUME NEW q \in Requests, AdvanceEcu(q)
      PROVE  SessionTypeOK' /\ RowsInv'
  <2>1. ecu' \in Ecu /\ UNCHANGED <<session, security, flash>>
    BY <1>7, AdvanceEcuStep
  <2> QED
    BY <1>1, <1>2, <1>3, <1>4, <2>1, BlocksStep DEF SessionTypeOK
<1>8. ASSUME NEW q \in Requests, Load(q) \/ Ends(q) \/ Looks(q) \/ Stores(q)
      PROVE  SessionTypeOK' /\ RowsInv'
  <2>1. UNCHANGED sessionRows
    BY <1>8, LoadStep DEF Ends, Looks, Look, Stores
  <2> QED
    BY <1>5, <2>1
<1>9. ASSUME NEW q \in Requests, Clears(q)
      PROVE  SessionTypeOK' /\ RowsInv'
  <2>1. session' = Bump(session) /\ UNCHANGED <<ecu, security, flash>>
    BY <1>9 DEF Clears
  <2>2. session.type \in SessionTypes /\ session.level \in {0, 1}
    BY <1>1 DEF Session
  <2>3. session' \in Session /\ session'.type = session.type /\ session'.level = session.level
    BY <1>1, <2>1, <2>2, ChangedSession
  <2>4. SecurityIsOfThisSession'
    BY <2>1, <2>3 DEF SecurityIsOfThisSession
  <2> QED
    BY <1>1, <1>2, <1>4, <2>1, <2>3, <2>4, BlocksStep DEF SessionTypeOK
<1>10. ASSUME NEW q \in Requests, SessionRequest(q)
       PROVE  SessionTypeOK' /\ RowsInv'
  <2>1. /\ session' \in Session /\ session'.level = 0
        /\ security' \in Security
        /\ security'.seed = None /\ security'.failed = 0 /\ security'.locked = None
        /\ ecu' \in Ecu /\ flash' = flash
    BY <1>10, SessionRequestStep
  <2>2. MaxAttempts \in Nat \ {0}
    BY SessionAssumption
  <2>3. SecurityIsOfThisSession'
    BY <2>1, <2>2 DEF SecurityIsOfThisSession
  <2> QED
    BY <1>1, <1>2, <1>4, <2>1, <2>3, BlocksStep DEF SessionTypeOK
<1>11. ASSUME NEW q \in Requests, SecurityAccess(q)
       PROVE  SessionTypeOK' /\ RowsInv'
  <2>1. /\ session' \in Session /\ security' \in Security /\ SecurityIsOfThisSession'
        /\ ecu' = ecu /\ flash' = flash
    BY <1>11, SecurityAccessStep
  <2> QED
    BY <1>1, <1>2, <1>4, <2>1, BlocksStep DEF SessionTypeOK
<1>12. ASSUME NEW q \in Requests, FlashRequest(q)
       PROVE  SessionTypeOK' /\ RowsInv'
  <2>1. /\ flash' \in Flash /\ flash'.version = flash.version + 1
        /\ ImageIsInOrder' /\ DownloadIsNamed'
        /\ ecu' \in Ecu /\ UNCHANGED <<session, security>>
    BY <1>12, FlashRequestStep
  <2> QED
    BY <1>1, <1>2, <1>3, <2>1, BlocksStep DEF SessionTypeOK
<1> QED
  BY <1>6, <1>7, <1>8, <1>9, <1>10, <1>11, <1>12, StepShapes

-----------------------------------------------------------------------------
(* The stored commands *)

\* What a step does to the commands: it leaves them and every version, or it
\* stores one command, under an id that was free, with the versions after it.
\* Who moves the security or the download moves it once; ids and session move
\* with it or not.
VersionsKept ==
    /\ session'.version = session.version
    /\ security'.version = security.version
    /\ flash'.version = flash.version

SecurityServices == {"session_control", "security_access", "ecu_reset"}
CommandServices == SecurityServices \cup EntryServices \cup {"flash", "clear_dtcs"}

StoresOne(q, service, entry) ==
    /\ request[q] # None
    /\ service \in CommandServices
    /\ entry \in Dids \cup Routines \cup {None}
    /\ RecordFor(q, service, entry)
    /\ session'.version \in {session.version, session.version + 1}
    /\ security'.version = security.version + (IF service \in SecurityServices THEN 1 ELSE 0)
    /\ flash'.version = flash.version + (IF service = "flash" THEN 1 ELSE 0)

\* A command of a catalogue, and the clear of the trouble codes.
LEMMA EntryStored ==
    ASSUME TypeOK, NEW q \in Requests, request[q] # None, NEW service \in EntryServices,
           NEW entry \in Dids \cup Routines \cup {None},
           UNCHANGED sessionRows, RecordFor(q, service, entry)
    PROVE  StoresOne(q, service, entry)
<1>1. service \in CommandServices /\ service \notin SecurityServices /\ service # "flash"
  BY DEF CommandServices, SecurityServices, EntryServices
<1>2. session.version \in Nat /\ security.version \in Nat /\ flash.version \in Nat
  BY DEF TypeOK, SessionTypeOK, Session, Security, Flash
<1> QED
  BY <1>1, <1>2 DEF StoresOne, sessionRows

\* A clear stores its command and moves the session.
LEMMA ClearStored ==
    ASSUME TypeOK, NEW q \in Requests, Clears(q)
    PROVE  StoresOne(q, "clear_dtcs", None)
<1>1. /\ session.version \in Nat /\ security.version \in Nat /\ flash.version \in Nat
      /\ session \in Session
  BY DEF TypeOK, SessionTypeOK, Session, Security, Flash
<1>2. /\ request[q] # None /\ session' = Bump(session) /\ UNCHANGED <<security, flash>>
      /\ RecordFor(q, "clear_dtcs", None)
  BY DEF Clears
<1>3. session.type \in SessionTypes /\ session.level \in {0, 1}
  BY <1>1 DEF Session
<1>4. session'.version = session.version + 1
  BY <1>1, <1>2, <1>3, ChangedSession
<1>5. /\ "clear_dtcs" \in CommandServices /\ "clear_dtcs" \notin SecurityServices
      /\ "clear_dtcs" # "flash"
  BY DEF CommandServices, SecurityServices
<1> QED
  BY <1>1, <1>2, <1>4, <1>5 DEF StoresOne

\* A command of the session, the security or the download.
LEMMA SessionStored ==
    ASSUME TypeOK, RowsInv, NEW q \in Requests,
           SessionRequest(q) \/ SecurityAccess(q) \/ FlashRequest(q)
    PROVE  \/ commands' = commands /\ VersionsKept
           \/ \E service \in SecurityServices \cup {"flash"} : StoresOne(q, service, None)
<1> USE DEF RowsInv
<1>1. session.version \in Nat /\ security.version \in Nat /\ flash.version \in Nat
  BY DEF TypeOK, SessionTypeOK, Session, Security, Flash
<1>2. CASE SessionRequest(q)
  <2>1. /\ session'.version = session.version + 1
        /\ security'.version = security.version + 1
        /\ flash' = flash /\ request[q] # None
    BY <1>2, SessionRequestStep
  <2>2. PICK service \in {"session_control", "ecu_reset"} : RecordFor(q, service, None)
    BY <1>2, SessionRequestStep
  <2>3. service \in CommandServices /\ service \in SecurityServices /\ service # "flash"
    BY DEF CommandServices, SecurityServices
  <2>4. StoresOne(q, service, None)
    BY <1>1, <2>1, <2>2, <2>3 DEF StoresOne
  <2> QED
    BY <2>3, <2>4
<1>3. CASE SecurityAccess(q)
  <2>1. /\ session'.version \in {session.version, session.version + 1}
        /\ flash' = flash /\ request[q] # None
    BY <1>3, SecurityAccessStep
  <2>2. CASE /\ UNCHANGED <<session, commands>> /\ security'.version = security.version
    BY <2>1, <2>2 DEF VersionsKept
  <2>3. CASE /\ RecordFor(q, "security_access", None)
             /\ security'.version = security.version + 1
    <3>1. /\ "security_access" \in CommandServices /\ "security_access" \in SecurityServices
          /\ "security_access" # "flash"
      BY DEF CommandServices, SecurityServices
    <3>2. StoresOne(q, "security_access", None)
      BY <1>1, <2>1, <2>3, <3>1 DEF StoresOne
    <3> QED
      BY <3>1, <3>2
  <2> QED
    BY <1>3, <2>2, <2>3, SecurityAccessStep
<1>4. CASE FlashRequest(q)
  <2>1. /\ flash'.version = flash.version + 1 /\ UNCHANGED <<session, security>>
        /\ request[q] # None /\ RecordFor(q, "flash", None)
    BY <1>4, FlashRequestStep
  <2>2. "flash" \in CommandServices /\ "flash" \notin SecurityServices
    BY DEF CommandServices, SecurityServices
  <2>3. StoresOne(q, "flash", None)
    BY <1>1, <2>1, <2>2 DEF StoresOne
  <2> QED
    BY <2>3
<1> QED
  BY <1>2, <1>3, <1>4

\* Every step stores one command, or none and moves no version.
LEMMA CommandsStep ==
    ASSUME TypeOK, RowsInv, [Next]_vars
    PROVE  \/ commands' = commands /\ VersionsKept
           \/ \E q \in Requests : \E service, entry : StoresOne(q, service, entry)
<1>1. CASE UNCHANGED vars
  BY <1>1 DEF vars, sessionVars, VersionsKept
<1>2. ASSUME NEW q \in Requests, AdvanceEcu(q)
      PROVE  commands' = commands /\ VersionsKept
  BY <1>2, AdvanceEcuStep DEF VersionsKept
<1>3. ASSUME NEW q \in Requests, Load(q) \/ Ends(q) \/ Looks(q)
      PROVE  commands' = commands /\ VersionsKept
  BY <1>3, LoadStep DEF Ends, Looks, Look, sessionRows, VersionsKept
<1>4. ASSUME NEW q \in Requests, Stores(q)
      PROVE  \E service, entry : StoresOne(q, service, entry)
  <2>1. PICK service \in EntryServices, entry \in Dids \cup Routines \cup {None} :
               RecordFor(q, service, entry)
    BY <1>4 DEF Stores
  <2>2. StoresOne(q, service, entry)
    BY <1>4, <2>1, EntryStored DEF Stores
  <2> QED
    BY <2>2
<1>5. ASSUME NEW q \in Requests, Clears(q)
      PROVE  \E service, entry : StoresOne(q, service, entry)
  <2>1. StoresOne(q, "clear_dtcs", None)
    BY <1>5, ClearStored
  <2> QED
    BY <2>1
<1>6. ASSUME NEW q \in Requests, SessionRequest(q) \/ SecurityAccess(q) \/ FlashRequest(q)
      PROVE  \/ commands' = commands /\ VersionsKept
             \/ \E service, entry : StoresOne(q, service, entry)
  <2>1. CASE \E service \in SecurityServices \cup {"flash"} : StoresOne(q, service, None)
    <3>1. PICK service \in SecurityServices \cup {"flash"} : StoresOne(q, service, None)
      BY <2>1
    <3> QED
      BY <3>1
  <2> QED
    BY <1>6, <2>1, SessionStored
<1> QED
  BY <1>1, <1>2, <1>3, <1>4, <1>5, <1>6, StepShapes

\* The commands of M report the versions up to v, each once.
Reported(M, f, v) == {f[j] : j \in M} = 2..v /\ Cardinality(M) = v - 1

\* A command that reports the version after the last one extends the history.
LEMMA HistoryGrows ==
    ASSUME NEW M, IsFiniteSet(M), NEW f, NEW g, NEW i, i \notin M, NEW v \in Nat \ {0},
           Reported(M, f, v), \A j \in M : g[j] = f[j], g[i] = v + 1
    PROVE  Reported(M \cup {i}, g, v + 1)
<1>0. {f[k] : k \in M} = 2..v /\ Cardinality(M) = v - 1
  BY DEF Reported
<1>1. Cardinality(M \cup {i}) = v
  <2>1. Cardinality(M \cup {i}) = Cardinality(M) + 1
    BY FS_AddElement
  <2> QED
    BY ONLY <1>0, <2>1, v \in Nat \ {0}
<1>2. {g[j] : j \in M \cup {i}} = (2..v) \cup {v + 1}
  <2>1. ASSUME NEW j \in M
        PROVE  g[j] \in 2..v
    <3>1. f[j] \in {f[k] : k \in M}
      BY ONLY <2>1
    <3> QED
      BY ONLY <3>1, <2>1, <1>0, \A k \in M : g[k] = f[k]
  <2>2. ASSUME NEW n \in 2..v
        PROVE  \E j \in M : g[j] = n
    <3>1. n \in {f[k] : k \in M}
      BY ONLY <2>2, <1>0
    <3> QED
      BY ONLY <3>1, \A k \in M : g[k] = f[k]
  <2> QED
    BY ONLY <2>1, <2>2, g[i] = v + 1
<1>3. (2..v) \cup {v + 1} = 2..v + 1
  OBVIOUS
<1> QED
  BY ONLY <1>1, <1>2, <1>3, v \in Nat \ {0} DEF Reported

\* The row that a service stores.
LEMMA StoredRow ==
    ASSUME TypeOK, SessionTypeOK', NEW q \in Requests, NEW service, NEW entry,
           StoresOne(q, service, entry)
    PROVE  LET i == request[q].id
           IN  /\ i \in CommandIds /\ commands[i] = None
               /\ commands' \in [CommandIds -> Command \cup {None}]
               /\ commands'[i] # None
               /\ commands'[i].service = service /\ commands'[i].entry = entry
               /\ commands'[i].previous = session.version
               /\ commands'[i].session = session'.version
               /\ commands'[i].security = security'.version
               /\ commands'[i].flash = flash'.version
               /\ \A j \in CommandIds : j # i => commands'[j] = commands[j]
<1> DEFINE i == request[q].id
           row == CommandRow(service, entry, session.version, session'.version,
                             security'.version, flash'.version, request[q].ecu.version)
<1>1. /\ request[q] # None /\ commands[i] = None
      /\ commands' = [commands EXCEPT ![i] = row]
  BY DEF StoresOne, RecordFor
<1>2. i \in CommandIds /\ request[q].ecu.version \in Nat
  BY <1>1, InFlightRow
<1>3. /\ session.version \in Nat /\ session'.version \in Nat
      /\ security'.version \in Nat /\ flash'.version \in Nat
  BY DEF TypeOK, SessionTypeOK, Session, Security, Flash
<1>4. /\ service \in CommandServices /\ entry \in Dids \cup Routines \cup {None}
  BY DEF StoresOne
<1>5. row \in Command
  BY <1>2, <1>3, <1>4
     DEF CommandRow, Command, CommandServices, SecurityServices, EntryServices
<1>6. /\ row.service = service /\ row.entry = entry /\ row.previous = session.version
      /\ row.session = session'.version /\ row.security = security'.version
      /\ row.flash = flash'.version
  BY DEF CommandRow
<1>7. commands \in [CommandIds -> Command \cup {None}]
  BY DEF TypeOK
<1> HIDE DEF row
<1>8. row # None
  BY <1>5, NoneIsNoRow
<1> QED
  BY <1>1, <1>2, <1>5, <1>6, <1>7, <1>8

\* What the histories count, spelled out.
LEMMA MovedSets ==
    /\ Moved("session") = {i \in Stored : commands[i].session # commands[i].previous}
    /\ Moved("security") = {i \in Stored : commands[i].service \in SecurityServices}
    /\ Moved("flash") = {i \in Stored : commands[i].service = "flash"}
BY DEF Moved, SecurityServices

\* The same in the next state.
LEMMA MovedSetsNext ==
    /\ Moved("session")' = {i \in Stored' : commands'[i].session # commands'[i].previous}
    /\ Moved("security")' = {i \in Stored' : commands'[i].service \in SecurityServices}
    /\ Moved("flash")' = {i \in Stored' : commands'[i].service = "flash"}
BY DEF Moved, SecurityServices

\* The commands stay one history of each row.
LEMMA CommandsHistoryStep ==
    ASSUME TypeOK, RowsInv, CommandsAreOneHistory, [Next]_vars
    PROVE  /\ commands' \in [CommandIds -> Command \cup {None}]
           /\ CommandsAreOneHistory'
<1>1. SessionTypeOK'
  BY RowsStep
<1>2. commands \in [CommandIds -> Command \cup {None}]
  BY DEF TypeOK
<1>3. CASE commands' = commands /\ VersionsKept
  BY <1>2, <1>3 DEF CommandsAreOneHistory, IsHistory, Moved, Stored, VersionsKept
<1>4. ASSUME NEW q \in Requests, NEW service, NEW entry, StoresOne(q, service, entry)
      PROVE  /\ commands' \in [CommandIds -> Command \cup {None}]
             /\ CommandsAreOneHistory'
  <2> DEFINE i == request[q].id
  <2>1. /\ i \in CommandIds /\ commands[i] = None
        /\ commands' \in [CommandIds -> Command \cup {None}]
        /\ commands'[i] # None
        /\ commands'[i].service = service
        /\ commands'[i].previous = session.version
        /\ commands'[i].session = session'.version
        /\ commands'[i].security = security'.version
        /\ commands'[i].flash = flash'.version
        /\ \A j \in CommandIds : j # i => commands'[j] = commands[j]
    BY <1>1, <1>4, StoredRow
  <2> HIDE DEF i
  <2>2. Stored' = Stored \cup {i} /\ i \notin Stored
    BY <2>1 DEF Stored
  <2>3. \A j \in Stored : commands'[j] = commands[j]
    BY <2>1, <2>2 DEF Stored
  <2>4. /\ session.version \in Nat \ {0} /\ security.version \in Nat \ {0}
        /\ flash.version \in Nat \ {0}
    BY DEF TypeOK, SessionTypeOK, Session, Security, Flash
  <2>5. \A row : Moved(row) \subseteq Stored /\ IsFiniteSet(Moved(row))
    <3>1. IsFiniteSet(CommandIds) /\ Stored \subseteq CommandIds
      BY SessionAssumption DEF Stored
    <3>2. \A row : Moved(row) \subseteq Stored
      BY DEF Moved
    <3> QED
      BY ONLY <3>1, <3>2, FS_Subset
  <2>6. ASSUME NEW row, NEW v \in Nat \ {0}, NEW w, IsHistory(row, v),
               \/ w = v /\ Moved(row)' = Moved(row)
               \/ /\ w = v + 1 /\ Moved(row)' = Moved(row) \cup {i} /\ commands'[i][row] = v + 1
        PROVE  /\ {commands'[j][row] : j \in Moved(row)'} = 2..w
               /\ Cardinality(Moved(row)') = w - 1
    <3> DEFINE M == Moved(row)
               f == [j \in Stored |-> commands[j][row]]
               g == [j \in Stored' |-> commands'[j][row]]
               next == {commands'[j][row] : j \in Moved(row)'}
    <3>1. /\ {commands[j][row] : j \in M} = 2..v /\ Cardinality(M) = v - 1
      BY <2>6 DEF IsHistory
    <3>2. M \subseteq Stored /\ IsFiniteSet(M) /\ i \notin M
      BY <2>2, <2>5
    <3>3. \A j \in M : commands'[j][row] = commands[j][row]
      BY <2>3, <3>2
    <3>4. CASE w = v /\ Moved(row)' = M
      BY <3>1, <3>3, <3>4
    <3>5. CASE w = v + 1 /\ Moved(row)' = M \cup {i} /\ commands'[i][row] = v + 1
      <4>1. /\ {f[j] : j \in M} = 2..v
            /\ \A j \in M : g[j] = f[j]
            /\ g[i] = v + 1
        BY <2>2, <3>1, <3>2, <3>3, <3>5
      <4>0. v \in Nat \ {0}
        BY <2>6
      <4>2. next = {g[j] : j \in M \cup {i}}
        BY <2>2, <3>2, <3>5
      <4>4. IsFiniteSet(M) /\ i \notin M /\ Cardinality(M) = v - 1
        BY <3>1, <3>2
      <4> HIDE DEF M, f, g, next
      <4>3. Reported(M \cup {i}, g, v + 1)
        <5>1. IsFiniteSet(M) /\ i \notin M
          BY ONLY <4>4
        <5>2. Reported(M, f, v) /\ g[i] = v + 1
          BY ONLY <4>1, <4>4 DEF Reported
        <5>3. \A j \in M : g[j] = f[j]
          BY ONLY <4>1
        <5> QED
          BY ONLY <4>0, <5>1, <5>2, <5>3, HistoryGrows
      <4>5. next = 2..w /\ Cardinality(Moved(row)') = w - 1
        BY ONLY <3>5, <4>2, <4>3 DEF Reported
      <4> QED
        BY <4>5 DEF next
    <3> QED
      BY <2>6, <3>4, <3>5
  <2>7. /\ session'.version \in {session.version, session.version + 1}
        /\ security'.version = security.version + (IF service \in SecurityServices THEN 1 ELSE 0)
        /\ flash'.version = flash.version + (IF service = "flash" THEN 1 ELSE 0)
    BY <1>4 DEF StoresOne
  <2>8. IsHistory("session", session.version)'
    <3>1. IsHistory("session", session.version)
      BY DEF CommandsAreOneHistory
    <3>2. /\ \A j \in Stored : j \in Moved("session")' <=> j \in Moved("session")
          /\ i \in Moved("session")' <=> session'.version # session.version
      <4>1. \A j \in Stored : j \in Stored' /\ commands'[j] = commands[j]
        BY ONLY <2>2, <2>3
      <4>2. \A j \in Stored : j \in Moved("session")' <=> j \in Moved("session")
        BY ONLY <4>1, MovedSets, MovedSetsNext
      <4>3. i \in Moved("session")' <=> session'.version # session.version
        BY <2>1, <2>2, MovedSetsNext
      <4> QED
        BY <4>2, <4>3
    <3>3. Moved("session") \subseteq Stored /\ Moved("session")' \subseteq Stored \cup {i}
      BY <2>2, MovedSets, MovedSetsNext
    <3>4. commands'[i]["session"] = session'.version
      BY <2>1
    <3>5. CASE session'.version = session.version
      <4>1. Moved("session")' = Moved("session")
        BY ONLY <2>2, <3>2, <3>3, <3>5
      <4> QED
        BY <2>4, <2>6, <3>1, <3>5, <4>1 DEF IsHistory
    <3>6. CASE session'.version = session.version + 1
      <4>0. session'.version # session.version
        BY <2>4, <3>6
      <4>1. Moved("session")' = Moved("session") \cup {i}
        BY ONLY <2>2, <3>2, <3>3, <4>0
      <4> QED
        BY <2>4, <2>6, <3>1, <3>4, <3>6, <4>1 DEF IsHistory
    <3> QED
      BY <2>7, <3>5, <3>6
  <2>9. IsHistory("security", security.version)'
    <3>1. IsHistory("security", security.version)
      BY DEF CommandsAreOneHistory
    <3>2. /\ \A j \in Stored : j \in Moved("security")' <=> j \in Moved("security")
          /\ i \in Moved("security")' <=> service \in SecurityServices
      <4>1. \A j \in Stored : j \in Stored' /\ commands'[j] = commands[j]
        BY ONLY <2>2, <2>3
      <4>2. \A j \in Stored : j \in Moved("security")' <=> j \in Moved("security")
        BY ONLY <4>1, MovedSets, MovedSetsNext
      <4>3. i \in Moved("security")' <=> service \in SecurityServices
        BY <2>1, <2>2, MovedSetsNext
      <4> QED
        BY <4>2, <4>3
    <3>3. Moved("security") \subseteq Stored /\ Moved("security")' \subseteq Stored \cup {i}
      BY <2>2, MovedSets, MovedSetsNext
    <3>4. commands'[i]["security"] = security'.version
      BY <2>1
    <3>5. CASE service \notin SecurityServices
      <4>1. Moved("security")' = Moved("security")
        BY ONLY <2>2, <3>2, <3>3, <3>5
      <4>2. security'.version = security.version
        BY <2>4, <2>7, <3>5
      <4> QED
        BY <2>4, <2>6, <3>1, <4>1, <4>2 DEF IsHistory
    <3>6. CASE service \in SecurityServices
      <4>1. Moved("security")' = Moved("security") \cup {i}
        BY ONLY <2>2, <3>2, <3>3, <3>6
      <4>2. security'.version = security.version + 1
        BY <2>7, <3>6
      <4> QED
        BY <2>4, <2>6, <3>1, <3>4, <4>1, <4>2 DEF IsHistory
    <3> QED
      BY <3>5, <3>6
  <2>10. IsHistory("flash", flash.version)'
    <3>1. IsHistory("flash", flash.version)
      BY DEF CommandsAreOneHistory
    <3>2. /\ \A j \in Stored : j \in Moved("flash")' <=> j \in Moved("flash")
          /\ i \in Moved("flash")' <=> service = "flash"
      <4>1. \A j \in Stored : j \in Stored' /\ commands'[j] = commands[j]
        BY ONLY <2>2, <2>3
      <4>2. \A j \in Stored : j \in Moved("flash")' <=> j \in Moved("flash")
        BY ONLY <4>1, MovedSets, MovedSetsNext
      <4>3. i \in Moved("flash")' <=> service = "flash"
        BY <2>1, <2>2, MovedSetsNext
      <4> QED
        BY <4>2, <4>3
    <3>3. Moved("flash") \subseteq Stored /\ Moved("flash")' \subseteq Stored \cup {i}
      BY <2>2, MovedSets, MovedSetsNext
    <3>4. commands'[i]["flash"] = flash'.version
      BY <2>1
    <3>5. CASE service # "flash"
      <4>1. Moved("flash")' = Moved("flash")
        BY ONLY <2>2, <3>2, <3>3, <3>5
      <4>2. flash'.version = flash.version
        BY <2>4, <2>7, <3>5
      <4> QED
        BY <2>4, <2>6, <3>1, <4>1, <4>2 DEF IsHistory
    <3>6. CASE service = "flash"
      <4>1. Moved("flash")' = Moved("flash") \cup {i}
        BY ONLY <2>2, <3>2, <3>3, <3>6
      <4>2. flash'.version = flash.version + 1
        BY <2>7, <3>6
      <4> QED
        BY <2>4, <2>6, <3>1, <3>4, <4>1, <4>2 DEF IsHistory
    <3> QED
      BY <3>5, <3>6
  <2> QED
    BY <2>1, <2>8, <2>9, <2>10 DEF CommandsAreOneHistory
<1> QED
  BY <1>3, <1>4, CommandsStep

-----------------------------------------------------------------------------
(* What the requests have looked up *)

\* The key that a request is about to insert is one of the table's; the code
\* whose row it has locked, and the codes that it is about to clear, are there.
ItemsAreKnown ==
    \A q \in Requests :
        /\ Holds(q, "create_did") => request[q].item \in Dids
        /\ Holds(q, "create_routine") => request[q].item \in Routines
        /\ Holds(q, "report_new") => request[q].item \in Codes
        /\ Holds(q, "report_again") => request[q].item \in Present(dtcs)
        /\ Holds(q, "clear") => request[q].listed \subseteq Present(dtcs)

\* A clear that has listed the codes keeps the session row, and no other begins.
OneClear == \A p, q \in Requests : Holds(p, "clear") /\ Holds(q, "clear") => p = q

-----------------------------------------------------------------------------
(* Data identifiers and routines *)

\* A write of a data identifier.
LEMMA DidRowBumped ==
    ASSUME NEW A, NEW B, NEW row \in [definition : A, version : B], NEW x \in B
    PROVE  /\ [row EXCEPT !.version = x] \in [definition : A, version : B]
           /\ [row EXCEPT !.version = x].version = x
OBVIOUS

\* The state that a routine is given.
LEMMA RoutineRowSet ==
    ASSUME NEW A, NEW B, NEW row \in [definition : A, state : B], NEW x \in B
    PROVE  /\ [row EXCEPT !.state = x] \in [definition : A, state : B]
           /\ [row EXCEPT !.state = x].state = x
OBVIOUS

\* A routine that has run its time.
LEMMA StateCompleted ==
    ASSUME NEW A, NEW B, NEW C, NEW D,
           NEW row \in [status : A, completes : B, invocations : C, version : D],
           NEW x \in A, NEW y \in D
    PROVE  LET new == [row EXCEPT !.status = x, !.version = y]
           IN  /\ new \in [status : A, completes : B, invocations : C, version : D]
               /\ new.invocations = row.invocations
OBVIOUS

\* A routine that is stopped.
LEMMA StateStopped ==
    ASSUME NEW A, NEW B, NEW C, NEW D,
           NEW row \in [status : A, completes : B, invocations : C, version : D],
           NEW x \in A, NEW y \in D, NEW z \in B
    PROVE  LET new == [row EXCEPT !.status = x, !.completes = z, !.version = y]
           IN  /\ new \in [status : A, completes : B, invocations : C, version : D]
               /\ new.invocations = row.invocations
OBVIOUS

\* _refresh_routine_state ends a routine and counts no invocation.
LEMMA RefreshedState ==
    ASSUME NEW state \in RoutineState, NEW now
    PROVE  /\ Refreshed(state, now) \in RoutineState
           /\ Refreshed(state, now).invocations = state.invocations
<1>1. CASE Refreshed(state, now) = state
  BY <1>1
<1> DEFINE y == state.version + 1
<1>2. CASE Refreshed(state, now) = [state EXCEPT !.status = "completed", !.version = y]
  <2>1. y \in Nat \ {0}
    BY DEF RoutineState
  <2> HIDE DEF y
  <2>2. LET new == [state EXCEPT !.status = "completed", !.version = y]
        IN  new \in RoutineState /\ new.invocations = state.invocations
    BY <2>1, StateCompleted DEF RoutineState
  <2> QED
    BY <1>2, <2>2
<1> QED
  BY <1>1, <1>2 DEF Refreshed

\* A start is one more invocation.
LEMMA StartedState ==
    ASSUME NEW state \in RoutineState, NEW definition \in RoutineDefinition, NEW now \in Nat
    PROVE  /\ Started(state, definition, now) \in RoutineState
           /\ Started(state, definition, now).invocations = state.invocations + 1
<1> DEFINE new == [status |-> "running", completes |-> now + definition.duration,
                   invocations |-> state.invocations + 1, version |-> state.version + 1]
<1>1. /\ state.invocations \in Nat /\ state.version \in Nat
      /\ now + definition.duration \in Nat
  BY DEF RoutineState, RoutineDefinition
<1>2. new \in RoutineState /\ new.invocations = state.invocations + 1
  BY <1>1 DEF RoutineState
<1> HIDE DEF new
<1>3. Started(state, definition, now) = Refreshed(new, now)
  BY DEF Started, new
<1> QED
  BY <1>2, <1>3, RefreshedState

\* A stop ends a routine and counts no invocation.
LEMMA StoppedState ==
    ASSUME NEW state \in RoutineState
    PROVE  LET new == [state EXCEPT !.status = "stopped", !.completes = None, !.version = @ + 1]
           IN  new \in RoutineState /\ new.invocations = state.invocations
<1>1. state.version + 1 \in Nat \ {0}
  BY DEF RoutineState
<1> DEFINE y == state.version + 1
<1> HIDE DEF y
<1>2. y \in Nat \ {0}
  BY <1>1 DEF y
<1>3. LET new == [state EXCEPT !.status = "stopped", !.completes = None, !.version = y]
      IN  new \in RoutineState /\ new.invocations = state.invocations
  BY <1>2, StateStopped DEF RoutineState
<1> QED
  BY <1>3 DEF y

\* What control_routine stores and what it makes of the routine.
LEMMA ControlRoutineStep ==
    ASSUME TypeOK, NEW q \in Requests, ControlRoutine(q)
    PROVE  \E r \in Present(routines), new \in RoutineState,
              service \in {"start_routine", "stop_routine", "routine_results"} :
             /\ routines' = [routines EXCEPT ![r].state = new]
             /\ new.invocations = routines[r].state.invocations
                                  + (IF service = "start_routine" THEN 1 ELSE 0)
             /\ StoresOne(q, service, r)
             /\ UNCHANGED <<dids, dtcs, campaigns, evidence>>
<1>1. /\ request[q] # None
      /\ UNCHANGED <<sessionRows, dids, dtcs, campaigns, evidence>>
  BY DEF ControlRoutine, Ready, Holds
<1> DEFINE now == request[q].ecu.time
           state(r) == Refreshed(routines[r].state, now)
<1>2. PICK r \in Present(routines) :
        \/ /\ routines' = [routines EXCEPT ![r].state =
                             Started(state(r), routines[r].definition, now)]
           /\ RecordFor(q, "start_routine", r)
        \/ /\ routines' = [routines EXCEPT ![r].state =
                             [state(r) EXCEPT !.status = "stopped", !.completes = None,
                                              !.version = @ + 1]]
           /\ RecordFor(q, "stop_routine", r)
        \/ /\ routines' = [routines EXCEPT ![r].state = state(r)]
           /\ RecordFor(q, "routine_results", r)
  BY DEF ControlRoutine
<1>3. /\ r \in Routines /\ routines[r] \in RoutineRow
      /\ routines[r].state \in RoutineState /\ routines[r].definition \in RoutineDefinition
      /\ routines[r].state.invocations \in Nat
      /\ now \in Nat
  <2>1. r \in Routines /\ routines[r] \in RoutineRow
    BY DEF Present, TypeOK
  <2>2. routines[r].state \in RoutineState /\ routines[r].definition \in RoutineDefinition
    BY <2>1, DiagnosticsAssumption DEF RoutineRow
  <2> QED
    BY <1>1, <2>1, <2>2, InFlightRow DEF RoutineState
<1> DEFINE base == state(r)
<1>4. base \in RoutineState /\ base.invocations = routines[r].state.invocations
  BY <1>3, RefreshedState
<1> HIDE DEF now, state, base
<1>5. ASSUME NEW service \in {"start_routine", "stop_routine", "routine_results"},
             RecordFor(q, service, r)
      PROVE  StoresOne(q, service, r)
  <2>1. service \in EntryServices
    BY DEF EntryServices
  <2> QED
    BY <1>1, <1>3, <1>5, <2>1, EntryStored
<1>6. CASE /\ routines' = [routines EXCEPT ![r].state = Started(base, routines[r].definition, now)]
           /\ RecordFor(q, "start_routine", r)
  <2> DEFINE new == Started(base, routines[r].definition, now)
  <2>1. new \in RoutineState /\ new.invocations = routines[r].state.invocations + 1
    BY <1>3, <1>4, StartedState
  <2>2. StoresOne(q, "start_routine", r)
    BY <1>5, <1>6
  <2> HIDE DEF new
  <2> QED
    BY <1>1, <1>6, <2>1, <2>2 DEF new
<1>7. CASE /\ routines' = [routines EXCEPT ![r].state =
                             [base EXCEPT !.status = "stopped", !.completes = None,
                                          !.version = @ + 1]]
           /\ RecordFor(q, "stop_routine", r)
  <2> DEFINE new == [base EXCEPT !.status = "stopped", !.completes = None, !.version = @ + 1]
  <2>1. new \in RoutineState /\ new.invocations = routines[r].state.invocations
    BY <1>4, StoppedState
  <2>2. StoresOne(q, "stop_routine", r) /\ routines' = [routines EXCEPT ![r].state = new]
    BY <1>5, <1>7
  <2> HIDE DEF new
  <2>3. new.invocations = routines[r].state.invocations
                          + (IF "stop_routine" = "start_routine" THEN 1 ELSE 0)
    BY <1>3, <2>1
  <2> QED
    BY <1>1, <2>1, <2>2, <2>3
<1>8. CASE /\ routines' = [routines EXCEPT ![r].state = base]
           /\ RecordFor(q, "routine_results", r)
  <2>1. StoresOne(q, "routine_results", r)
    BY <1>5, <1>8
  <2>2. base.invocations = routines[r].state.invocations
                          + (IF "routine_results" = "start_routine" THEN 1 ELSE 0)
    BY <1>3, <1>4
  <2> QED
    BY <1>1, <1>4, <1>8, <2>1, <2>2
<1> QED
  BY <1>2, <1>6, <1>7, <1>8 DEF base, state

\* The steps that touch the two tables, and what the others store.
LEMMA TableSteps ==
    ASSUME TypeOK, RowsInv, [Next]_vars
    PROVE  \/ /\ UNCHANGED <<dids, routines>>
              /\ \/ commands' = commands
                 \/ \E q \in Requests : \E service, entry :
                      /\ StoresOne(q, service, entry)
                      /\ service \notin {"write_did", "start_routine"}
           \/ \E q \in Requests : CreateDid(q) \/ WriteDid(q) \/ CreateRoutine(q)
                                  \/ ControlRoutine(q)
<1>1. CASE UNCHANGED vars
  BY <1>1 DEF vars, sessionVars, catalogueVars
<1>2. CASE SessionStep /\ UNCHANGED catalogueVars
  <2>1. CASE \E q \in Requests : AdvanceEcu(q) \/ Abandon(q)
    BY <1>2, <2>1 DEF AdvanceEcu, Abandon, catalogueVars
  <2>2. ASSUME NEW q \in Requests, SessionRequest(q) \/ SecurityAccess(q) \/ FlashRequest(q)
        PROVE  \/ commands' = commands
               \/ \E service, entry : /\ StoresOne(q, service, entry)
                                      /\ service \notin {"write_did", "start_routine"}
    <3>1. CASE \E service \in SecurityServices \cup {"flash"} : StoresOne(q, service, None)
      <4>1. PICK service \in SecurityServices \cup {"flash"} : StoresOne(q, service, None)
        BY <3>1
      <4>2. service \notin {"write_did", "start_routine"}
        BY DEF SecurityServices
      <4> QED
        BY <4>1, <4>2
    <3> QED
      BY <2>2, <3>1, SessionStored
  <2> QED
    BY <1>2, <2>1, <2>2 DEF SessionStep, catalogueVars
<1>3. ASSUME NEW q \in Requests,
             \/ Load(q) \/ BeginCreateDid(q) \/ BeginCreateRoutine(q) \/ DtcRequest(q)
             \/ RunCampaign(q) \/ ReadDids(q)
      PROVE  /\ UNCHANGED <<dids, routines>>
             /\ \/ commands' = commands
                \/ \E service, entry : /\ StoresOne(q, service, entry)
                                       /\ service \notin {"write_did", "start_routine"}
  <2>1. CASE Load(q)
    BY <2>1, LoadStep DEF catalogueVars
  <2>2. CASE BeginCreateDid(q) \/ BeginCreateRoutine(q) \/ BeginReportDtc(q) \/ BeginClearDtcs(q)
    BY <2>2 DEF BeginCreateDid, BeginCreateRoutine, BeginReportDtc, BeginClearDtcs, Look,
                catalogueVars
  <2>3. CASE ReportDtc(q) \/ RunCampaign(q)
    BY <2>3 DEF ReportDtc, RunCampaign, Finish
  <2>4. CASE ReadDids(q)
    <3>1. /\ request[q] # None /\ UNCHANGED sessionRows /\ UNCHANGED catalogueVars
          /\ RecordFor(q, "read_dids", None)
      BY <2>4 DEF ReadDids, Ready, Holds, Record
    <3>2. "read_dids" \in EntryServices
      BY DEF EntryServices
    <3>3. StoresOne(q, "read_dids", None)
      BY <3>1, <3>2, EntryStored
    <3> QED
      BY <3>1, <3>3 DEF catalogueVars
  <2>5. CASE ClearDtcs(q)
    <3>1. Clears(q) /\ UNCHANGED <<dids, routines>>
      BY <2>5 DEF ClearDtcs, Holds, Record, Clears
    <3>2. StoresOne(q, "clear_dtcs", None)
      BY <3>1, ClearStored
    <3> QED
      BY <3>1, <3>2
  <2> QED
    BY <1>3, <2>1, <2>2, <2>3, <2>4, <2>5 DEF DtcRequest
<1> QED
  BY <1>1, <1>2, <1>3 DEF Next, DidRequest, RoutineRequest

\* write_did counts the write in the version and stores its command.
LEMMA WriteDidStep ==
    ASSUME TypeOK, NEW q \in Requests, WriteDid(q)
    PROVE  \E d \in Present(dids), new \in DidRow :
             /\ dids' = [dids EXCEPT ![d] = new]
             /\ new.version = dids[d].version + 1
             /\ StoresOne(q, "write_did", d)
             /\ UNCHANGED <<routines, dtcs, campaigns, evidence>>
<1>1. PICK d \in Present(dids) :
        dids' = [dids EXCEPT ![d].version = @ + 1] /\ RecordFor(q, "write_did", d)
  BY DEF WriteDid
<1>2. d \in Dids /\ dids[d] \in DidRow /\ dids[d].version + 1 \in Nat \ {0}
  BY DEF Present, TypeOK, DidRow
<1> DEFINE x == dids[d].version + 1
           new == [dids[d] EXCEPT !.version = x]
<1>3. dids' = [dids EXCEPT ![d] = new]
  BY <1>1
<1>4. request[q] # None /\ UNCHANGED <<sessionRows, routines, dtcs, campaigns, evidence>>
  BY DEF WriteDid, Ready, Holds
<1>5. StoresOne(q, "write_did", d)
  <2>1. "write_did" \in EntryServices
    BY DEF EntryServices
  <2> QED
    BY <1>1, <1>2, <1>4, <2>1, EntryStored
<1> HIDE DEF x
<1>6. new \in DidRow /\ new.version = x
  <2>1. x \in Nat \ {0}
    BY <1>2 DEF x
  <2> QED
    BY <1>2, <2>1, DidRowBumped DEF DidRow
<1> HIDE DEF new
<1> QED
  BY <1>1, <1>3, <1>4, <1>5, <1>6 DEF x

\* create_did inserts a row that is not there, at its first version.
LEMMA CreateDidStep ==
    ASSUME TypeOK, ItemsAreKnown, NEW q \in Requests, CreateDid(q)
    PROVE  \E d \in Dids, new \in DidRow :
             /\ dids[d] = None /\ dids' = [dids EXCEPT ![d] = new]
             /\ d = request[q].item
             /\ new.version = 1 /\ commands' = commands
             /\ UNCHANGED <<routines, dtcs, campaigns, evidence>>
<1>1. /\ request[q].item \in Dids /\ dids[request[q].item] = None
      /\ commands' = commands /\ UNCHANGED <<routines, dtcs, campaigns, evidence>>
  BY DEF CreateDid, Finish, ItemsAreKnown
<1>2. PICK definition \in DidDefinitions :
        dids' = [dids EXCEPT ![request[q].item] = [definition |-> definition, version |-> 1]]
  BY DEF CreateDid
<1> DEFINE new == [definition |-> definition, version |-> 1]
<1>3. new \in DidRow /\ new.version = 1
  BY DEF DidRow
<1>4. dids' = [dids EXCEPT ![request[q].item] = new]
  BY <1>2
<1> HIDE DEF new
<1> QED
  BY <1>1, <1>3, <1>4

\* create_routine inserts a routine that was never invoked.
LEMMA CreateRoutineStep ==
    ASSUME TypeOK, ItemsAreKnown, NEW q \in Requests, CreateRoutine(q)
    PROVE  \E r \in Routines, new \in RoutineRow :
             /\ routines[r] = None /\ routines' = [routines EXCEPT ![r] = new]
             /\ r = request[q].item
             /\ new.state.invocations = 0 /\ commands' = commands
             /\ UNCHANGED <<dids, dtcs, campaigns, evidence>>
<1>1. /\ request[q].item \in Routines /\ routines[request[q].item] = None
      /\ commands' = commands /\ UNCHANGED <<dids, dtcs, campaigns, evidence>>
  BY DEF CreateRoutine, Finish, ItemsAreKnown
<1> DEFINE state == [status |-> "idle", completes |-> None, invocations |-> 0, version |-> 1]
<1>2. PICK definition \in RoutineDefinitions :
        routines' = [routines EXCEPT ![request[q].item] =
                       [definition |-> definition, state |-> state]]
  BY DEF CreateRoutine
<1>3. state \in RoutineState /\ state.invocations = 0
  BY DEF RoutineState
<1> DEFINE new == [definition |-> definition, state |-> state]
<1> HIDE DEF state
<1>4. new \in RoutineRow /\ new.state.invocations = 0
  BY <1>3 DEF RoutineRow
<1>5. routines' = [routines EXCEPT ![request[q].item] = new]
  BY <1>2
<1> HIDE DEF new
<1> QED
  BY <1>1, <1>4, <1>5

\* The two tables keep their types.
LEMMA TablesTyped ==
    ASSUME TypeOK, RowsInv, ItemsAreKnown, [Next]_vars
    PROVE  /\ dids' \in [Dids -> DidRow \cup {None}]
           /\ routines' \in [Routines -> RoutineRow \cup {None}]
<1>1. /\ dids \in [Dids -> DidRow \cup {None}]
      /\ routines \in [Routines -> RoutineRow \cup {None}]
  BY DEF TypeOK
<1>2. CASE UNCHANGED <<dids, routines>>
  BY <1>1, <1>2
<1>3. ASSUME NEW q \in Requests, CreateDid(q) \/ WriteDid(q)
      PROVE  /\ dids' \in [Dids -> DidRow \cup {None}]
             /\ routines' \in [Routines -> RoutineRow \cup {None}]
  <2>1. \E d \in Dids, new \in DidRow : dids' = [dids EXCEPT ![d] = new] /\ routines' = routines
    <3>1. CASE CreateDid(q)
      BY <3>1, CreateDidStep
    <3>2. CASE WriteDid(q)
      <4>1. PICK d \in Present(dids) : \E new \in DidRow :
               dids' = [dids EXCEPT ![d] = new] /\ routines' = routines
        BY <3>2, WriteDidStep
      <4>2. d \in Dids
        BY <1>1 DEF Present
      <4> QED
        BY <4>1, <4>2
    <3> QED
      BY <1>3, <3>1, <3>2
  <2> QED
    BY <1>1, <2>1
<1>4. ASSUME NEW q \in Requests, CreateRoutine(q)
      PROVE  /\ dids' \in [Dids -> DidRow \cup {None}]
             /\ routines' \in [Routines -> RoutineRow \cup {None}]
  <2>1. \E r \in Routines, new \in RoutineRow :
          routines' = [routines EXCEPT ![r] = new] /\ dids' = dids
    BY <1>4, CreateRoutineStep
  <2> QED
    BY <1>1, <2>1
<1>5. ASSUME NEW q \in Requests, ControlRoutine(q)
      PROVE  /\ dids' \in [Dids -> DidRow \cup {None}]
             /\ routines' \in [Routines -> RoutineRow \cup {None}]
  <2>1. PICK r \in Present(routines), state \in RoutineState :
          routines' = [routines EXCEPT ![r].state = state] /\ dids' = dids
    BY <1>5, ControlRoutineStep
  <2>2. r \in Routines /\ routines[r] \in RoutineRow
    BY <1>1 DEF Present
  <2>3. [routines[r] EXCEPT !.state = state] \in RoutineRow
    BY <2>2, RoutineRowSet DEF RoutineRow
  <2> DEFINE new == [routines[r] EXCEPT !.state = state]
  <2>4. routines' = [routines EXCEPT ![r] = new]
    BY <2>1
  <2>5. new \in RoutineRow
    BY <2>3
  <2> HIDE DEF new
  <2> QED
    BY <1>1, <2>1, <2>2, <2>4, <2>5
<1> QED
  BY <1>2, <1>3, <1>4, <1>5, TableSteps

\* The stored commands of an entry name one that is there.
EntriesArePresent ==
    \A i \in Stored :
        /\ commands[i].service = "start_routine" => commands[i].entry \in Present(routines)
        /\ commands[i].service = "write_did" => commands[i].entry \in Present(dids)

RoutinesAreCounted ==
    \A r \in Present(routines) :
        routines[r].state.invocations = Cardinality(StoredFor("start_routine", r))
DidsAreCounted ==
    \A d \in Present(dids) :
        dids[d].version - 1 = Cardinality(StoredFor("write_did", d))

CountsInv == EntriesArePresent /\ RoutinesAreCounted /\ DidsAreCounted

\* The stored commands can be counted.
LEMMA StoredForFinite ==
    ASSUME NEW service, NEW entry
    PROVE  IsFiniteSet(StoredFor(service, entry)) /\ Cardinality(StoredFor(service, entry)) \in Nat
<1>1. StoredFor(service, entry) \subseteq CommandIds /\ IsFiniteSet(CommandIds)
  BY SessionAssumption DEF StoredFor, Stored
<1>2. IsFiniteSet(StoredFor(service, entry))
  BY ONLY <1>1, FS_Subset
<1> QED
  BY <1>2, FS_CardinalityType

\* One more command of a service and an entry is one more of that service and
\* that entry, and of no other.
LEMMA StoredForGrows ==
    ASSUME TypeOK, SessionTypeOK', NEW q \in Requests, NEW service, NEW entry,
           StoresOne(q, service, entry)
    PROVE  \A s, e : Cardinality(StoredFor(s, e)') =
             Cardinality(StoredFor(s, e)) + (IF s = service /\ e = entry THEN 1 ELSE 0)
<1> TAKE s, e
<1> DEFINE i == request[q].id
<1>1. /\ i \in CommandIds /\ commands[i] = None
      /\ commands'[i] # None
      /\ commands'[i].service = service /\ commands'[i].entry = entry
      /\ \A j \in CommandIds : j # i => commands'[j] = commands[j]
  BY StoredRow
<1> HIDE DEF i
<1>2. Stored' = Stored \cup {i} /\ i \notin Stored
  BY <1>1 DEF Stored
<1>3. \A j \in Stored : commands'[j] = commands[j]
  BY <1>1, <1>2 DEF Stored
<1> DEFINE M == StoredFor(s, e)
           N == {j \in Stored' : commands'[j].service = s /\ commands'[j].entry = e}
           more == s = service /\ e = entry
<1>4. StoredFor(s, e)' = N /\ i \notin M
  BY <1>2 DEF StoredFor
<1>5. \A j : j \in M <=> j \in Stored /\ commands[j].service = s /\ commands[j].entry = e
  BY DEF StoredFor
<1>6. IsFiniteSet(M) /\ Cardinality(M) \in Nat
  BY StoredForFinite
<1>7. /\ \A j : j # i => (j \in N <=> j \in M)
      /\ i \in N <=> more
  <2>1. ASSUME NEW j, j # i
        PROVE  j \in N <=> j \in M
    BY <1>2, <1>3, <1>5, <2>1
  <2>2. i \in Stored'
    BY ONLY <1>2
  <2>3. i \in N <=> commands'[i].service = s /\ commands'[i].entry = e
    BY ONLY <2>2
  <2> QED
    BY ONLY <1>1, <2>1, <2>3
<1> HIDE DEF M, N
<1>8. CASE s = service /\ e = entry
  <2>1. N = M \cup {i}
    BY ONLY <1>7, <1>8 DEF more
  <2> QED
    BY <1>4, <1>6, <1>8, <2>1, FS_AddElement DEF M
<1>9. CASE ~(s = service /\ e = entry)
  <2>1. N = M
    BY ONLY <1>4, <1>7, <1>9 DEF more
  <2> QED
    BY <1>4, <1>6, <1>9, <2>1 DEF M
<1> QED
  BY <1>8, <1>9

\* An entry that is stored was there, and is there still.
LEMMA EntriesStep ==
    ASSUME TypeOK, SessionTypeOK', EntriesArePresent,
           Present(dids) \subseteq Present(dids)', Present(routines) \subseteq Present(routines)',
           \/ commands' = commands
           \/ \E q \in Requests : \E service, entry :
                /\ StoresOne(q, service, entry)
                /\ service = "start_routine" => entry \in Present(routines)
                /\ service = "write_did" => entry \in Present(dids)
    PROVE  EntriesArePresent'
<1>1. CASE commands' = commands
  BY <1>1 DEF EntriesArePresent, Stored
<1>2. ASSUME NEW q \in Requests, NEW service, NEW entry, StoresOne(q, service, entry),
             service = "start_routine" => entry \in Present(routines),
             service = "write_did" => entry \in Present(dids)
      PROVE  EntriesArePresent'
  <2> DEFINE i == request[q].id
  <2>1. /\ i \in CommandIds /\ commands[i] = None
        /\ commands'[i].service = service /\ commands'[i].entry = entry
        /\ \A j \in CommandIds : j # i => commands'[j] = commands[j]
    BY <1>2, StoredRow
  <2> HIDE DEF i
  <2> SUFFICES ASSUME NEW j \in Stored'
               PROVE  /\ commands'[j].service = "start_routine" =>
                           commands'[j].entry \in Present(routines)'
                      /\ commands'[j].service = "write_did" =>
                           commands'[j].entry \in Present(dids)'
    BY DEF EntriesArePresent
  <2>2. CASE j = i
    BY <1>2, <2>1, <2>2
  <2>3. CASE j # i
    BY <2>1, <2>3 DEF Stored, EntriesArePresent
  <2> QED
    BY <2>2, <2>3
<1> QED
  BY <1>1, <1>2

\* Every start and every write is counted where its command is stored.
LEMMA CountsStep ==
    ASSUME TypeOK, RowsInv, ItemsAreKnown, CountsInv, [Next]_vars
    PROVE  CountsInv'
<1> USE DEF CountsInv
<1>1. SessionTypeOK'
  BY RowsStep
<1>2. /\ dids \in [Dids -> DidRow \cup {None}]
      /\ routines \in [Routines -> RoutineRow \cup {None}]
  BY DEF TypeOK
<1>3. /\ \A d \in Present(dids) : d \in Dids /\ dids[d] \in DidRow
      /\ \A r \in Present(routines) : r \in Routines /\ routines[r] \in RoutineRow
  BY <1>2 DEF Present
<1>4. /\ \A s, e : IsFiniteSet(StoredFor(s, e)) /\ Cardinality(StoredFor(s, e)) \in Nat
  BY StoredForFinite
<1>5. ASSUME commands' = commands
      PROVE  \A s, e : Cardinality(StoredFor(s, e)') = Cardinality(StoredFor(s, e))
  BY <1>5 DEF StoredFor, Stored
<1>6. CASE UNCHANGED <<dids, routines>> /\ commands' = commands
  <2>1. Present(dids)' = Present(dids) /\ Present(routines)' = Present(routines)
    BY <1>6 DEF Present
  <2>2. EntriesArePresent'
    BY <1>1, <1>6, <2>1, EntriesStep
  <2> QED
    BY <1>5, <1>6, <2>1, <2>2 DEF RoutinesAreCounted, DidsAreCounted
<1>7. ASSUME UNCHANGED <<dids, routines>>, NEW q \in Requests, NEW service, NEW entry,
             StoresOne(q, service, entry), service \notin {"write_did", "start_routine"}
      PROVE  CountsInv'
  <2>1. Present(dids)' = Present(dids) /\ Present(routines)' = Present(routines)
    BY <1>7 DEF Present
  <2>2. EntriesArePresent'
    BY <1>1, <1>7, <2>1, EntriesStep
  <2>3. \A e : /\ Cardinality(StoredFor("start_routine", e)') = Cardinality(StoredFor("start_routine", e))
               /\ Cardinality(StoredFor("write_did", e)') = Cardinality(StoredFor("write_did", e))
    BY <1>1, <1>4, <1>7, StoredForGrows
  <2> QED
    BY <1>7, <2>1, <2>2, <2>3 DEF RoutinesAreCounted, DidsAreCounted
<1>8. ASSUME NEW q \in Requests, CreateDid(q)
      PROVE  CountsInv'
  <2>1. PICK d \in Dids, new \in DidRow :
             /\ dids[d] = None /\ dids' = [dids EXCEPT ![d] = new]
             /\ new.version = 1 /\ commands' = commands
             /\ UNCHANGED routines
    BY <1>8, CreateDidStep
  <2>2. new # None
    BY NoneIsNoRow
  <2>3. /\ Present(dids)' = Present(dids) \cup {d} /\ d \notin Present(dids)
        /\ Present(routines)' = Present(routines)
        /\ \A e \in Present(dids) : dids'[e] = dids[e]
        /\ dids'[d] = new
    BY <1>2, <2>1, <2>2 DEF Present
  <2>4. EntriesArePresent'
    BY <1>1, <2>1, <2>3, EntriesStep
  <2>5. Cardinality(StoredFor("write_did", d)) = 0
    <3>1. StoredFor("write_did", d) = {}
      BY <2>3 DEF StoredFor, EntriesArePresent
    <3> QED
      BY <3>1, FS_EmptySet
  <2>6. DidsAreCounted'
    BY <1>5, <2>1, <2>3, <2>5 DEF DidsAreCounted
  <2>7. RoutinesAreCounted'
    BY <1>5, <2>1, <2>3 DEF RoutinesAreCounted
  <2> QED
    BY <2>4, <2>6, <2>7
<1>9. ASSUME NEW q \in Requests, CreateRoutine(q)
      PROVE  CountsInv'
  <2>1. PICK r \in Routines, new \in RoutineRow :
             /\ routines[r] = None /\ routines' = [routines EXCEPT ![r] = new]
             /\ new.state.invocations = 0 /\ commands' = commands
             /\ UNCHANGED dids
    BY <1>9, CreateRoutineStep
  <2>2. new # None
    BY NoneIsNoRow
  <2>3. /\ Present(routines)' = Present(routines) \cup {r} /\ r \notin Present(routines)
        /\ Present(dids)' = Present(dids)
        /\ \A e \in Present(routines) : routines'[e] = routines[e]
        /\ routines'[r] = new
    BY <1>2, <2>1, <2>2 DEF Present
  <2>4. EntriesArePresent'
    BY <1>1, <2>1, <2>3, EntriesStep
  <2>5. Cardinality(StoredFor("start_routine", r)) = 0
    <3>1. StoredFor("start_routine", r) = {}
      BY <2>3 DEF StoredFor, EntriesArePresent
    <3> QED
      BY <3>1, FS_EmptySet
  <2>6. RoutinesAreCounted'
    BY <1>5, <2>1, <2>3, <2>5 DEF RoutinesAreCounted
  <2>7. DidsAreCounted'
    BY <1>5, <2>1, <2>3 DEF DidsAreCounted
  <2> QED
    BY <2>4, <2>6, <2>7
<1>10. ASSUME NEW q \in Requests, WriteDid(q)
       PROVE  CountsInv'
  <2>1. PICK d \in Present(dids), new \in DidRow :
             /\ dids' = [dids EXCEPT ![d] = new]
             /\ new.version = dids[d].version + 1
             /\ StoresOne(q, "write_did", d)
             /\ UNCHANGED routines
    BY <1>10, WriteDidStep
  <2>2. new # None /\ dids[d].version \in Nat
    BY <1>3, NoneIsNoRow DEF DidRow
  <2>3. /\ Present(dids)' = Present(dids) /\ Present(routines)' = Present(routines)
        /\ \A e \in Present(dids) : e # d => dids'[e] = dids[e]
        /\ dids'[d] = new
    BY <1>2, <1>3, <2>1, <2>2 DEF Present
  <2>4. EntriesArePresent'
    BY <1>1, <2>1, <2>3, EntriesStep
  <2>5. /\ \A e : Cardinality(StoredFor("start_routine", e)') = Cardinality(StoredFor("start_routine", e))
        /\ \A e : Cardinality(StoredFor("write_did", e)') =
                    Cardinality(StoredFor("write_did", e)) + (IF e = d THEN 1 ELSE 0)
    BY <1>1, <1>4, <2>1, StoredForGrows
  <2>6. DidsAreCounted'
    <3> SUFFICES ASSUME NEW e \in Present(dids)
                 PROVE  dids'[e].version - 1 = Cardinality(StoredFor("write_did", e)')
      BY <2>3 DEF DidsAreCounted
    <3>1. dids[e].version - 1 = Cardinality(StoredFor("write_did", e))
      BY DEF DidsAreCounted
    <3>2. CASE e = d
      BY <1>4, <2>1, <2>2, <2>3, <2>5, <3>1, <3>2
    <3>3. CASE e # d
      BY <1>4, <2>3, <2>5, <3>1, <3>3
    <3> QED
      BY <3>2, <3>3
  <2>7. RoutinesAreCounted'
    BY <2>1, <2>3, <2>5 DEF RoutinesAreCounted
  <2> QED
    BY <2>4, <2>6, <2>7
<1>11. ASSUME NEW q \in Requests, ControlRoutine(q)
       PROVE  CountsInv'
  <2>1. PICK r \in Present(routines), new \in RoutineState,
              service \in {"start_routine", "stop_routine", "routine_results"} :
             /\ routines' = [routines EXCEPT ![r].state = new]
             /\ new.invocations = routines[r].state.invocations
                                  + (IF service = "start_routine" THEN 1 ELSE 0)
             /\ StoresOne(q, service, r)
             /\ UNCHANGED dids
    BY <1>11, ControlRoutineStep
  <2> DEFINE row == [routines[r] EXCEPT !.state = new]
  <2>2. routines' = [routines EXCEPT ![r] = row]
    BY <2>1
  <2>3. row \in RoutineRow /\ row.state = new
    BY <1>3, RoutineRowSet DEF RoutineRow
  <2> HIDE DEF row
  <2>4. row # None /\ routines[r].state.invocations \in Nat
    BY <1>3, <2>3, NoneIsNoRow DEF RoutineRow, RoutineState
  <2>5. /\ Present(routines)' = Present(routines) /\ Present(dids)' = Present(dids)
        /\ \A e \in Present(routines) : e # r => routines'[e] = routines[e]
        /\ routines'[r] = row
    BY <1>2, <1>3, <2>1, <2>2, <2>4 DEF Present
  <2>6. EntriesArePresent'
    BY <1>1, <2>1, <2>5, EntriesStep
  <2>7. /\ \A e : Cardinality(StoredFor("write_did", e)') = Cardinality(StoredFor("write_did", e))
        /\ \A e : Cardinality(StoredFor("start_routine", e)') =
                    Cardinality(StoredFor("start_routine", e))
                    + (IF service = "start_routine" /\ e = r THEN 1 ELSE 0)
    <3>1. service # "write_did"
      OBVIOUS
    <3>2. \A s, e : Cardinality(StoredFor(s, e)') =
             Cardinality(StoredFor(s, e)) + (IF s = service /\ e = r THEN 1 ELSE 0)
      BY <1>1, <2>1, StoredForGrows
    <3> QED
      BY ONLY <1>4, <3>1, <3>2
  <2>8. RoutinesAreCounted'
    <3> SUFFICES ASSUME NEW e \in Present(routines)
                 PROVE  routines'[e].state.invocations = Cardinality(StoredFor("start_routine", e)')
      BY <2>5 DEF RoutinesAreCounted
    <3>1. routines[e].state.invocations = Cardinality(StoredFor("start_routine", e))
      BY DEF RoutinesAreCounted
    <3>2. CASE e = r
      BY <1>4, <2>1, <2>3, <2>4, <2>5, <2>7, <3>1, <3>2
    <3>3. CASE e # r
      BY <1>4, <2>5, <2>7, <3>1, <3>3
    <3> QED
      BY <3>2, <3>3
  <2>9. DidsAreCounted'
    BY <2>1, <2>5, <2>7 DEF DidsAreCounted
  <2> QED
    BY <2>6, <2>8, <2>9
<1> QED
  BY <1>6, <1>7, <1>8, <1>9, <1>10, <1>11, TableSteps

-----------------------------------------------------------------------------
(* Trouble codes *)

\* The event of a code that is new.
LEMMA EvidenceReported ==
    ASSUME NEW A, NEW e \in [reported : A, stored : A, cleared : A], NEW x \in A, NEW y \in A
    PROVE  LET new == [e EXCEPT !.reported = x, !.stored = y]
           IN  /\ new \in [reported : A, stored : A, cleared : A]
               /\ new.stored = y /\ new.cleared = e.cleared
OBVIOUS

\* The event of a code that is there.
LEMMA EvidenceRepeated ==
    ASSUME NEW A, NEW e \in [reported : A, stored : A, cleared : A], NEW x \in A
    PROVE  LET new == [e EXCEPT !.reported = x]
           IN  /\ new \in [reported : A, stored : A, cleared : A]
               /\ new.stored = e.stored /\ new.cleared = e.cleared
OBVIOUS

\* The event of a clear.
LEMMA EvidenceCleared ==
    ASSUME NEW A, NEW e \in [reported : A, stored : A, cleared : A], NEW x \in A
    PROVE  LET new == [e EXCEPT !.cleared = x]
           IN  /\ new \in [reported : A, stored : A, cleared : A]
               /\ new.stored = e.stored /\ new.cleared = x
OBVIOUS

Evidence == [reported : Nat, stored : Nat, cleared : Nat]

\* report_dtc inserts the row of a code that has none, or counts the report.
LEMMA ReportDtcStep ==
    ASSUME TypeOK, ItemsAreKnown, NEW q \in Requests, ReportDtc(q)
    PROVE  /\ \E c \in Codes, new \in Dtc :
                /\ dtcs' = [dtcs EXCEPT ![c] = new]
                /\ \/ /\ Holds(q, "report_new") /\ dtcs[c] = None
                      /\ evidence'.stored = evidence.stored + 1
                   \/ dtcs[c] # None /\ evidence'.stored = evidence.stored
           /\ evidence' \in Evidence /\ evidence'.cleared = evidence.cleared
           /\ request' = [request EXCEPT ![q] = None]
           /\ UNCHANGED <<sessionRows, commands, workload, dids, routines, campaigns>>
<1>1. /\ request' = [request EXCEPT ![q] = None]
      /\ UNCHANGED <<sessionRows, commands, workload, dids, routines, campaigns>>
  BY DEF ReportDtc, Finish
<1>2. /\ evidence \in Evidence /\ evidence.reported \in Nat /\ evidence.stored \in Nat
  BY DEF TypeOK, Evidence
<1> DEFINE c == request[q].item
           x == evidence.reported + 1
           y == evidence.stored + 1
<1>3. x \in Nat /\ y \in Nat
  BY <1>2
<1>4. CASE Holds(q, "report_new")
  <2> DEFINE new == [occurrences |-> 1, version |-> 1]
  <2>1. /\ dtcs[c] = None /\ dtcs' = [dtcs EXCEPT ![c] = new]
        /\ evidence' = [evidence EXCEPT !.reported = x, !.stored = y]
    BY <1>4 DEF ReportDtc, Holds
  <2>2. c \in Codes /\ new \in Dtc
    BY <1>4 DEF ItemsAreKnown, Dtc
  <2> HIDE DEF new, x, y
  <2>3. evidence' \in Evidence /\ evidence'.stored = y /\ evidence'.cleared = evidence.cleared
    BY <1>2, <1>3, <2>1, EvidenceReported DEF Evidence
  <2> QED
    BY <1>1, <1>4, <2>1, <2>2, <2>3 DEF y
<1>5. CASE Holds(q, "report_again")
  <2>1. c \in Codes /\ dtcs[c] \in Dtc /\ dtcs[c] # None
    BY <1>5 DEF ItemsAreKnown, Present, TypeOK
  <2> DEFINE new == [occurrences |-> dtcs[c].occurrences + 1, version |-> dtcs[c].version + 1]
  <2>2. /\ dtcs' = [dtcs EXCEPT ![c] = new]
        /\ evidence' = [evidence EXCEPT !.reported = x]
    BY <1>5, <2>1 DEF ReportDtc, Holds, TypeOK
  <2>3. new \in Dtc
    BY <2>1 DEF Dtc
  <2> HIDE DEF new, x, y
  <2>4. evidence' \in Evidence /\ evidence'.stored = evidence.stored
        /\ evidence'.cleared = evidence.cleared
    BY <1>2, <1>3, <2>2, EvidenceRepeated DEF Evidence
  <2> QED
    BY <1>1, <2>1, <2>2, <2>3, <2>4
<1> QED
  BY <1>4, <1>5 DEF ReportDtc

\* clear_dtcs deletes the codes that it listed, and says how many they were.
LEMMA ClearDtcsStep ==
    ASSUME TypeOK, ItemsAreKnown, NEW q \in Requests, ClearDtcs(q)
    PROVE  /\ Holds(q, "clear") /\ request[q].listed \subseteq Present(dtcs)
           /\ dtcs' \in [Codes -> Dtc \cup {None}]
           /\ Present(dtcs)' = Present(dtcs) \ request[q].listed
           /\ \A p \in Requests : Holds(p, "report_again") =>
                request[p].item \notin request[q].listed
           /\ evidence' \in Evidence /\ evidence'.stored = evidence.stored
           /\ evidence'.cleared = evidence.cleared + Cardinality(request[q].listed)
           /\ request' = [request EXCEPT ![q] = None]
           /\ UNCHANGED <<dids, routines, campaigns, workload>>
<1>1. /\ Holds(q, "clear") /\ request[q].listed \subseteq Present(dtcs)
      /\ dtcs' = [c \in Codes |-> IF c \in request[q].listed THEN None ELSE dtcs[c]]
      /\ \A p \in Requests : Holds(p, "report_again") => request[p].item \notin request[q].listed
      /\ request' = [request EXCEPT ![q] = None]
      /\ UNCHANGED <<dids, routines, campaigns, workload>>
  BY DEF ClearDtcs, ItemsAreKnown, RowLocked, Record, RecordFor
<1>2. dtcs' \in [Codes -> Dtc \cup {None}] /\ Present(dtcs)' = Present(dtcs) \ request[q].listed
  BY <1>1 DEF TypeOK, Present
<1>3. Cardinality(request[q].listed) \in Nat
  <2>1. request[q].listed \subseteq Codes /\ IsFiniteSet(Codes)
    BY <1>1, InFlightRow, DiagnosticsAssumption DEF Holds
  <2> QED
    BY ONLY <2>1, FS_Subset, FS_CardinalityType
<1> DEFINE x == evidence.cleared + Cardinality(request[q].listed)
<1>4. evidence \in Evidence /\ x \in Nat
  BY <1>3 DEF TypeOK, Evidence
<1>5. evidence' = [evidence EXCEPT !.cleared = x]
  BY DEF ClearDtcs
<1> HIDE DEF x
<1>6. evidence' \in Evidence /\ evidence'.stored = evidence.stored /\ evidence'.cleared = x
  BY <1>4, <1>5, EvidenceCleared DEF Evidence
<1> QED
  BY <1>1, <1>2, <1>6 DEF x

\* Every other step leaves the codes and what is known of them.
LEMMA DtcSteps ==
    ASSUME TypeOK, RowsInv, [Next]_vars
    PROVE  \/ UNCHANGED <<dtcs, evidence>>
           \/ \E q \in Requests : ReportDtc(q) \/ ClearDtcs(q)
<1>1. CASE UNCHANGED vars
  BY <1>1 DEF vars, catalogueVars
<1>2. CASE SessionStep /\ UNCHANGED catalogueVars
  BY <1>2 DEF catalogueVars
<1>3. ASSUME NEW q \in Requests,
             \/ Load(q) \/ DidRequest(q) \/ RoutineRequest(q) \/ BeginReportDtc(q)
             \/ BeginClearDtcs(q) \/ RunCampaign(q)
      PROVE  UNCHANGED <<dtcs, evidence>>
  <2>1. CASE Load(q)
    BY <2>1, LoadStep DEF catalogueVars
  <2>2. CASE BeginCreateDid(q) \/ BeginCreateRoutine(q) \/ BeginReportDtc(q) \/ BeginClearDtcs(q)
    BY <2>2 DEF BeginCreateDid, BeginCreateRoutine, BeginReportDtc, BeginClearDtcs, Look,
                catalogueVars
  <2>3. CASE CreateDid(q) \/ CreateRoutine(q) \/ RunCampaign(q)
    BY <2>3 DEF CreateDid, CreateRoutine, RunCampaign
  <2>4. CASE ReadDids(q) \/ WriteDid(q)
    BY <2>4 DEF ReadDids, WriteDid, catalogueVars
  <2>5. CASE ControlRoutine(q)
    BY <2>5 DEF ControlRoutine
  <2> QED
    BY <1>3, <2>1, <2>2, <2>3, <2>4, <2>5 DEF DidRequest, RoutineRequest
<1> QED
  BY <1>1, <1>2, <1>3 DEF Next, DtcRequest

\* The codes and the evidence keep their types.
LEMMA CodesTyped ==
    ASSUME TypeOK, RowsInv, ItemsAreKnown, [Next]_vars
    PROVE  dtcs' \in [Codes -> Dtc \cup {None}] /\ evidence' \in Evidence
<1>1. dtcs \in [Codes -> Dtc \cup {None}] /\ evidence \in Evidence
  BY DEF TypeOK, Evidence
<1>2. ASSUME NEW q \in Requests, ReportDtc(q)
      PROVE  dtcs' \in [Codes -> Dtc \cup {None}] /\ evidence' \in Evidence
  BY <1>1, <1>2, ReportDtcStep
<1>3. ASSUME NEW q \in Requests, ClearDtcs(q)
      PROVE  dtcs' \in [Codes -> Dtc \cup {None}] /\ evidence' \in Evidence
  BY <1>3, ClearDtcsStep
<1> QED
  BY <1>1, <1>2, <1>3, DtcSteps

\* The codes that are left are those that the reports stored and no clear
\* has counted.
LEMMA ClearsStep ==
    ASSUME TypeOK, RowsInv, ItemsAreKnown, ClearsAccountForCodes, [Next]_vars
    PROVE  ClearsAccountForCodes'
<1>1. /\ dtcs \in [Codes -> Dtc \cup {None}]
      /\ evidence.stored \in Nat /\ evidence.cleared \in Nat
      /\ evidence.stored = evidence.cleared + Cardinality(Present(dtcs))
  BY DEF TypeOK, ClearsAccountForCodes
<1>2. Present(dtcs) \subseteq Codes /\ IsFiniteSet(Present(dtcs))
      /\ Cardinality(Present(dtcs)) \in Nat
  <2>1. Present(dtcs) \subseteq Codes /\ IsFiniteSet(Codes)
    BY <1>1, DiagnosticsAssumption DEF Present
  <2> QED
    BY ONLY <2>1, FS_Subset, FS_CardinalityType
<1>3. CASE UNCHANGED <<dtcs, evidence>>
  BY <1>3 DEF ClearsAccountForCodes, Present
<1>4. ASSUME NEW q \in Requests, ReportDtc(q)
      PROVE  ClearsAccountForCodes'
  <2>1. PICK c \in Codes, new \in Dtc :
                /\ dtcs' = [dtcs EXCEPT ![c] = new]
                /\ \/ dtcs[c] = None /\ evidence'.stored = evidence.stored + 1
                   \/ dtcs[c] # None /\ evidence'.stored = evidence.stored
    BY <1>4, ReportDtcStep
  <2>2. evidence'.cleared = evidence.cleared
    BY <1>4, ReportDtcStep
  <2>3. new # None
    BY NoneIsNoRow
  <2>4. Present(dtcs)' = Present(dtcs) \cup {c}
    BY <1>1, <2>1, <2>3 DEF Present
  <2>5. CASE dtcs[c] = None /\ evidence'.stored = evidence.stored + 1
    <3>1. c \notin Present(dtcs)
      BY <2>5 DEF Present
    <3>2. Cardinality(Present(dtcs)') = Cardinality(Present(dtcs)) + 1
      BY ONLY <1>2, <2>4, <3>1, FS_AddElement
    <3> QED
      BY <1>1, <1>2, <2>2, <2>5, <3>2 DEF ClearsAccountForCodes
  <2>6. CASE dtcs[c] # None /\ evidence'.stored = evidence.stored
    <3>1. c \in Present(dtcs)
      BY <1>1, <2>6 DEF Present
    <3>2. Present(dtcs)' = Present(dtcs)
      BY ONLY <2>4, <3>1
    <3> QED
      BY <1>1, <2>2, <2>6, <3>2 DEF ClearsAccountForCodes
  <2> QED
    BY <2>1, <2>5, <2>6
<1>5. ASSUME NEW q \in Requests, ClearDtcs(q)
      PROVE  ClearsAccountForCodes'
  <2> DEFINE L == request[q].listed
             P == Present(dtcs)
  <2>1. /\ L \subseteq P /\ Present(dtcs)' = P \ L
        /\ evidence'.stored = evidence.stored
        /\ evidence'.cleared = evidence.cleared + Cardinality(L)
    BY <1>5, ClearDtcsStep
  <2>2. IsFiniteSet(P) /\ Cardinality(P) \in Nat
    BY <1>2
  <2> HIDE DEF L, P
  <2>3. IsFiniteSet(L) /\ Cardinality(L) \in Nat
    BY ONLY <2>1, <2>2, FS_Subset, FS_CardinalityType
  <2>4. P \cap L = L
    BY ONLY <2>1
  <2>5. Cardinality(P \ L) = Cardinality(P) - Cardinality(L)
    BY ONLY <2>2, <2>3, <2>4, FS_Difference
  <2> QED
    BY <1>1, <2>1, <2>2, <2>3, <2>5 DEF ClearsAccountForCodes, P
<1> QED
  BY <1>3, <1>4, <1>5, DtcSteps

-----------------------------------------------------------------------------
(* Types, and what the requests have looked up *)

\* A step that looks nothing up leaves a request as it is, or ends it.
RequestsEnd == \A p \in Requests : request'[p] # None => request'[p] = request[p]

\* The steps that look something up are the five that read before they act.
LEMMA RequestMoves ==
    ASSUME TypeOK, RowsInv, [Next]_vars
    PROVE  \/ RequestsEnd
           \/ \E q \in Requests : \/ Load(q) \/ BeginCreateDid(q) \/ BeginCreateRoutine(q)
                                  \/ BeginReportDtc(q) \/ BeginClearDtcs(q)
<1>1. ASSUME NEW q \in Requests, request' = [request EXCEPT ![q] = None]
      PROVE  RequestsEnd
  BY <1>1, EndStep DEF RequestsEnd
<1>2. ASSUME NEW q \in Requests, NEW service, NEW entry, RecordFor(q, service, entry)
      PROVE  RequestsEnd
  BY <1>1, <1>2 DEF RecordFor
<1>3. CASE UNCHANGED vars
  BY <1>3 DEF vars, sessionVars, RequestsEnd
<1>4. CASE SessionStep
  <2>1. CASE \E q \in Requests : AdvanceEcu(q)
    BY <1>1, <2>1 DEF AdvanceEcu
  <2>2. ASSUME NEW q \in Requests,
               Abandon(q) \/ SessionRequest(q) \/ SecurityAccess(q) \/ FlashRequest(q)
        PROVE  RequestsEnd
    <3>1. CASE Abandon(q)
      BY <1>1, <3>1 DEF Abandon
    <3>2. CASE SessionRequest(q)
      BY <1>2, <3>2, SessionRequestStep
    <3>3. CASE SecurityAccess(q)
      BY <1>1, <1>2, <3>3, SecurityAccessStep DEF RowsInv
    <3>4. CASE FlashRequest(q)
      BY <1>2, <3>4, FlashRequestStep DEF RowsInv
    <3> QED
      BY <2>2, <3>1, <3>2, <3>3, <3>4
  <2> QED
    BY <1>4, <2>1, <2>2 DEF SessionStep
<1>5. ASSUME NEW q \in Requests,
             \/ CreateDid(q) \/ ReadDids(q) \/ WriteDid(q) \/ CreateRoutine(q)
             \/ ControlRoutine(q) \/ ReportDtc(q) \/ ClearDtcs(q) \/ RunCampaign(q)
      PROVE  RequestsEnd
  <2>1. CASE CreateDid(q) \/ CreateRoutine(q) \/ ReportDtc(q) \/ RunCampaign(q)
    BY <1>1, <2>1 DEF CreateDid, CreateRoutine, ReportDtc, RunCampaign, Finish
  <2>2. CASE ReadDids(q) \/ ClearDtcs(q)
    BY <1>2, <2>2 DEF ReadDids, ClearDtcs, Record
  <2>3. CASE WriteDid(q)
    BY <1>2, <2>3 DEF WriteDid
  <2>4. CASE ControlRoutine(q)
    <3>1. PICK r \in Present(routines), new \in RoutineState,
               service \in {"start_routine", "stop_routine", "routine_results"} :
               StoresOne(q, service, r)
      BY <2>4, ControlRoutineStep
    <3> QED
      BY <1>2, <3>1 DEF StoresOne
  <2> QED
    BY <1>5, <2>1, <2>2, <2>3, <2>4
<1> QED
  BY <1>3, <1>4, <1>5 DEF Next, DidRequest, RoutineRequest, DtcRequest

\* A campaign names codes and data identifiers of the ECU.
LEMMA CampaignsTyped ==
    ASSUME TypeOK, RowsInv, [Next]_vars
    PROVE  campaigns' \subseteq Campaign
<1>1. campaigns \subseteq Campaign
  BY DEF TypeOK
<1>2. CASE campaigns' = campaigns
  BY <1>1, <1>2
<1>3. ASSUME NEW q \in Requests, RunCampaign(q)
      PROVE  campaigns' \subseteq Campaign
  <2>1. /\ request[q] # None
        /\ campaigns' = campaigns \cup
             {[id |-> request[q].id, codes |-> Listed, dids |-> Present(dids)]}
    BY <1>3 DEF RunCampaign, Holds
  <2>2. request[q].id \in CommandIds /\ Listed \subseteq Codes /\ Present(dids) \subseteq Dids
    BY <2>1, InFlightRow DEF Listed, Present, TypeOK
  <2> QED
    BY <1>1, <2>1, <2>2 DEF Campaign
<1>4. CASE UNCHANGED vars \/ (SessionStep /\ UNCHANGED catalogueVars)
  BY <1>2, <1>4 DEF vars, catalogueVars
<1>5. ASSUME NEW q \in Requests,
             Load(q) \/ DidRequest(q) \/ RoutineRequest(q) \/ DtcRequest(q)
      PROVE  campaigns' = campaigns
  <2>1. CASE Load(q)
    BY <2>1, LoadStep DEF catalogueVars
  <2>2. CASE BeginCreateDid(q) \/ BeginCreateRoutine(q) \/ BeginReportDtc(q) \/ BeginClearDtcs(q)
    BY <2>2 DEF BeginCreateDid, BeginCreateRoutine, BeginReportDtc, BeginClearDtcs, Look,
                catalogueVars
  <2>3. CASE CreateDid(q) \/ CreateRoutine(q) \/ ReportDtc(q) \/ ClearDtcs(q)
    BY <2>3 DEF CreateDid, CreateRoutine, ReportDtc, ClearDtcs
  <2>4. CASE ReadDids(q) \/ WriteDid(q) \/ ControlRoutine(q)
    BY <2>4 DEF ReadDids, WriteDid, ControlRoutine, catalogueVars
  <2> QED
    BY <1>5, <2>1, <2>2, <2>3, <2>4 DEF DidRequest, RoutineRequest, DtcRequest
<1> QED
  BY <1>2, <1>3, <1>4, <1>5 DEF Next

\* Types are kept by every step.
LEMMA TypeStep ==
    ASSUME TypeOK, RowsInv, CommandsAreOneHistory, ItemsAreKnown, [Next]_vars
    PROVE  TypeOK'
<1>1. SessionTypeOK'
  BY RowsStep
<1>2. workload' \in Workloads /\ request' \in [Requests -> RequestRow \cup {None}]
  BY RequestsStep DEF RequestsKept, RowsInv, TypeOK
<1>3. commands' \in [CommandIds -> Command \cup {None}]
  BY CommandsHistoryStep
<1>4. /\ dids' \in [Dids -> DidRow \cup {None}]
      /\ routines' \in [Routines -> RoutineRow \cup {None}]
  BY TablesTyped
<1>5. dtcs' \in [Codes -> Dtc \cup {None}] /\ evidence' \in Evidence
  BY CodesTyped
<1>6. campaigns' \subseteq Campaign
  BY CampaignsTyped
<1> QED
  BY <1>1, <1>2, <1>3, <1>4, <1>5, <1>6 DEF TypeOK, Evidence

\* What a lookup makes of the request, and that it changes nothing else.
LEMMA BeginSteps ==
    ASSUME TypeOK, NEW q \in Requests
    PROVE  /\ BeginCreateDid(q) => \E d \in Dids :
                /\ request[q] # None /\ Cardinality(Present(dids)) < MaxDids
                /\ Look(q, "create_did", d, {})
           /\ BeginCreateRoutine(q) => \E r \in Routines :
                /\ request[q] # None /\ Cardinality(Present(routines)) < MaxRoutines
                /\ Look(q, "create_routine", r, {})
           /\ BeginReportDtc(q) => \E c \in Codes :
                /\ request[q] # None
                /\ \/ /\ Cardinality(Present(dtcs)) < MaxDtcs
                      /\ Look(q, "report_new", c, {})
                   \/ c \in Present(dtcs) /\ Look(q, "report_again", c, {})
           /\ BeginClearDtcs(q) =>
                /\ request[q] # None /\ SessionFree
                /\ Look(q, "clear", None, Listed) /\ Listed \subseteq Present(dtcs)
                /\ Listed \in SUBSET Codes
<1>1. BeginCreateDid(q) => \E d \in Dids :
                /\ request[q] # None /\ Cardinality(Present(dids)) < MaxDids
                /\ Look(q, "create_did", d, {})
  BY DEF BeginCreateDid, Holds
<1>2. BeginCreateRoutine(q) => \E r \in Routines :
                /\ request[q] # None /\ Cardinality(Present(routines)) < MaxRoutines
                /\ Look(q, "create_routine", r, {})
  BY DEF BeginCreateRoutine, Holds
<1>3. BeginReportDtc(q) => \E c \in Codes :
                /\ request[q] # None
                /\ \/ /\ Cardinality(Present(dtcs)) < MaxDtcs
                      /\ Look(q, "report_new", c, {})
                   \/ c \in Present(dtcs) /\ Look(q, "report_again", c, {})
  BY DEF BeginReportDtc, Holds, Present, TypeOK
<1>4. BeginClearDtcs(q) =>
                /\ request[q] # None /\ SessionFree
                /\ Look(q, "clear", None, Listed) /\ Listed \subseteq Present(dtcs)
                /\ Listed \in SUBSET Codes
  BY DEF BeginClearDtcs, Ready, Holds, Listed, Present, TypeOK
<1> QED
  BY <1>1, <1>2, <1>3, <1>4

\* What a request has looked up stays true until it acts: nothing deletes a
\* data identifier or a routine, the row of a reported code is locked, and a
\* clear keeps every other clear away.
LEMMA CodesStay ==
    ASSUME TypeOK, RowsInv, ItemsAreKnown, OneClear, [Next]_vars,
           NEW p \in Requests, request[p] # None, request'[p] = request[p]
    PROVE  /\ Holds(p, "report_again") => request[p].item \in Present(dtcs)'
           /\ Holds(p, "clear") => request[p].listed \subseteq Present(dtcs)'
<1>1. /\ Holds(p, "report_again") => request[p].item \in Present(dtcs)
      /\ Holds(p, "clear") => request[p].listed \subseteq Present(dtcs)
  BY DEF ItemsAreKnown
<1>2. CASE UNCHANGED <<dtcs, evidence>>
  BY <1>1, <1>2 DEF Present
<1>3. ASSUME NEW q \in Requests, ReportDtc(q)
      PROVE  Present(dtcs) \subseteq Present(dtcs)'
  <2>1. PICK c \in Codes, new \in Dtc : dtcs' = [dtcs EXCEPT ![c] = new]
    BY <1>3, ReportDtcStep
  <2>2. new # None
    BY NoneIsNoRow
  <2> QED
    BY <2>1, <2>2 DEF Present, TypeOK
<1>4. ASSUME NEW q \in Requests, ClearDtcs(q)
      PROVE  /\ Holds(p, "report_again") => request[p].item \in Present(dtcs)'
             /\ Holds(p, "clear") => request[p].listed \subseteq Present(dtcs)'
  <2>1. /\ Holds(q, "clear")
        /\ Present(dtcs)' = Present(dtcs) \ request[q].listed
        /\ Holds(p, "report_again") => request[p].item \notin request[q].listed
        /\ request' = [request EXCEPT ![q] = None]
    BY <1>4, ClearDtcsStep
  <2>2. p # q
    BY <2>1 DEF TypeOK
  <2>3. ~Holds(p, "clear")
    BY <2>1, <2>2 DEF OneClear
  <2> QED
    BY <1>1, <2>1, <2>3
<1> QED
  BY <1>1, <1>2, <1>3, <1>4, DtcSteps

\* What the requests have looked up is known until they act.
LEMMA ItemsStep ==
    ASSUME TypeOK, RowsInv, ItemsAreKnown, OneClear, [Next]_vars
    PROVE  ItemsAreKnown' /\ OneClear'
<1> DEFINE Known(p) ==
         /\ Holds(p, "create_did")' => request'[p].item \in Dids
         /\ Holds(p, "create_routine")' => request'[p].item \in Routines
         /\ Holds(p, "report_new")' => request'[p].item \in Codes
         /\ Holds(p, "report_again")' => request'[p].item \in Present(dtcs)'
         /\ Holds(p, "clear")' => request'[p].listed \subseteq Present(dtcs)'
<1>1. ASSUME NEW p \in Requests, request'[p] = request[p]
      PROVE  Known(p)
  <2>1. CASE request[p] = None
    BY <1>1, <2>1 DEF Holds
  <2>2. CASE request[p] # None
    BY <1>1, <2>2, CodesStay DEF ItemsAreKnown, Holds
  <2> QED
    BY <2>1, <2>2
<1>2. ASSUME NEW p \in Requests, request'[p] = None
      PROVE  Known(p)
  BY <1>2 DEF Holds
<1> HIDE DEF Known
<1>3. ASSUME RequestsEnd
      PROVE  (\A p \in Requests : Known(p)) /\ OneClear'
  <2>1. \A p \in Requests : Known(p)
    BY <1>1, <1>2, <1>3 DEF RequestsEnd
  <2>2. OneClear'
    BY <1>3 DEF RequestsEnd, OneClear, Holds
  <2> QED
    BY <2>1, <2>2
<1>4. ASSUME NEW q \in Requests, Load(q)
      PROVE  (\A p \in Requests : Known(p)) /\ OneClear'
  <2>1. /\ \A p \in Requests : p # q => request'[p] = request[p]
        /\ request'[q].stage = "loaded"
    BY <1>4, LoadStep
  <2>2. Known(q)
    BY <2>1 DEF Known, Holds
  <2>3. \A p \in Requests : Known(p)
    BY <1>1, <2>1, <2>2
  <2>4. OneClear'
    BY <2>1 DEF OneClear, Holds
  <2> QED
    BY <2>3, <2>4
<1>5. ASSUME NEW q \in Requests, request[q] # None,
             NEW stage \in {"create_did", "create_routine", "report_new", "report_again"},
             NEW item \in Dids \cup Routines \cup Codes,
             Look(q, stage, item, {}),
             /\ stage = "create_did" => item \in Dids
             /\ stage = "create_routine" => item \in Routines
             /\ stage = "report_new" => item \in Codes
             /\ stage = "report_again" => item \in Present(dtcs)
      PROVE  (\A p \in Requests : Known(p)) /\ OneClear'
  <2>1. /\ \A p \in Requests : p # q => request'[p] = request[p]
        /\ request'[q].stage = stage /\ request'[q].item = item
    BY <1>5, LookStep
  <2>2. dtcs' = dtcs
    BY <1>5 DEF Look, catalogueVars
  <2>3. Known(q)
    BY <1>5, <2>1, <2>2 DEF Known, Holds, Present
  <2>4. \A p \in Requests : Known(p)
    BY <1>1, <2>1, <2>3
  <2>5. OneClear'
    BY <2>1 DEF OneClear, Holds
  <2> QED
    BY <2>4, <2>5
<1>6. ASSUME NEW q \in Requests, BeginCreateDid(q) \/ BeginCreateRoutine(q) \/ BeginReportDtc(q)
      PROVE  (\A p \in Requests : Known(p)) /\ OneClear'
  <2>1. CASE BeginCreateDid(q)
    <3>1. PICK d \in Dids : request[q] # None /\ Look(q, "create_did", d, {})
      BY <2>1, BeginSteps
    <3> QED
      BY <1>5, <3>1
  <2>2. CASE BeginCreateRoutine(q)
    <3>1. PICK r \in Routines : request[q] # None /\ Look(q, "create_routine", r, {})
      BY <2>2, BeginSteps
    <3> QED
      BY <1>5, <3>1
  <2>3. CASE BeginReportDtc(q)
    <3>1. PICK c \in Codes :
            /\ request[q] # None
            /\ \/ Look(q, "report_new", c, {})
               \/ c \in Present(dtcs) /\ Look(q, "report_again", c, {})
      BY <2>3, BeginSteps
    <3> QED
      BY <1>5, <3>1
  <2> QED
    BY <1>6, <2>1, <2>2, <2>3
<1>7. ASSUME NEW q \in Requests, BeginClearDtcs(q)
      PROVE  (\A p \in Requests : Known(p)) /\ OneClear'
  <2>1. /\ request[q] # None /\ SessionFree
        /\ Look(q, "clear", None, Listed) /\ Listed \subseteq Present(dtcs)
        /\ Listed \in SUBSET Codes
    BY <1>7, BeginSteps
  <2>2. /\ \A p \in Requests : p # q => request'[p] = request[p]
        /\ request'[q].stage = "clear" /\ request'[q].listed = Listed
    BY <2>1, LookStep
  <2>3. dtcs' = dtcs
    BY <2>1 DEF Look, catalogueVars
  <2>4. Known(q)
    BY <2>1, <2>2, <2>3 DEF Known, Holds, Present
  <2>5. \A p \in Requests : Known(p)
    BY <1>1, <2>2, <2>4
  <2>6. OneClear'
    BY <2>1, <2>2 DEF OneClear, Holds, SessionFree, InFlight
  <2> QED
    BY <2>5, <2>6
<1>8. (\A p \in Requests : Known(p)) /\ OneClear'
  BY <1>3, <1>4, <1>6, <1>7, RequestMoves
<1> QED
  BY <1>8 DEF Known, ItemsAreKnown

-----------------------------------------------------------------------------
(* The limits of the catalogues *)

\* The requests that have found room for a new entry and not inserted it yet.
Waiting(stage) == {q \in Requests : Holds(q, stage)}

\* An entry that is there and a request that is about to add one both take up
\* room; the last request found the table one below its limit at the latest.
RoomFor(table, limit, stage) ==
    Cardinality(Present(table)) + Cardinality(Waiting(stage)) <= limit + Cardinality(Requests) - 1
LimitsInv ==
    /\ RoomFor(dids, MaxDids, "create_did")
    /\ RoomFor(routines, MaxRoutines, "create_routine")
    /\ RoomFor(dtcs, MaxDtcs, "report_new")

\* Nothing is added and nobody new waits.
LEMMA RoomKept ==
    ASSUME NEW P, NEW W, IsFiniteSet(P), IsFiniteSet(W), NEW P2 \in SUBSET P, NEW W2 \in SUBSET W,
           NEW limit \in Int, Cardinality(P) + Cardinality(W) <= limit
    PROVE  Cardinality(P2) + Cardinality(W2) <= limit
<1>1. /\ Cardinality(P) \in Nat /\ Cardinality(W) \in Nat
      /\ Cardinality(P2) \in Nat /\ Cardinality(W2) \in Nat
      /\ Cardinality(P2) <= Cardinality(P) /\ Cardinality(W2) <= Cardinality(W)
  BY FS_Subset, FS_CardinalityType
<1> QED
  BY <1>1

\* One that waited adds its entry.
LEMMA RoomTaken ==
    ASSUME NEW P, NEW W, IsFiniteSet(P), IsFiniteSet(W), NEW k, NEW q \in W,
           NEW P2 \in SUBSET (P \cup {k}), NEW W2 \in SUBSET (W \ {q}),
           NEW limit \in Int, Cardinality(P) + Cardinality(W) <= limit
    PROVE  Cardinality(P2) + Cardinality(W2) <= limit
<1>1. /\ IsFiniteSet(P \cup {k}) /\ Cardinality(P \cup {k}) <= Cardinality(P) + 1
      /\ Cardinality(P) \in Nat
  <2>1. IsFiniteSet(P) /\ Cardinality(P) \in Nat
    BY FS_CardinalityType
  <2>2. /\ IsFiniteSet(P \cup {k})
        /\ Cardinality(P \cup {k}) = IF k \in P THEN Cardinality(P) ELSE Cardinality(P) + 1
    BY ONLY <2>1, FS_AddElement
  <2> QED
    BY ONLY <2>1, <2>2
<1>2. /\ IsFiniteSet(W \ {q}) /\ Cardinality(W \ {q}) = Cardinality(W) - 1
      /\ Cardinality(W) \in Nat
  BY FS_RemoveElement, FS_CardinalityType
<1>3. /\ Cardinality(P2) <= Cardinality(P \cup {k}) /\ Cardinality(P2) \in Nat
      /\ Cardinality(P \cup {k}) \in Nat
  BY <1>1, FS_Subset, FS_CardinalityType
<1>4. /\ Cardinality(W2) <= Cardinality(W \ {q}) /\ Cardinality(W2) \in Nat
  BY <1>2, FS_Subset, FS_CardinalityType
<1> QED
  BY <1>1, <1>2, <1>3, <1>4

\* One has just found the table below its limit.
LEMMA RoomFound ==
    ASSUME NEW P, IsFiniteSet(P), NEW limit \in Nat, Cardinality(P) < limit,
           NEW W \in SUBSET Requests
    PROVE  Cardinality(P) + Cardinality(W) <= limit + Cardinality(Requests) - 1
<1>1. IsFiniteSet(Requests)
  BY SessionAssumption
<1>2. /\ Cardinality(W) <= Cardinality(Requests) /\ Cardinality(W) \in Nat
      /\ Cardinality(Requests) \in Nat /\ Cardinality(P) \in Nat
  BY <1>1, FS_Subset, FS_CardinalityType
<1> QED
  BY <1>2

\* Nothing is added, or the table is below its limit, or one that waited adds.
LEMMA RoomStep ==
    ASSUME NEW P, NEW P2, NEW W \in SUBSET Requests, NEW W2 \in SUBSET Requests,
           IsFiniteSet(P), NEW limit \in Nat,
           Cardinality(P) + Cardinality(W) <= limit + Cardinality(Requests) - 1,
           \/ P2 \subseteq P /\ W2 \subseteq W
           \/ P2 \subseteq P /\ Cardinality(P2) < limit
           \/ \E q \in W : \E k : P2 \subseteq P \cup {k} /\ W2 \subseteq W \ {q}
    PROVE  Cardinality(P2) + Cardinality(W2) <= limit + Cardinality(Requests) - 1
<1>1. IsFiniteSet(Requests) /\ IsFiniteSet(W)
  BY SessionAssumption, FS_Subset
<1> DEFINE room == limit + Cardinality(Requests) - 1
<1>2. room \in Int
  BY <1>1, FS_CardinalityType
<1>3. CASE P2 \subseteq P /\ W2 \subseteq W
  <2> HIDE DEF room
  <2>1. Cardinality(P) + Cardinality(W) <= room
    BY DEF room
  <2>2. Cardinality(P2) + Cardinality(W2) <= room
    BY ONLY <1>1, <1>2, <1>3, <2>1, RoomKept, IsFiniteSet(P)
  <2> QED
    BY <2>2 DEF room
<1>4. CASE P2 \subseteq P /\ Cardinality(P2) < limit
  <2>1. IsFiniteSet(P2)
    BY <1>4, FS_Subset
  <2> QED
    BY <1>4, <2>1, RoomFound
<1>5. CASE \E q \in W : \E k : P2 \subseteq P \cup {k} /\ W2 \subseteq W \ {q}
  <2>1. PICK q \in W : \E k : P2 \subseteq P \cup {k} /\ W2 \subseteq W \ {q}
    BY <1>5
  <2>2. PICK k : P2 \subseteq P \cup {k} /\ W2 \subseteq W \ {q}
    BY <2>1
  <2> HIDE DEF room
  <2>3. Cardinality(P) + Cardinality(W) <= room
    BY DEF room
  <2>4. Cardinality(P2) + Cardinality(W2) <= room
    BY ONLY <1>1, <1>2, <2>2, <2>3, RoomTaken, IsFiniteSet(P), q \in W
  <2> QED
    BY <2>4 DEF room
<1> QED
  BY <1>3, <1>4, <1>5

\* Who begins to wait has found room, and no table changes meanwhile.
LEMMA WaitingMoves ==
    ASSUME TypeOK, RowsInv, [Next]_vars,
           NEW stage \in {"create_did", "create_routine", "report_new"}
    PROVE  \/ Waiting(stage)' \subseteq Waiting(stage)
           \/ /\ UNCHANGED <<dids, routines, dtcs>>
              /\ \/ stage = "create_did" /\ Cardinality(Present(dids)) < MaxDids
                 \/ stage = "create_routine" /\ Cardinality(Present(routines)) < MaxRoutines
                 \/ stage = "report_new" /\ Cardinality(Present(dtcs)) < MaxDtcs
<1>1. CASE RequestsEnd
  BY <1>1 DEF RequestsEnd, Waiting, Holds
<1>2. ASSUME NEW q \in Requests, Load(q)
      PROVE  Waiting(stage)' \subseteq Waiting(stage)
  BY <1>2, LoadStep DEF Waiting, Holds
<1>3. ASSUME NEW q \in Requests, request[q] # None,
             NEW new \in {"create_did", "create_routine", "report_new", "report_again", "clear"},
             NEW item \in Dids \cup Routines \cup Codes \cup {None}, NEW listed \in SUBSET Codes,
             Look(q, new, item, listed), new # stage
      PROVE  Waiting(stage)' \subseteq Waiting(stage)
  <2>1. /\ \A p \in Requests : p # q => request'[p] = request[p]
        /\ request'[q].stage = new
    BY <1>3, LookStep
  <2> QED
    BY <1>3, <2>1 DEF Waiting, Holds
<1>4. ASSUME NEW q, NEW new, NEW item, NEW listed, Look(q, new, item, listed)
      PROVE  UNCHANGED <<dids, routines, dtcs>>
  BY <1>4 DEF Look, catalogueVars
<1>5. ASSUME NEW q \in Requests, BeginCreateDid(q)
      PROVE  \/ Waiting(stage)' \subseteq Waiting(stage)
             \/ /\ UNCHANGED <<dids, routines, dtcs>> /\ stage = "create_did"
                /\ Cardinality(Present(dids)) < MaxDids
  <2>1. PICK d \in Dids : /\ request[q] # None /\ Cardinality(Present(dids)) < MaxDids
                          /\ Look(q, "create_did", d, {})
    BY <1>5, BeginSteps
  <2> QED
    BY <1>3, <1>4, <2>1
<1>6. ASSUME NEW q \in Requests, BeginCreateRoutine(q)
      PROVE  \/ Waiting(stage)' \subseteq Waiting(stage)
             \/ /\ UNCHANGED <<dids, routines, dtcs>> /\ stage = "create_routine"
                /\ Cardinality(Present(routines)) < MaxRoutines
  <2>1. PICK r \in Routines : /\ request[q] # None
                              /\ Cardinality(Present(routines)) < MaxRoutines
                              /\ Look(q, "create_routine", r, {})
    BY <1>6, BeginSteps
  <2> QED
    BY <1>3, <1>4, <2>1
<1>7. ASSUME NEW q \in Requests, BeginReportDtc(q)
      PROVE  \/ Waiting(stage)' \subseteq Waiting(stage)
             \/ /\ UNCHANGED <<dids, routines, dtcs>> /\ stage = "report_new"
                /\ Cardinality(Present(dtcs)) < MaxDtcs
  <2>1. PICK c \in Codes : /\ request[q] # None
                           /\ \/ /\ Cardinality(Present(dtcs)) < MaxDtcs
                                 /\ Look(q, "report_new", c, {})
                              \/ Look(q, "report_again", c, {})
    BY <1>7, BeginSteps
  <2> QED
    BY <1>3, <1>4, <2>1
<1>8. ASSUME NEW q \in Requests, BeginClearDtcs(q)
      PROVE  Waiting(stage)' \subseteq Waiting(stage)
  <2>1. request[q] # None /\ Look(q, "clear", None, Listed) /\ Listed \in SUBSET Codes
    BY <1>8, BeginSteps
  <2> QED
    BY <1>3, <2>1
<1> QED
  BY <1>1, <1>2, <1>5, <1>6, <1>7, <1>8, RequestMoves

\* A request that inserts its entry was waiting and ends.
LEMMA WaitingEnds ==
    ASSUME TypeOK, NEW stage, NEW q \in Requests, Holds(q, stage),
           request' = [request EXCEPT ![q] = None]
    PROVE  q \in Waiting(stage) /\ Waiting(stage)' \subseteq Waiting(stage) \ {q}
BY DEF TypeOK, Waiting, Holds

\* The tables are finite.
LEMMA TablesFinite ==
    ASSUME TypeOK
    PROVE  /\ IsFiniteSet(Present(dids)) /\ IsFiniteSet(Present(routines))
           /\ IsFiniteSet(Present(dtcs))
           /\ MaxDids \in Nat /\ MaxRoutines \in Nat /\ MaxDtcs \in Nat
<1>1. /\ Present(dids) \subseteq Dids /\ Present(routines) \subseteq Routines
      /\ Present(dtcs) \subseteq Codes
  BY DEF TypeOK, Present
<1> QED
  BY <1>1, DiagnosticsAssumption, FS_Subset

\* Data identifiers are added by create_did only.
LEMMA DidsHaveRoom ==
    ASSUME TypeOK, RowsInv, ItemsAreKnown, RoomFor(dids, MaxDids, "create_did"), [Next]_vars
    PROVE  RoomFor(dids, MaxDids, "create_did")'
<1> DEFINE P == Present(dids)
           P2 == Present(dids)'
           W == Waiting("create_did")
           W2 == Waiting("create_did")'
<1>1. \/ W2 \subseteq W
      \/ P2 = P /\ Cardinality(P) < MaxDids
  BY WaitingMoves DEF Present
<1>2. \/ P2 \subseteq P
      \/ \E q \in W : \E k : P2 \subseteq P \cup {k} /\ W2 \subseteq W \ {q}
  <2>1. CASE dids' = dids
    BY <2>1 DEF Present
  <2>2. ASSUME NEW q \in Requests, CreateDid(q)
        PROVE  \E p \in W : \E k : P2 \subseteq P \cup {k} /\ W2 \subseteq W \ {p}
    <3>1. PICK d \in Dids, new \in DidRow : dids' = [dids EXCEPT ![d] = new]
      BY <2>2, CreateDidStep
    <3>2. P2 \subseteq P \cup {d}
      BY <3>1 DEF Present, TypeOK
    <3>3. Holds(q, "create_did") /\ request' = [request EXCEPT ![q] = None]
      BY <2>2 DEF CreateDid, Finish
    <3>4. q \in W /\ W2 \subseteq W \ {q}
      BY <3>3, WaitingEnds
    <3> QED
      BY <3>2, <3>4
  <2>3. ASSUME NEW q \in Requests, WriteDid(q)
        PROVE  P2 \subseteq P
    <3>1. PICK d \in P, new \in DidRow : dids' = [dids EXCEPT ![d] = new]
      BY <2>3, WriteDidStep
    <3> QED
      BY <3>1 DEF Present, TypeOK
  <2>4. ASSUME NEW q \in Requests, CreateRoutine(q) \/ ControlRoutine(q)
        PROVE  dids' = dids
    BY <2>4 DEF CreateRoutine, ControlRoutine
  <2> QED
    BY <2>1, <2>2, <2>3, <2>4, TableSteps
<1>3. /\ IsFiniteSet(P) /\ MaxDids \in Nat
      /\ W \in SUBSET Requests /\ W2 \in SUBSET Requests
      /\ Cardinality(P) + Cardinality(W) <= MaxDids + Cardinality(Requests) - 1
  BY TablesFinite DEF Waiting, RoomFor
<1>4. SUFFICES Cardinality(P2) + Cardinality(W2) <= MaxDids + Cardinality(Requests) - 1
  BY DEF RoomFor
<1> HIDE DEF P, P2, W, W2
<1>5. \/ P2 \subseteq P /\ W2 \subseteq W
      \/ P2 \subseteq P /\ Cardinality(P2) < MaxDids
      \/ \E q \in W : \E k : P2 \subseteq P \cup {k} /\ W2 \subseteq W \ {q}
  BY <1>1, <1>2
<1> QED
  BY ONLY <1>3, <1>5, RoomStep

\* Routines are added by create_routine only.
LEMMA RoutinesHaveRoom ==
    ASSUME TypeOK, RowsInv, ItemsAreKnown,
           RoomFor(routines, MaxRoutines, "create_routine"), [Next]_vars
    PROVE  RoomFor(routines, MaxRoutines, "create_routine")'
<1> DEFINE P == Present(routines)
           P2 == Present(routines)'
           W == Waiting("create_routine")
           W2 == Waiting("create_routine")'
<1>1. \/ W2 \subseteq W
      \/ P2 = P /\ Cardinality(P) < MaxRoutines
  BY WaitingMoves DEF Present
<1>2. \/ P2 \subseteq P
      \/ \E q \in W : \E k : P2 \subseteq P \cup {k} /\ W2 \subseteq W \ {q}
  <2>1. CASE routines' = routines
    BY <2>1 DEF Present
  <2>2. ASSUME NEW q \in Requests, CreateRoutine(q)
        PROVE  \E p \in W : \E k : P2 \subseteq P \cup {k} /\ W2 \subseteq W \ {p}
    <3>1. PICK r \in Routines, new \in RoutineRow : routines' = [routines EXCEPT ![r] = new]
      BY <2>2, CreateRoutineStep
    <3>2. P2 \subseteq P \cup {r}
      BY <3>1 DEF Present, TypeOK
    <3>3. Holds(q, "create_routine") /\ request' = [request EXCEPT ![q] = None]
      BY <2>2 DEF CreateRoutine, Finish
    <3>4. q \in W /\ W2 \subseteq W \ {q}
      BY <3>3, WaitingEnds
    <3> QED
      BY <3>2, <3>4
  <2>3. ASSUME NEW q \in Requests, ControlRoutine(q)
        PROVE  P2 \subseteq P
    <3>1. PICK r \in P, new \in RoutineState : routines' = [routines EXCEPT ![r].state = new]
      BY <2>3, ControlRoutineStep
    <3> QED
      BY <3>1 DEF Present, TypeOK
  <2>4. ASSUME NEW q \in Requests, CreateDid(q) \/ WriteDid(q)
        PROVE  routines' = routines
    BY <2>4 DEF CreateDid, WriteDid
  <2> QED
    BY <2>1, <2>2, <2>3, <2>4, TableSteps
<1>3. /\ IsFiniteSet(P) /\ MaxRoutines \in Nat
      /\ W \in SUBSET Requests /\ W2 \in SUBSET Requests
      /\ Cardinality(P) + Cardinality(W) <= MaxRoutines + Cardinality(Requests) - 1
  BY TablesFinite DEF Waiting, RoomFor
<1>4. SUFFICES Cardinality(P2) + Cardinality(W2) <= MaxRoutines + Cardinality(Requests) - 1
  BY DEF RoomFor
<1> HIDE DEF P, P2, W, W2
<1>5. \/ P2 \subseteq P /\ W2 \subseteq W
      \/ P2 \subseteq P /\ Cardinality(P2) < MaxRoutines
      \/ \E q \in W : \E k : P2 \subseteq P \cup {k} /\ W2 \subseteq W \ {q}
  BY <1>1, <1>2
<1> QED
  BY ONLY <1>3, <1>5, RoomStep

\* A clear makes room, a report of a code that is there takes none.
LEMMA CodesHaveRoom ==
    ASSUME TypeOK, RowsInv, ItemsAreKnown, RoomFor(dtcs, MaxDtcs, "report_new"), [Next]_vars
    PROVE  RoomFor(dtcs, MaxDtcs, "report_new")'
<1> DEFINE P == Present(dtcs)
           P2 == Present(dtcs)'
           W == Waiting("report_new")
           W2 == Waiting("report_new")'
<1>1. \/ W2 \subseteq W
      \/ P2 = P /\ Cardinality(P) < MaxDtcs
  BY WaitingMoves DEF Present
<1>2. \/ P2 \subseteq P
      \/ \E q \in W : \E k : P2 \subseteq P \cup {k} /\ W2 \subseteq W \ {q}
  <2>1. CASE UNCHANGED <<dtcs, evidence>>
    BY <2>1 DEF Present
  <2>2. ASSUME NEW q \in Requests, ReportDtc(q)
        PROVE  \/ P2 \subseteq P
               \/ \E p \in W : \E k : P2 \subseteq P \cup {k} /\ W2 \subseteq W \ {p}
    <3>1. PICK c \in Codes, new \in Dtc :
            /\ dtcs' = [dtcs EXCEPT ![c] = new]
            /\ Holds(q, "report_new") \/ dtcs[c] # None
      BY <2>2, ReportDtcStep
    <3>2. request' = [request EXCEPT ![q] = None]
      BY <2>2, ReportDtcStep
    <3>3. P2 \subseteq P \cup {c}
      BY <3>1 DEF Present, TypeOK
    <3>4. CASE dtcs[c] # None
      <4>1. c \in P
        BY <3>4 DEF Present, TypeOK
      <4> QED
        BY <3>3, <4>1
    <3>5. CASE Holds(q, "report_new")
      <4>1. q \in W /\ W2 \subseteq W \ {q}
        BY <3>2, <3>5, WaitingEnds
      <4> QED
        BY <3>3, <4>1
    <3> QED
      BY <3>1, <3>4, <3>5
  <2>3. ASSUME NEW q \in Requests, ClearDtcs(q)
        PROVE  P2 \subseteq P
    BY <2>3, ClearDtcsStep
  <2> QED
    BY <2>1, <2>2, <2>3, DtcSteps
<1>3. /\ IsFiniteSet(P) /\ MaxDtcs \in Nat
      /\ W \in SUBSET Requests /\ W2 \in SUBSET Requests
      /\ Cardinality(P) + Cardinality(W) <= MaxDtcs + Cardinality(Requests) - 1
  BY TablesFinite DEF Waiting, RoomFor
<1>4. SUFFICES Cardinality(P2) + Cardinality(W2) <= MaxDtcs + Cardinality(Requests) - 1
  BY DEF RoomFor
<1> HIDE DEF P, P2, W, W2
<1>5. \/ P2 \subseteq P /\ W2 \subseteq W
      \/ P2 \subseteq P /\ Cardinality(P2) < MaxDtcs
      \/ \E q \in W : \E k : P2 \subseteq P \cup {k} /\ W2 \subseteq W \ {q}
  BY <1>1, <1>2
<1> QED
  BY ONLY <1>3, <1>5, RoomStep

-----------------------------------------------------------------------------
(* The initial states *)

\* The rows that get_or_create_... inserts.
LEMMA InitRows ==
    ASSUME Init
    PROVE  SessionTypeOK /\ RowsInv
<1>1. /\ ecu = [version |-> 1, time |-> 0, firmware |-> "factory"]
      /\ flash = NoTransfer
      /\ \A q \in Requests : request[q] = None
      /\ \/ session = [type |-> "programming", level |-> 1, version |-> 3]
         \/ session = [type |-> "default", level |-> 0, version |-> 1]
      /\ \/ security = [seed |-> None, failed |-> 0, locked |-> None, version |-> 4]
         \/ security = [seed |-> None, failed |-> 0, locked |-> None, version |-> 1]
  BY DEF Init, SessionInit
<1>2. Counters \in Nat \ {0} /\ MaxAttempts \in Nat \ {0}
  BY SessionAssumption
<1>3. 1 % Counters \in 0..Counters - 1
  BY <1>2
<1>4. << >> \in Seq(Nat) /\ Len(<< >>) = 0 /\ DOMAIN << >> = {}
  OBVIOUS
<1>5. SessionTypeOK
  <2>1. ecu \in Ecu
    BY <1>1 DEF Ecu
  <2>2. session \in Session
    BY <1>1 DEF Session, SessionTypes
  <2>3. security \in Security
    BY <1>1, <1>2 DEF Security
  <2>4. flash \in Flash
    <3> DEFINE c == 1 % Counters
    <3>1. flash = [status |-> "idle", size |-> 0, firmware |-> "", target |-> 1,
                   counter |-> c, image |-> <<>>, version |-> 1]
      BY <1>1 DEF NoTransfer
    <3>2. c \in 0..Counters - 1
      BY <1>3
    <3> HIDE DEF c
    <3>3. << >> \in Seq(Nat)
      BY <1>4
    <3>4. /\ "idle" \in {"idle", "downloading", "completed"}
          /\ "" \in Firmwares \cup {""}
          /\ 0 \in Nat /\ 1 \in Nat /\ 1 \in Nat \ {0}
      OBVIOUS
    <3> QED
      BY ONLY <3>1, <3>2, <3>3, <3>4 DEF Flash
  <2> QED
    BY <2>1, <2>2, <2>3, <2>4 DEF SessionTypeOK
<1>6. SecurityIsOfThisSession
  <2>1. /\ security.seed = None /\ security.failed = 0 /\ security.locked = None
        /\ session.level = 1 => session.type = "programming"
    BY <1>1
  <2>2. ~(security.failed > 0) /\ security.failed # MaxAttempts
    BY ONLY <1>2, <2>1
  <2>3. "programming" # "default"
    OBVIOUS
  <2>4. session.level = 1 \/ security.seed # None \/ security.failed > 0
          => session.type # "default"
    BY ONLY <2>1, <2>2, <2>3, Zenon
  <2>5. /\ security.locked # None <=> security.failed = MaxAttempts
        /\ security.locked # None => security.seed = None
    BY ONLY <2>1, <2>2, Zenon
  <2> QED
    BY ONLY <2>4, <2>5 DEF SecurityIsOfThisSession
<1>7. ImageIsInOrder
  <2>1. flash.image = << >> /\ flash.size = 0
    BY <1>1 DEF NoTransfer
  <2> QED
    BY ONLY <1>4, <2>1 DEF ImageIsInOrder, DigestMatches
<1>8. BlocksAreNext
  BY <1>1 DEF BlocksAreNext, InFlight
<1>9. DownloadIsNamed
  BY <1>1 DEF DownloadIsNamed, NoTransfer
<1> QED
  BY <1>5, <1>6, <1>7, <1>8, <1>9 DEF RowsInv

\* The first three commands of a session that starts unlocked.
LEMMA InitCommands ==
    ASSUME Init
    PROVE  \/ /\ \A i \in CommandIds : commands[i] = None
              /\ session.version = 1 /\ security.version = 1
           \/ /\ {1, 2, 3} \subseteq CommandIds
              /\ \A i \in CommandIds \ {1, 2, 3} : commands[i] = None
              /\ commands[1] = CommandRow("session_control", None, 1, 2, 2, 1, 1)
              /\ commands[2] = CommandRow("security_access", None, 2, 2, 3, 1, 1)
              /\ commands[3] = CommandRow("security_access", None, 2, 3, 4, 1, 1)
              /\ session.version = 3 /\ security.version = 4
<1>1. workload \in Workloads
  BY DEF Init, SessionInit
<1>2. commands = [i \in CommandIds |->
         IF ~workload.unlocked \/ i > 3 THEN None
         ELSE CASE i = 1 -> CommandRow("session_control", None, 1, 2, 2, 1, 1)
                [] i = 2 -> CommandRow("security_access", None, 2, 2, 3, 1, 1)
                [] i = 3 -> CommandRow("security_access", None, 2, 3, 4, 1, 1)]
  BY DEF Init, SessionInit
<1>3. CASE ~workload.unlocked
  BY <1>2, <1>3 DEF Init, SessionInit
<1>4. CASE workload.unlocked
  <2>1. workload.commands \in CommandIds /\ workload.commands >= 3
        /\ CommandIds = 1..Cardinality(CommandIds) /\ Cardinality(CommandIds) \in Nat
    BY <1>1, <1>4, SessionAssumption, FS_CardinalityType
  <2>2. {1, 2, 3} \subseteq CommandIds /\ \A i \in CommandIds \ {1, 2, 3} : i > 3
    BY ONLY <2>1
  <2>3. session.version = 3 /\ security.version = 4
    BY <1>4 DEF Init, SessionInit
  <2>4. \A i \in CommandIds \ {1, 2, 3} : commands[i] = None
    BY <1>2, <2>2
  <2>5. 1 \in CommandIds /\ 2 \in CommandIds /\ 3 \in CommandIds
    BY <2>2
  <2>6. commands[1] = CommandRow("session_control", None, 1, 2, 2, 1, 1)
    BY <1>2, <1>4, <2>5
  <2>7. commands[2] = CommandRow("security_access", None, 2, 2, 3, 1, 1)
    BY <1>2, <1>4, <2>5
  <2>8. commands[3] = CommandRow("security_access", None, 2, 3, 4, 1, 1)
    BY <1>2, <1>4, <2>5
  <2> QED
    BY <2>2, <2>3, <2>4, <2>6, <2>7, <2>8
<1> QED
  BY <1>3, <1>4

\* The commands that come first are a history of their rows.
LEMMA InitHistory ==
    ASSUME Init
    PROVE  /\ commands \in [CommandIds -> Command \cup {None}]
           /\ CommandsAreOneHistory
           /\ \A i \in Stored : commands[i].service \in {"session_control", "security_access"}
<1>1. flash.version = 1
  BY DEF Init, SessionInit, NoTransfer
<1>2. ASSUME NEW S, \A i \in CommandIds : commands[i] \in S
      PROVE  commands \in [CommandIds -> S]
  <2> DEFINE row(i) ==
         IF ~workload.unlocked \/ i > 3 THEN None
         ELSE CASE i = 1 -> CommandRow("session_control", None, 1, 2, 2, 1, 1)
                [] i = 2 -> CommandRow("security_access", None, 2, 2, 3, 1, 1)
                [] i = 3 -> CommandRow("security_access", None, 2, 3, 4, 1, 1)
  <2>1. commands = [i \in CommandIds |-> row(i)]
    BY DEF Init, SessionInit
  <2> HIDE DEF row
  <2> QED
    BY ONLY <1>2, <2>1
<1>3. CASE /\ \A i \in CommandIds : commands[i] = None
           /\ session.version = 1 /\ security.version = 1
  <2>1. Stored = {}
    BY <1>3 DEF Stored
  <2>2. Moved("session") = {} /\ Moved("security") = {} /\ Moved("flash") = {}
    BY <2>1, MovedSets
  <2>3. 2..1 = {} /\ Cardinality({}) = 0
    BY FS_EmptySet
  <2>4. CommandsAreOneHistory
    BY <1>1, <1>3, <2>2, <2>3 DEF CommandsAreOneHistory, IsHistory
  <2> QED
    BY <1>2, <1>3, <2>1, <2>4
<1>4. CASE /\ {1, 2, 3} \subseteq CommandIds
           /\ \A i \in CommandIds \ {1, 2, 3} : commands[i] = None
           /\ commands[1] = CommandRow("session_control", None, 1, 2, 2, 1, 1)
           /\ commands[2] = CommandRow("security_access", None, 2, 2, 3, 1, 1)
           /\ commands[3] = CommandRow("security_access", None, 2, 3, 4, 1, 1)
           /\ session.version = 3 /\ security.version = 4
  <2>1. \A i \in {1, 2, 3} : commands[i] \in Command
    BY <1>4 DEF Command, CommandRow
  <2>2. commands \in [CommandIds -> Command \cup {None}]
    BY <1>2, <1>4, <2>1
  <2>3. Stored = {1, 2, 3}
    BY <1>4, <2>1, NoneIsNoRow DEF Stored
  <2>4. /\ commands[1].previous = 1 /\ commands[1].session = 2 /\ commands[1].security = 2
        /\ commands[2].previous = 2 /\ commands[2].session = 2 /\ commands[2].security = 3
        /\ commands[3].previous = 2 /\ commands[3].session = 3 /\ commands[3].security = 4
        /\ commands[1].service = "session_control" /\ commands[2].service = "security_access"
        /\ commands[3].service = "security_access"
    BY <1>4 DEF CommandRow
  <2>5. Moved("session") = {1, 3}
    BY <2>3, <2>4, MovedSets
  <2>6. Moved("security") = {1, 2, 3}
    BY <2>3, <2>4, MovedSets DEF SecurityServices
  <2>7. Moved("flash") = {}
    BY <2>3, <2>4, MovedSets
  <2>8. Cardinality({}) = 0 /\ Cardinality({1, 3}) = 2 /\ Cardinality({1, 2, 3}) = 3
    <3>1. IsFiniteSet({}) /\ Cardinality({}) = 0
      BY FS_EmptySet
    <3>2. IsFiniteSet({1}) /\ Cardinality({1}) = 1
      BY FS_Singleton
    <3>3. {1} \cup {3} = {1, 3} /\ {1, 3} \cup {2} = {1, 2, 3} /\ 3 \notin {1} /\ 2 \notin {1, 3}
      OBVIOUS
    <3>4. IsFiniteSet({1, 3}) /\ Cardinality({1, 3}) = 2
      BY <3>2, <3>3, FS_AddElement
    <3>5. Cardinality({1, 2, 3}) = 3
      BY <3>3, <3>4, FS_AddElement
    <3> QED
      BY <3>1, <3>4, <3>5
  <2>9. 2..1 = {} /\ 2..3 = {2, 3} /\ 2..4 = {2, 3, 4}
    OBVIOUS
  <2>10. IsHistory("session", 3)
    <3>1. {commands[i]["session"] : i \in {1, 3}} = {2, 3}
      BY <2>4
    <3> QED
      BY <2>5, <2>8, <2>9, <3>1 DEF IsHistory
  <2>11. IsHistory("security", 4)
    <3>1. {commands[i]["security"] : i \in {1, 2, 3}} = {2, 3, 4}
      BY <2>4
    <3> QED
      BY <2>6, <2>8, <2>9, <3>1 DEF IsHistory
  <2>12. IsHistory("flash", 1)
    BY <2>7, <2>8, <2>9 DEF IsHistory
  <2>13. CommandsAreOneHistory
    BY <1>1, <1>4, <2>10, <2>11, <2>12 DEF CommandsAreOneHistory
  <2>14. \A i \in Stored : commands[i].service \in {"session_control", "security_access"}
    BY <2>3, <2>4
  <2> QED
    BY <2>2, <2>13, <2>14
<1> QED
  BY <1>3, <1>4, InitCommands

-----------------------------------------------------------------------------
(* The inductive invariant *)

DiagnosticsInv ==
    /\ TypeOK /\ RowsInv
    /\ CommandsAreOneHistory /\ CountsInv
    /\ ItemsAreKnown /\ OneClear
    /\ LimitsInv /\ ClearsAccountForCodes

\* The invariant holds of a new ECU, and of one with its session unlocked.
LEMMA InitInv == Init => DiagnosticsInv
<1> SUFFICES ASSUME Init PROVE DiagnosticsInv
  OBVIOUS
<1>1. /\ workload \in Workloads /\ request = [q \in Requests |-> None]
      /\ dids = [d \in Dids |-> None] /\ routines = [r \in Routines |-> None]
      /\ dtcs = [c \in Codes |-> None] /\ campaigns = {}
      /\ evidence = [reported |-> 0, stored |-> 0, cleared |-> 0]
  BY DEF Init, SessionInit
<1>2. SessionTypeOK /\ RowsInv
  BY InitRows
<1>3. /\ commands \in [CommandIds -> Command \cup {None}] /\ CommandsAreOneHistory
      /\ \A i \in Stored : commands[i].service \in {"session_control", "security_access"}
  BY InitHistory
<1>4. TypeOK
  BY <1>1, <1>2, <1>3 DEF TypeOK
<1>5. Present(dids) = {} /\ Present(routines) = {} /\ Present(dtcs) = {}
  BY <1>1 DEF Present
<1>6. CountsInv
  BY <1>3, <1>5 DEF CountsInv, EntriesArePresent, RoutinesAreCounted, DidsAreCounted
<1>7. ItemsAreKnown /\ OneClear
  BY <1>1 DEF ItemsAreKnown, OneClear, Holds
<1>8. Cardinality({}) = 0
  BY FS_EmptySet
<1>9. LimitsInv
  <2>1. Cardinality(Requests) \in Nat \ {0}
    BY SessionAssumption, FS_CardinalityType, FS_EmptySet
  <2>2. \A stage : Waiting(stage) = {}
    BY <1>1 DEF Waiting, Holds
  <2>3. MaxDids \in Nat /\ MaxRoutines \in Nat /\ MaxDtcs \in Nat
    BY DiagnosticsAssumption
  <2>4. \A limit \in Nat : 0 + 0 <= limit + Cardinality(Requests) - 1
    BY ONLY <2>1
  <2> QED
    BY ONLY <1>5, <1>8, <2>2, <2>3, <2>4 DEF LimitsInv, RoomFor
<1>10. ClearsAccountForCodes
  BY <1>1, <1>5, <1>8 DEF ClearsAccountForCodes
<1> QED
  BY <1>2, <1>3, <1>4, <1>6, <1>7, <1>9, <1>10 DEF DiagnosticsInv

\* Every step keeps the invariant.
LEMMA NextInv == DiagnosticsInv /\ [Next]_vars => DiagnosticsInv'
<1> SUFFICES ASSUME DiagnosticsInv, [Next]_vars PROVE DiagnosticsInv'
  OBVIOUS
<1>1. TypeOK /\ RowsInv /\ CommandsAreOneHistory /\ CountsInv /\ ItemsAreKnown /\ OneClear
      /\ LimitsInv /\ ClearsAccountForCodes
  BY DEF DiagnosticsInv
<1>2. TypeOK'
  BY <1>1, TypeStep
<1>3. RowsInv'
  BY <1>1, RowsStep
<1>4. CommandsAreOneHistory'
  BY <1>1, CommandsHistoryStep
<1>5. CountsInv'
  BY <1>1, CountsStep
<1>6. ItemsAreKnown' /\ OneClear'
  BY <1>1, ItemsStep
<1>7. LimitsInv'
  BY <1>1, DidsHaveRoom, RoutinesHaveRoom, CodesHaveRoom DEF LimitsInv
<1>8. ClearsAccountForCodes'
  BY <1>1, ClearsStep
<1> QED
  BY <1>2, <1>3, <1>4, <1>5, <1>6, <1>7, <1>8 DEF DiagnosticsInv

\* The types, the session and its rows, the histories, the counts, what the
\* requests have looked up and the room in the tables, for all requests.
THEOREM Invariance == Spec => []DiagnosticsInv
BY InitInv, NextInv, PTL DEF Spec

\* A session, what it has granted, the image of its download and the stored
\* commands are one history, whatever requests overlap: each command that took
\* effect did so once (the services of diagnostics/service.py).
THEOREM OneHistory == Spec => []SessionsAreSound
<1>1. DiagnosticsInv => SessionsAreSound
  BY DEF DiagnosticsInv, RowsInv, CountsInv, RoutinesAreCounted, DidsAreCounted,
         SessionsAreSound, EffectsAreStoredCommands
<1> QED
  BY <1>1, Invariance, PTL

\* The limits are overrun by at most one row for every other request, and the
\* clears account for every code that a report has stored.
THEOREM LimitsAndClears == Spec => []CataloguesAreAccounted
<1>1. ASSUME TypeOK, NEW P, IsFiniteSet(P), NEW limit \in Nat, NEW stage,
             Cardinality(P) + Cardinality(Waiting(stage)) <= limit + Cardinality(Requests) - 1
      PROVE  Cardinality(P) <= limit + Cardinality(Requests) - 1
  <2>1. IsFiniteSet(Requests) /\ Waiting(stage) \subseteq Requests
    BY SessionAssumption DEF Waiting
  <2>2. Cardinality(Waiting(stage)) \in Nat /\ Cardinality(Requests) \in Nat
        /\ Cardinality(P) \in Nat
    BY <1>1, <2>1, FS_Subset, FS_CardinalityType
  <2> QED
    BY <1>1, <2>2
<1>2. DiagnosticsInv => CataloguesAreAccounted
  <2> SUFFICES ASSUME DiagnosticsInv PROVE CataloguesAreAccounted
    OBVIOUS
  <2>1. TypeOK /\ LimitsInv /\ ClearsAccountForCodes
    BY DEF DiagnosticsInv
  <2>2. CataloguesOverrunByRequests
    BY <1>1, <2>1, TablesFinite DEF LimitsInv, RoomFor, CataloguesOverrunByRequests
  <2> QED
    BY <2>1, <2>2 DEF CataloguesAreAccounted
<1> QED
  BY <1>2, Invariance, PTL

\* A block of a download keeps its status and the ECU version it is meant for.
LEMMA BlockKeepsTarget ==
    ASSUME TypeOK, NEW q \in Requests, TransferBlock(q)
    PROVE  /\ flash'.status = flash.status /\ flash'.target = flash.target
           /\ ecu' = ecu
<1> DEFINE image == Append(flash.image, request[q].block)
           counter == (flash.counter + 1) % Counters
           new == Extended(flash, image, counter)
<1>1. flash \in Flash /\ request[q] # None
  BY DEF TypeOK, SessionTypeOK, TransferBlock, Ready, Holds
<1>2. flash.image \in Seq(Nat) /\ flash.counter \in 0..Counters - 1 /\ request[q].block \in Nat
  BY <1>1, InFlightRow DEF Flash
<1>3. image \in Seq(Nat)
  BY <1>2, AppendProperties
<1>4. counter \in 0..Counters - 1
  BY <1>2, SessionAssumption
<1>5. flash' = Bump(new) /\ ecu' = ecu
  BY DEF TransferBlock, Extended
<1> HIDE DEF image, counter
<1>6. new \in Flash /\ new.status = flash.status /\ new.target = flash.target
  BY ONLY <1>1, <1>3, <1>4, ExtendedFlash, Zenon
<1> HIDE DEF new
<1> QED
  BY <1>5, <1>6, BumpedFlash

\* request_transfer_exit wants the ECU version of request_download, and
\* request_download wants no active download: one that another command has
\* overtaken stays active for ever.
THEOREM OvertakenStay == Spec => OvertakenDownloadsStay
<1>1. ASSUME DiagnosticsInv, [Next]_vars, Overtaken
      PROVE  Overtaken'
  <2>1. TypeOK /\ RowsInv /\ RequestsKept
    BY <1>1, RequestsStep DEF DiagnosticsInv, RowsInv
  <2>2. /\ ecu \in Ecu /\ ecu.version \in Nat /\ flash.target \in Nat
        /\ flash.status = "downloading" /\ ecu.version > flash.target
    BY <1>1, <2>1 DEF Overtaken, TypeOK, SessionTypeOK, Ecu, Flash
  <2>3. \A p \in Requests : request[p] # None =>
          request[p].ecu.version > flash.target /\ request[p].ecu.version \in Nat
    BY <1>1, <2>1, InFlightRow DEF Overtaken, InFlight
  <2>4. /\ flash'.status = flash.status /\ flash'.target = flash.target
        /\ ecu'.version > flash.target
    <3>1. CASE UNCHANGED vars
      BY <2>2, <3>1 DEF vars, sessionVars
    <3>2. ASSUME NEW q \in Requests, AdvanceEcu(q)
          PROVE  flash' = flash /\ ecu'.version > flash.target
      <4>1. /\ flash' = flash /\ request[q] # None
            /\ ecu'.version = request[q].ecu.version + 1
        BY <2>1, <3>2, AdvanceEcuStep
      <4> QED
        BY <2>2, <2>3, <4>1
    <3>3. ASSUME NEW q \in Requests, Load(q) \/ Ends(q) \/ Looks(q) \/ Stores(q) \/ Clears(q)
          PROVE  ecu' = ecu /\ flash' = flash
      BY <2>1, <3>3, LoadStep DEF Ends, Looks, Look, Stores, Clears, sessionRows
    <3>4. ASSUME NEW q \in Requests, SessionRequest(q)
          PROVE  flash' = flash /\ ecu'.version > flash.target
      <4>1. /\ flash' = flash /\ request[q] # None
            /\ ecu'.version \in {ecu.version, request[q].ecu.version + 1}
        BY <2>1, <3>4, SessionRequestStep
      <4> QED
        BY <2>2, <2>3, <4>1
    <3>5. ASSUME NEW q \in Requests, SecurityAccess(q)
          PROVE  ecu' = ecu /\ flash' = flash
      BY <2>1, <3>5, SecurityAccessStep DEF RowsInv
    <3>6. ASSUME NEW q \in Requests, FlashRequest(q)
          PROVE  /\ flash'.status = flash.status /\ flash'.target = flash.target
                 /\ ecu' = ecu
      <4>1. ~RequestDownload(q)
        BY <2>2 DEF RequestDownload
      <4>2. ~ExitTransfer(q)
        BY <2>2, <2>3 DEF ExitTransfer, Ready, Holds
      <4> QED
        BY <2>1, <3>6, <4>1, <4>2, BlockKeepsTarget DEF FlashRequest
    <3> QED
      BY <1>1, <2>1, <2>2, <3>1, <3>2, <3>3, <3>4, <3>5, <3>6, StepShapes
  <2>5. \A p \in Requests : request'[p] # None => request'[p].ecu.version > flash.target
    BY <2>1, <2>2, <2>3 DEF RequestsKept
  <2> QED
    BY <2>2, <2>4, <2>5 DEF Overtaken, InFlight
<1>2. DiagnosticsInv /\ [Next]_vars => [Overtaken => Overtaken']_sessionVars
  BY <1>1
<1> QED
  BY <1>2, Invariance, PTL DEF Spec, OvertakenDownloadsStay
=====
