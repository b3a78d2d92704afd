--------------------------- MODULE VehiclesProofs ---------------------------
(* The vehicles of the platform, for any number of commands, pollers,      *)
(* acknowledgements and restores, any lease and any vehicle states: leased *)
(* delivery first, then the digital states, then both together.            *)
EXTENDS Vehicles, FiniteSetTheorems, WellFoundedInduction, TLAPS

-----------------------------------------------------------------------------
(* Leased delivery *)

\* The rows a claim holds are open and have stayed as available as they were.
LockedRowsAreOpen ==
    \A p \in Pollers : claim[p] # None =>
        /\ claim[p].at <= now
        /\ claim[p].taken \in claim[p].locked
        /\ \A c \in claim[p].locked :
             /\ Exists(c) /\ ~Terminal(c)
             /\ commands[c].status = "claimed" => commands[c].until <= claim[p].at

ClaimsAreDisjoint ==
    \A p, q \in Pollers : p # q /\ claim[p] # None /\ claim[q] # None =>
        claim[p].locked \cap claim[q].locked = {}

\* What a row remembers of its deliveries: how many there were, and, while it
\* is claimed, the end of the last lease.
RowsRememberDeliveries ==
    /\ \A c \in Commands : Exists(c) =>
         /\ commands[c].status = "pending" => commands[c].attempt = 0
         /\ commands[c].status = "claimed" => commands[c].until # None
    /\ \A d \in deliveries :
         /\ Exists(d.command)
         /\ 1 <= d.attempt /\ d.attempt <= commands[d.command].attempt
         /\ commands[d.command].status = "claimed" => d.until <= commands[d.command].until

\* An acknowledgement is of a row that was delivered.
AcksAreOfDeliveries ==
    \A a \in Acks : ack[a] # None =>
        Exists(ack[a].command) /\ commands[ack[a].command].attempt >= 1

DeliveryInv ==
    /\ CommandsTypeOK
    /\ LockedRowsAreOpen
    /\ ClaimsAreDisjoint
    /\ RowsRememberDeliveries
    /\ AcksAreOfDeliveries
    /\ LeasesAreDisjoint
    /\ EvidenceExact

\* What a step may do to a command that is terminal, as TerminalStays has it.
TerminalStep ==
    \A c \in Commands : Terminal(c) =>
        Terminal(c)' /\ commands'[c].attempt = commands[c].attempt

LEMMA DeliveryInitHolds == CommandsInit => DeliveryInv
BY CommandsAssumption
   DEF CommandsInit, DeliveryInv, CommandsTypeOK, LockedRowsAreOpen, ClaimsAreDisjoint,
       RowsRememberDeliveries, AcksAreOfDeliveries, LeasesAreDisjoint, EvidenceExact,
       Exists, Terminal, EventKinds, Times

\* No row, claim or acknowledgement is NULL.
LEMMA NoneIsNoRow ==
    /\ \A r \in CommandRow : r # None
    /\ \A p \in Claim : p # None
    /\ \A a \in Ack : a # None
    /\ \A n \in Nat : n # None
BY CommandsAssumption

LEMMA LockedIsOfClaims ==
    ASSUME CommandsTypeOK, NEW c
    PROVE  c \in Locked <=> \E p \in Pollers : claim[p] # None /\ c \in claim[p].locked
BY DEF Locked

\* create_vehicle_command.
LEMMA CreateCommandStep ==
    ASSUME DeliveryInv, NEW c \in Commands, NEW available \in Times, CreateCommand(c, available)
    PROVE  DeliveryInv' /\ TerminalStep
<1> USE DEF DeliveryInv
<1> DEFINE row == [status |-> "pending", available |-> available, attempt |-> 0,
                   until |-> None, error |-> FALSE]
<1>1. /\ ~Exists(c) /\ commands' = [commands EXCEPT ![c] = row]
      /\ outbox' = [outbox EXCEPT ![<<"requested", c>>] = @ + 1]
      /\ UNCHANGED <<claim, ack, deliveries, now>>
  BY DEF CreateCommand, Emit
<1>2. row \in CommandRow /\ row # None
  BY NoneIsNoRow DEF CommandRow
<1>3. /\ row.status = "pending" /\ row.attempt = 0
      /\ commands'[c] = row
      /\ \A d \in Commands : d # c => commands'[d] = commands[d]
  BY <1>1 DEF CommandsTypeOK
<1> HIDE DEF row
<1>4. CommandsTypeOK'
  BY <1>1, <1>2 DEF CommandsTypeOK, EventKinds
<1>5. LockedRowsAreOpen'
  BY <1>1, <1>3 DEF CommandsTypeOK, LockedRowsAreOpen, Exists, Terminal, Claim
<1>6. ClaimsAreDisjoint'
  BY <1>1 DEF ClaimsAreDisjoint
<1>7. RowsRememberDeliveries'
  BY <1>1, <1>2, <1>3 DEF CommandsTypeOK, RowsRememberDeliveries, Exists, Delivery
<1>8. AcksAreOfDeliveries'
  BY <1>1, <1>3 DEF CommandsTypeOK, AcksAreOfDeliveries, Exists, Ack
<1>9. LeasesAreDisjoint'
  BY <1>1 DEF LeasesAreDisjoint
<1>10. EvidenceExact'
  <2> SUFFICES ASSUME NEW d \in Commands
               PROVE  /\ outbox'[<<"requested", d>>] = IF Exists(d)' THEN 1 ELSE 0
                      /\ outbox'[<<"claimed", d>>] = IF Exists(d)' THEN commands'[d].attempt ELSE 0
                      /\ outbox'[<<"completed", d>>] > 0 <=> Terminal(d)'
    BY DEF EvidenceExact
  <2>1. /\ outbox'[<<"requested", d>>] = IF d = c THEN outbox[<<"requested", d>>] + 1
                                         ELSE outbox[<<"requested", d>>]
        /\ outbox'[<<"claimed", d>>] = outbox[<<"claimed", d>>]
        /\ outbox'[<<"completed", d>>] = outbox[<<"completed", d>>]
    BY <1>1 DEF CommandsTypeOK, EventKinds
  <2>2. CASE d = c
    BY <1>1, <1>2, <1>3, <2>1, <2>2 DEF EvidenceExact, Exists, Terminal, Outcomes
  <2>3. CASE d # c
    BY <1>3, <2>1, <2>3 DEF EvidenceExact, Exists, Terminal
  <2> QED
    BY <2>2, <2>3
<1>11. TerminalStep
  BY <1>1, <1>3 DEF TerminalStep, Terminal, Exists
<1> QED
  BY <1>4, <1>5, <1>6, <1>7, <1>8, <1>9, <1>10, <1>11

\* claim_next_vehicle_command selects rows that nobody holds.
LEMMA SelectClaimStep ==
    ASSUME DeliveryInv, NEW p \in Pollers, SelectClaim(p)
    PROVE  DeliveryInv' /\ TerminalStep
<1> USE DEF DeliveryInv
<1> DEFINE free == {c \in Commands : Available(c)} \ Locked
<1>0. PICK c \in Oldest(free) :
         claim' = [claim EXCEPT ![p] = [locked |-> free, taken |-> c, at |-> now]]
  BY DEF SelectClaim
<1>1. UNCHANGED <<commands, ack, deliveries, outbox, now>>
  BY DEF SelectClaim
<1> DEFINE new == [locked |-> free, taken |-> c, at |-> now]
<1>2. new \in Claim /\ c \in free
  BY <1>0 DEF Oldest, Claim, CommandsTypeOK
<1>3. /\ new.locked = free /\ new.taken = c /\ new.at = now
      /\ claim'[p] = new
      /\ \A q \in Pollers : q # p => claim'[q] = claim[q]
      /\ claim' \in [Pollers -> Claim \cup {None}]
  BY <1>0, <1>2 DEF CommandsTypeOK
<1>4. \A d \in free : /\ d \in Commands /\ Exists(d) /\ ~Terminal(d)
                      /\ commands[d].status = "claimed" => commands[d].until <= now
                      /\ d \notin Locked
  BY DEF Available, Terminal, Outcomes
<1> HIDE DEF new, free
<1>5. CommandsTypeOK'
  BY <1>1, <1>3 DEF CommandsTypeOK
<1>6. LockedRowsAreOpen'
  BY <1>1, <1>2, <1>3, <1>4 DEF CommandsTypeOK, LockedRowsAreOpen, Exists, Terminal, Times
<1>7. ClaimsAreDisjoint'
  <2>1. \A q \in Pollers : q # p /\ claim[q] # None => free \cap claim[q].locked = {}
    BY <1>4, LockedIsOfClaims
  <2> QED
    BY <1>3, <2>1 DEF ClaimsAreDisjoint
<1>8. RowsRememberDeliveries' /\ AcksAreOfDeliveries' /\ LeasesAreDisjoint' /\ EvidenceExact'
  BY <1>1 DEF RowsRememberDeliveries, AcksAreOfDeliveries, LeasesAreDisjoint, EvidenceExact,
              Exists, Terminal
<1>9. TerminalStep
  BY <1>1 DEF TerminalStep, Terminal, Exists
<1> QED
  BY <1>5, <1>6, <1>7, <1>8, <1>9

\* claim_next_vehicle_command commits: the row it takes is open, and every
\* earlier lease of it ended before the claim began.
LEMMA CommitClaimStep ==
    ASSUME DeliveryInv, NEW p \in Pollers, CommitClaim(p)
    PROVE  DeliveryInv' /\ TerminalStep
<1> USE DEF DeliveryInv
<1>0. claim[p] # None /\ claim[p] \in Claim
  BY DEF CommitClaim, CommandsTypeOK
<1> PICK c \in Commands, locked \in SUBSET Commands, at \in Times :
        claim[p] = [locked |-> locked, taken |-> c, at |-> at]
  BY <1>0 DEF Claim
<1> DEFINE attempt == commands[c].attempt + 1
           until == at + Lease
           delivery == [command |-> c, attempt |-> attempt, from |-> at, until |-> until]
<1>1. /\ commands' = [commands EXCEPT ![c].status = "claimed", ![c].attempt = attempt,
                                      ![c].until = until]
      /\ deliveries' = deliveries \cup {delivery}
      /\ outbox' = [outbox EXCEPT ![<<"claimed", c>>] = @ + 1]
      /\ claim' = [claim EXCEPT ![p] = None]
      /\ UNCHANGED <<ack, now>>
  BY DEF CommitClaim, Emit
<1>2. /\ c \in locked /\ Exists(c) /\ ~Terminal(c) /\ commands[c] \in CommandRow
      /\ commands[c].status = "claimed" => commands[c].until <= at
      /\ at <= now
  BY <1>0 DEF LockedRowsAreOpen, CommandsTypeOK, Exists
<1>3. attempt \in Nat /\ attempt >= 1 /\ until \in 0 .. MaxTime + Lease /\ at < until
  BY <1>2, CommandsAssumption DEF CommandRow, Times
<1> HIDE DEF attempt, until
<1>4. delivery \in Delivery
  BY <1>3 DEF Delivery
<1>5. /\ commands'[c].status = "claimed" /\ commands'[c].attempt = attempt
      /\ commands'[c].until = until
      /\ \A d \in Commands : d # c => commands'[d] = commands[d]
  BY <1>1, <1>2 DEF CommandsTypeOK, CommandRow
<1>6. commands' \in [Commands -> CommandRow \cup {None}] /\ commands'[c] # None
  <2> DEFINE row == [commands[c] EXCEPT !.status = "claimed", !.attempt = attempt, !.until = until]
  <2>1. row \in CommandRow
    BY <1>2, <1>3, Zenon DEF CommandRow
  <2>2. commands' = [commands EXCEPT ![c] = row]
    BY <1>1, Zenon
  <2> HIDE DEF row
  <2> QED
    BY <2>1, <2>2, NoneIsNoRow DEF CommandsTypeOK
<1>7. CommandsTypeOK'
  <2>1. outbox' \in [EventKinds -> Nat]
    BY <1>1 DEF CommandsTypeOK, EventKinds
  <2> QED
    BY <1>1, <1>4, <1>6, <2>1 DEF CommandsTypeOK
<1>8. claim'[p] = None /\ \A q \in Pollers : q # p => claim'[q] = claim[q]
  BY <1>1 DEF CommandsTypeOK
<1>9. LockedRowsAreOpen'
  <2> SUFFICES ASSUME NEW q \in Pollers, claim'[q] # None
               PROVE  /\ claim'[q].at <= now'
                      /\ claim'[q].taken \in claim'[q].locked
                      /\ \A d \in claim'[q].locked :
                           /\ Exists(d)' /\ ~Terminal(d)'
                           /\ commands'[d].status = "claimed" => commands'[d].until <= claim'[q].at
    BY DEF LockedRowsAreOpen
  <2>1. q # p /\ claim'[q] = claim[q] /\ c \notin claim[q].locked
    BY <1>0, <1>2, <1>8 DEF ClaimsAreDisjoint
  <2>2. claim[q].locked \subseteq Commands
    BY <2>1 DEF CommandsTypeOK, Claim
  <2> QED
    BY <1>1, <1>5, <2>1, <2>2 DEF LockedRowsAreOpen, Exists, Terminal
<1>10. ClaimsAreDisjoint'
  BY <1>8 DEF ClaimsAreDisjoint
<1>11. \A d \in deliveries : d.command = c => d.attempt < attempt /\ d.until <= at
  <2> SUFFICES ASSUME NEW d \in deliveries, d.command = c
               PROVE  d.attempt < attempt /\ d.until <= at
    OBVIOUS
  <2>1. d \in Delivery /\ 1 <= d.attempt /\ d.attempt <= commands[c].attempt
    BY DEF CommandsTypeOK, RowsRememberDeliveries
  <2>2. commands[c].status = "claimed"
    BY <1>2, <2>1 DEF RowsRememberDeliveries, Terminal, CommandRow, Delivery, Exists
  <2>3. d.until <= commands[c].until /\ commands[c].until <= at
        /\ commands[c].until \in 0 .. MaxTime + Lease
    BY <1>2, <2>2 DEF RowsRememberDeliveries, CommandRow
  <2> QED
    BY <1>2, <2>1, <2>3, CommandsAssumption DEF attempt, Delivery, CommandRow, Times
<1>12. RowsRememberDeliveries'
  <2>1. ASSUME NEW d \in deliveries'
        PROVE  /\ Exists(d.command)'
               /\ 1 <= d.attempt /\ d.attempt <= commands'[d.command].attempt
               /\ commands'[d.command].status = "claimed" => d.until <= commands'[d.command].until
    <3>1. CASE d = delivery
      BY <1>3, <1>5, <1>6, <3>1 DEF Exists
    <3>2. CASE d \in deliveries /\ d.command # c
      BY <1>5, <3>2 DEF RowsRememberDeliveries, Exists, CommandsTypeOK, Delivery
    <3>3. CASE d \in deliveries /\ d.command = c
      BY <1>3, <1>5, <1>6, <1>11, <3>3 DEF RowsRememberDeliveries, Exists, CommandsTypeOK,
                                            Delivery, Times
    <3> QED
      BY <1>1, <3>1, <3>2, <3>3
  <2>2. ASSUME NEW d \in Commands, Exists(d)'
        PROVE  /\ commands'[d].status = "pending" => commands'[d].attempt = 0
               /\ commands'[d].status = "claimed" => commands'[d].until # None
    BY <1>3, <1>5, <2>2, NoneIsNoRow DEF RowsRememberDeliveries, Exists
  <2> QED
    BY <2>1, <2>2 DEF RowsRememberDeliveries
<1>13. AcksAreOfDeliveries'
  <2> SUFFICES ASSUME NEW a \in Acks, ack[a] # None
               PROVE  Exists(ack[a].command)' /\ commands'[ack[a].command].attempt >= 1
    BY <1>1 DEF AcksAreOfDeliveries
  <2>1. ack[a].command \in Commands
    BY DEF CommandsTypeOK, Ack
  <2>2. CASE ack[a].command = c
    BY <1>1, <1>3, <1>5, <1>6, <2>2 DEF Exists
  <2>3. CASE ack[a].command # c
    BY <1>1, <1>5, <2>1, <2>3 DEF AcksAreOfDeliveries, Exists
  <2> QED
    BY <2>2, <2>3
<1>14. LeasesAreDisjoint'
  <2>1. /\ delivery.command = c /\ delivery.attempt = attempt
        /\ delivery.from = at /\ delivery.until = until
    OBVIOUS
  <2>2. \A d \in deliveries : d.command = c => d.attempt \in Nat
    BY DEF CommandsTypeOK, Delivery
  <2> HIDE DEF delivery
  <2> QED
    BY <1>1, <1>3, <1>11, <2>1, <2>2 DEF LeasesAreDisjoint
<1>15. EvidenceExact'
  <2> SUFFICES ASSUME NEW d \in Commands
               PROVE  /\ outbox'[<<"requested", d>>] = IF Exists(d)' THEN 1 ELSE 0
                      /\ outbox'[<<"claimed", d>>] = IF Exists(d)' THEN commands'[d].attempt ELSE 0
                      /\ outbox'[<<"completed", d>>] > 0 <=> Terminal(d)'
    BY DEF EvidenceExact
  <2>1. /\ outbox'[<<"claimed", d>>] = IF d = c THEN outbox[<<"claimed", d>>] + 1
                                       ELSE outbox[<<"claimed", d>>]
        /\ outbox'[<<"requested", d>>] = outbox[<<"requested", d>>]
        /\ outbox'[<<"completed", d>>] = outbox[<<"completed", d>>]
    BY <1>1 DEF CommandsTypeOK, EventKinds
  <2>2. CASE d = c
    BY <1>2, <1>5, <1>6, <2>1, <2>2 DEF EvidenceExact, Exists, Terminal, Outcomes, attempt
  <2>3. CASE d # c
    BY <1>5, <2>1, <2>3 DEF EvidenceExact, Exists, Terminal
  <2> QED
    BY <2>2, <2>3
<1>16. TerminalStep
  BY <1>2, <1>5 DEF TerminalStep, Terminal, Exists
<1> QED
  BY <1>7, <1>9, <1>10, <1>12, <1>13, <1>14, <1>15, <1>16

\* A claim dies before its commit.
LEMMA AbortClaimStep ==
    ASSUME DeliveryInv, NEW p \in Pollers, AbortClaim(p)
    PROVE  DeliveryInv' /\ TerminalStep
<1> USE DEF DeliveryInv
<1>1. /\ claim'[p] = None /\ \A q \in Pollers : q # p => claim'[q] = claim[q]
      /\ claim' \in [Pollers -> Claim \cup {None}]
      /\ UNCHANGED <<commands, ack, deliveries, outbox, now>>
  BY DEF AbortClaim, CommandsTypeOK
<1>2. CommandsTypeOK'
  BY <1>1 DEF CommandsTypeOK
<1>3. LockedRowsAreOpen' /\ ClaimsAreDisjoint'
  BY <1>1 DEF LockedRowsAreOpen, ClaimsAreDisjoint, Exists, Terminal
<1>4. RowsRememberDeliveries' /\ AcksAreOfDeliveries' /\ LeasesAreDisjoint' /\ EvidenceExact'
  BY <1>1 DEF RowsRememberDeliveries, AcksAreOfDeliveries, LeasesAreDisjoint, EvidenceExact,
              Exists, Terminal
<1>5. TerminalStep
  BY <1>1 DEF TerminalStep, Terminal, Exists
<1> QED
  BY <1>2, <1>3, <1>4, <1>5

\* acknowledge_vehicle_command reads the row of a delivery, without a lock.
LEMMA ReadForAckStep ==
    ASSUME DeliveryInv, NEW a \in Acks, NEW d \in deliveries, NEW outcome \in Outcomes,
           ReadForAck(a, d, outcome)
    PROVE  DeliveryInv' /\ TerminalStep
<1> USE DEF DeliveryInv
<1> DEFINE new == [command |-> d.command, attempt |-> d.attempt,
                   outcome |-> outcome, error |-> commands[d.command].error]
<1>1. ack' = [ack EXCEPT ![a] = new] /\ UNCHANGED <<commands, claim, deliveries, outbox, now>>
  BY DEF ReadForAck
<1>2. /\ d \in Delivery /\ Exists(d.command) /\ commands[d.command] \in CommandRow
      /\ 1 <= d.attempt /\ d.attempt <= commands[d.command].attempt
  BY DEF CommandsTypeOK, RowsRememberDeliveries, Delivery, Exists
<1>3. new \in Ack /\ new.command = d.command
  BY <1>2 DEF Ack, Delivery, CommandRow
<1> HIDE DEF new
<1>4. CommandsTypeOK'
  BY <1>1, <1>3 DEF CommandsTypeOK
<1>5. LockedRowsAreOpen' /\ ClaimsAreDisjoint'
  BY <1>1 DEF LockedRowsAreOpen, ClaimsAreDisjoint, Exists, Terminal
<1>6. RowsRememberDeliveries' /\ LeasesAreDisjoint' /\ EvidenceExact'
  BY <1>1 DEF RowsRememberDeliveries, LeasesAreDisjoint, EvidenceExact, Exists, Terminal
<1>7. AcksAreOfDeliveries'
  <2>1. commands[d.command].attempt >= 1
    BY <1>2 DEF Delivery, CommandRow
  <2> QED
    BY <1>1, <1>2, <1>3, <2>1 DEF AcksAreOfDeliveries, CommandsTypeOK, Exists
<1>8. TerminalStep
  BY <1>1 DEF TerminalStep, Terminal, Exists
<1> QED
  BY <1>4, <1>5, <1>6, <1>7, <1>8

\* acknowledge_vehicle_command updates a row that no claim holds, whatever
\* happened to it since it was read.
LEMMA CommitAckStep ==
    ASSUME DeliveryInv, NEW a \in Acks, CommitAck(a)
    PROVE  DeliveryInv' /\ TerminalStep
<1> USE DEF DeliveryInv
<1> DEFINE c == ack[a].command
           outcome == ack[a].outcome
<1>1. /\ ack[a] \in Ack /\ c \in Commands /\ c \notin Locked /\ outcome \in Outcomes
      /\ Exists(c) /\ commands[c].attempt >= 1 /\ commands[c] \in CommandRow
  BY DEF CommitAck, CommandsTypeOK, Ack, AcksAreOfDeliveries, Exists
<1>2. /\ ack' = [ack EXCEPT ![a] = None]
      /\ outbox' = [outbox EXCEPT ![<<"completed", c>>] = @ + 1]
      /\ UNCHANGED <<claim, deliveries, now>>
  BY DEF CommitAck, Emit
<1>3. PICK error \in BOOLEAN :
         commands' = [commands EXCEPT ![c].status = outcome, ![c].until = None, ![c].error = error]
  <2>1. commands' = [commands EXCEPT
                ![c].status = outcome, ![c].until = None,
                ![c].error = IF (outcome # "succeeded") = ack[a].error
                             THEN commands[c].error ELSE outcome # "succeeded"]
    BY DEF CommitAck
  <2>2. commands[c].error \in BOOLEAN
    BY <1>1 DEF CommandRow
  <2> QED
    BY <2>1, <2>2
<1> HIDE DEF c, outcome
<1>4. /\ commands'[c].status = outcome /\ commands'[c].attempt = commands[c].attempt
      /\ \A d \in Commands : d # c => commands'[d] = commands[d]
  BY <1>1, <1>3 DEF CommandsTypeOK, CommandRow
<1>5. commands' \in [Commands -> CommandRow \cup {None}] /\ commands'[c] # None
  <2> DEFINE row == [commands[c] EXCEPT !.status = outcome, !.until = None, !.error = error]
  <2>1. row \in CommandRow
    BY <1>1, Zenon DEF CommandRow
  <2>2. commands' = [commands EXCEPT ![c] = row]
    BY <1>3, Zenon
  <2> HIDE DEF row
  <2> QED
    BY <1>1, <2>1, <2>2, NoneIsNoRow DEF CommandsTypeOK
<1>6. CommandsTypeOK'
  <2>1. outbox' \in [EventKinds -> Nat]
    BY <1>1, <1>2 DEF CommandsTypeOK, EventKinds
  <2>2. ack' \in [Acks -> Ack \cup {None}]
    BY <1>2 DEF CommandsTypeOK
  <2> QED
    BY <1>2, <1>5, <2>1, <2>2 DEF CommandsTypeOK
<1>7. LockedRowsAreOpen'
  <2> SUFFICES ASSUME NEW q \in Pollers, claim[q] # None, NEW d \in claim[q].locked
               PROVE  d # c /\ d \in Commands
    BY <1>2, <1>4 DEF LockedRowsAreOpen, Exists, Terminal
  <2> QED
    BY <1>1, LockedIsOfClaims DEF CommandsTypeOK, Claim
<1>8. ClaimsAreDisjoint'
  BY <1>2 DEF ClaimsAreDisjoint
<1>9. RowsRememberDeliveries'
  BY <1>1, <1>2, <1>4, <1>5 DEF RowsRememberDeliveries, CommandsTypeOK, Delivery, Exists, Outcomes
<1>10. AcksAreOfDeliveries'
  BY <1>1, <1>2, <1>4, <1>5 DEF AcksAreOfDeliveries, CommandsTypeOK, Ack, Exists
<1>11. LeasesAreDisjoint'
  BY <1>2 DEF LeasesAreDisjoint
<1>12. EvidenceExact'
  <2> SUFFICES ASSUME NEW d \in Commands
               PROVE  /\ outbox'[<<"requested", d>>] = IF Exists(d)' THEN 1 ELSE 0
                      /\ outbox'[<<"claimed", d>>] = IF Exists(d)' THEN commands'[d].attempt ELSE 0
                      /\ outbox'[<<"completed", d>>] > 0 <=> Terminal(d)'
    BY DEF EvidenceExact
  <2>1. /\ outbox'[<<"completed", d>>] = IF d = c THEN outbox[<<"completed", d>>] + 1
                                         ELSE outbox[<<"completed", d>>]
        /\ outbox'[<<"requested", d>>] = outbox[<<"requested", d>>]
        /\ outbox'[<<"claimed", d>>] = outbox[<<"claimed", d>>]
        /\ outbox[<<"completed", d>>] \in Nat
    BY <1>1, <1>2 DEF CommandsTypeOK, EventKinds
  <2>2. CASE d = c
    BY <1>1, <1>4, <1>5, <2>1, <2>2 DEF EvidenceExact, Exists, Terminal
  <2>3. CASE d # c
    BY <1>4, <2>1, <2>3 DEF EvidenceExact, Exists, Terminal
  <2> QED
    BY <2>2, <2>3
<1>13. TerminalStep
  BY <1>1, <1>4, <1>5 DEF TerminalStep, Terminal, Exists
<1> QED
  BY <1>6, <1>7, <1>8, <1>9, <1>10, <1>11, <1>12, <1>13

\* An acknowledgement dies before its commit.
LEMMA AbortAckStep ==
    ASSUME DeliveryInv, NEW a \in Acks, AbortAck(a)
    PROVE  DeliveryInv' /\ TerminalStep
<1> USE DEF DeliveryInv
<1>1. /\ ack'[a] = None /\ \A b \in Acks : b # a => ack'[b] = ack[b]
      /\ ack' \in [Acks -> Ack \cup {None}]
      /\ UNCHANGED <<commands, claim, deliveries, outbox, now>>
  BY DEF AbortAck, CommandsTypeOK
<1>2. CommandsTypeOK'
  BY <1>1 DEF CommandsTypeOK
<1>3. LockedRowsAreOpen' /\ ClaimsAreDisjoint'
  BY <1>1 DEF LockedRowsAreOpen, ClaimsAreDisjoint, Exists, Terminal
<1>4. RowsRememberDeliveries' /\ AcksAreOfDeliveries' /\ LeasesAreDisjoint' /\ EvidenceExact'
  BY <1>1 DEF RowsRememberDeliveries, AcksAreOfDeliveries, LeasesAreDisjoint, EvidenceExact,
              Exists, Terminal
<1>5. TerminalStep
  BY <1>1 DEF TerminalStep, Terminal, Exists
<1> QED
  BY <1>2, <1>3, <1>4, <1>5

\* Time makes leases end; what a claim has seen ended stays so.
LEMMA TickStep ==
    ASSUME DeliveryInv, Tick
    PROVE  DeliveryInv' /\ TerminalStep
<1> USE DEF DeliveryInv
<1>1. now < MaxTime /\ now' = now + 1 /\ UNCHANGED <<commands, claim, ack, deliveries, outbox>>
  BY DEF Tick
<1>2. CommandsTypeOK'
  BY <1>1, CommandsAssumption DEF CommandsTypeOK, Times
<1>3. LockedRowsAreOpen' /\ ClaimsAreDisjoint'
  BY <1>1, CommandsAssumption
     DEF LockedRowsAreOpen, ClaimsAreDisjoint, Exists, Terminal, CommandsTypeOK, Times, Claim
<1>4. RowsRememberDeliveries' /\ AcksAreOfDeliveries' /\ LeasesAreDisjoint' /\ EvidenceExact'
  BY <1>1 DEF RowsRememberDeliveries, AcksAreOfDeliveries, LeasesAreDisjoint, EvidenceExact,
              Exists, Terminal
<1>5. TerminalStep
  BY <1>1 DEF TerminalStep, Terminal, Exists
<1> QED
  BY <1>2, <1>3, <1>4, <1>5

LEMMA DeliveryStepHolds ==
    ASSUME DeliveryInv, DeliveryCommand \/ UNCHANGED commandVars
    PROVE  DeliveryInv' /\ TerminalStep
<1>1. CASE UNCHANGED commandVars
  BY <1>1 DEF commandVars, DeliveryInv, CommandsTypeOK, LockedRowsAreOpen, ClaimsAreDisjoint,
       RowsRememberDeliveries, AcksAreOfDeliveries, LeasesAreDisjoint, EvidenceExact,
       Exists, Terminal, TerminalStep
<1>2. CASE DeliveryCommand
  BY <1>2, CreateCommandStep, SelectClaimStep, CommitClaimStep, AbortClaimStep, ReadForAckStep,
     CommitAckStep, AbortAckStep, TickStep DEF DeliveryCommand, Poll, Acknowledge
<1> QED
  BY <1>1, <1>2

\* The invariant of the delivery implies what the run checks of it.
LEMMA DeliveryIsExclusive == DeliveryInv => DeliveriesAreExclusive
<1> SUFFICES ASSUME DeliveryInv PROVE ClaimsAreExclusive
  BY DEF DeliveryInv, DeliveriesAreExclusive
<1> QED
  BY DEF DeliveryInv, ClaimsAreExclusive, LockedRowsAreOpen, ClaimsAreDisjoint

-----------------------------------------------------------------------------
(* The digital states *)

\* No stored state, in use or in a snapshot, violates the validation.
StatesAreValid ==
    /\ \A v \in Vehicles : Registered(v) => EnforceVehicleInvariants(digital[v].payload)
    /\ \A n \in Snapshots : snapshots[n] # Absent =>
         \A v \in Members : Registered(v) /\ EnforceVehicleInvariants(snapshots[n][v].payload)

RecordsAreOfRegistered == \A r \in records : Registered(r.vehicle)

\* A transition or a step that waits to be stored has a valid state for a
\* vehicle that is registered, and no more energy than it has.
IsValid(x) ==
    /\ Registered(simulating[x].vehicle) /\ digital[simulating[x].vehicle].version < MaxVersion
    /\ EnforceVehicleInvariants(simulating[x].payload)
    /\ simulating[x].payload.energy <= digital[simulating[x].vehicle].payload.energy
SimulationsAreValid == \A x \in Simulators : simulating[x] # Absent => IsValid(x)

\* A restore has locked the rows of its members up to some rank.
LocksFollowTheOrder ==
    \A r \in Restores : restoring[r] # Absent =>
        /\ snapshots[restoring[r].snapshot] # Absent
        /\ restoring[r].locked \subseteq RowsOf(Members)
        /\ \A row \in restoring[r].locked, other \in RowsOf(Members) \ restoring[r].locked :
             RowRank(row) < RowRank(other)

UpdatesAreOfRegistered ==
    \A q \in StatusRequests : updating[q] # Absent => Registered(updating[q].vehicle)

LocksAreExclusive ==
    \A p, q \in Requests : p # q => Held(p) \cap Held(q) = {}

FleetInv ==
    /\ FleetTypeOK
    /\ StatesAreValid
    /\ SimulationsAreValid
    /\ RecordsAreOfRegistered
    /\ UpdatesAreOfRegistered
    /\ CommandsAreOneHistory
    /\ LocksFollowTheOrder
    /\ LocksAreExclusive
    /\ TelemetryIsAnnouncedOnce

\* What a step may do to the digital states, as StatesChangeAsWholes has it.
Changed(v) == Registered(v) /\ digital'[v] # digital[v]
Restored(n) ==
    \A m \in Members :
        /\ Changed(m)
        /\ digital'[m].payload = snapshots[n][m].payload /\ digital'[m].time = snapshots[n][m].time
WholeStep ==
    /\ \A v \in Vehicles : Changed(v) => digital'[v].version = digital[v].version + 1
    /\ \A v, w \in Vehicles : v # w /\ Changed(v) /\ Changed(w) =>
         \E n \in Snapshots : snapshots[n] # Absent /\ Restored(n)
    /\ \A r \in Restores : restoring[r] # Absent =>
         \A v \in Vehicles : <<"state", v>> \in restoring[r].locked /\ Changed(v) =>
            Restored(restoring[r].snapshot)
    /\ \A x \in Simulators : simulating[x] # Absent /\ Changed(simulating[x].vehicle) =>
         /\ digital'[simulating[x].vehicle].payload = simulating[x].payload
         /\ simulating'[x] = Absent
    /\ records' # records => \A v \in Vehicles : Registered(v) =>
         digital'[v].payload.energy <= digital[v].payload.energy

LEMMA FleetInitHolds == FleetInit => FleetInv
BY FleetAssumption
   DEF FleetInit, FleetInv, FleetTypeOK, StatesAreValid, SimulationsAreValid, IsValid, RecordsAreOfRegistered,
       UpdatesAreOfRegistered, CommandsAreOneHistory, LocksFollowTheOrder, LocksAreExclusive,
       TelemetryIsAnnouncedOnce, Registered, Requests, Held

\* No row and no request is Absent.
LEMMA AbsentIsNoRow ==
    /\ \A d \in DigitalState : d # Absent
    /\ \A f \in [Members -> DigitalState] : f # Absent
    /\ \A r \in Restore : r # Absent
    /\ \A s \in Simulation : s # Absent
    /\ \A u \in StatusUpdate : u # Absent
    /\ \A t \in Reading : t # Absent
    /\ \A s \in VehicleStatuses : s # Absent
    /\ \A m \in Modes : m # Absent
BY FleetAssumption

\* The bounds of a state's numbers, as far as the proofs need them.
LEMMA Bounds ==
    /\ MaxSpeed \in Nat /\ 250000 <= MaxSpeed
    /\ MaxTorque \in Nat /\ 600 <= MaxTorque
    /\ MaxEnergy \in Nat /\ 60000000 <= MaxEnergy
    /\ FullCharge \in Nat /\ 80000 <= FullCharge
BY DEF MaxSpeed, MaxTorque, MaxEnergy, FullCharge

\* What a restore and a simulation hold.
LEMMA HeldByRestore ==
    ASSUME NEW r \in Restores
    PROVE  /\ r \in Requests /\ r \notin Simulators
           /\ restoring[r] # Absent => Held(r) = restoring[r].locked
           /\ restoring[r] = Absent => Held(r) = {}
BY FleetAssumption DEF Requests, Held

LEMMA HeldBySimulation ==
    ASSUME NEW x \in Simulators
    PROVE  /\ x \in Requests /\ x \notin Restores
           /\ simulating[x] # Absent => Held(x) = {<<"state", simulating[x].vehicle>>}
           /\ simulating[x] = Absent => Held(x) = {}
BY FleetAssumption DEF Requests, Held

\* Locks that nobody adds to stay exclusive.
LEMMA FewerLocks ==
    ASSUME LocksAreExclusive,
           \A r \in Restores : restoring'[r] = restoring[r] \/ restoring'[r] = Absent,
           \A x \in Simulators : simulating'[x] = simulating[x] \/ simulating'[x] = Absent
    PROVE  LocksAreExclusive'
<1>1. \A p \in Requests : Held(p)' \subseteq Held(p)
  BY FleetAssumption DEF Requests, Held
<1> QED
  BY <1>1 DEF LocksAreExclusive, Requests

\* A state that nobody has locked, or that one simulation has.
LEMMA FreeStates ==
    ASSUME LocksAreExclusive, NEW v, Free(<<"state", v>>)
    PROVE  /\ \A r \in Restores : restoring[r] # Absent => <<"state", v>> \notin restoring[r].locked
           /\ \A x \in Simulators : simulating[x] # Absent => simulating[x].vehicle # v
BY HeldByRestore, HeldBySimulation DEF Free

LEMMA SimulatedStates ==
    ASSUME LocksAreExclusive, NEW y \in Simulators, simulating[y] # Absent
    PROVE  /\ \A r \in Restores : restoring[r] # Absent =>
                <<"state", simulating[y].vehicle>> \notin restoring[r].locked
           /\ \A x \in Simulators \ {y} : simulating[x] # Absent =>
                simulating[x].vehicle # simulating[y].vehicle
<1>1. Held(y) = {<<"state", simulating[y].vehicle>>} /\ y \in Requests
  BY HeldBySimulation
<1>2. \A p \in Requests : p # y => <<"state", simulating[y].vehicle>> \notin Held(p)
  BY <1>1 DEF LocksAreExclusive
<1>3. ASSUME NEW r \in Restores, restoring[r] # Absent
      PROVE  <<"state", simulating[y].vehicle>> \notin restoring[r].locked
  BY <1>2, <1>3, HeldByRestore, HeldBySimulation
<1>4. ASSUME NEW x \in Simulators \ {y}, simulating[x] # Absent
      PROVE  simulating[x].vehicle # simulating[y].vehicle
  BY <1>2, <1>4, HeldBySimulation
<1> QED
  BY <1>3, <1>4

\* A mode change yields a state of the type, with the energy it had.
LEMMA ModeApplies ==
    ASSUME NEW p \in Payload, NEW target \in {"ready", "driving", "parked"},
           NEW speed \in {30000, 250000}
    PROVE  /\ ApplySimulationMode(p, target, speed) \in Payload
           /\ ApplySimulationMode(p, target, speed).energy = p.energy
<1> DEFINE torque == IF target = "driving" THEN 120 ELSE 0
           limited == IF target = "driving" THEN speed ELSE 0
<1>1. torque \in -MaxTorque..MaxTorque
  BY Bounds
<1>2. limited \in 0..MaxSpeed
  BY Bounds
<1> HIDE DEF torque, limited
<1> QED
  BY <1>1, <1>2 DEF ApplySimulationMode, Payload, Modes, Gears, torque, limited

\* A step uses at least what it recovers.
LEMMA RecoveredIsUsed ==
    ASSUME NEW p \in Payload, NEW inputs \in StepInputs, NEW seconds \in Durations
    PROVE  /\ Speed(p, inputs, seconds) \in Nat /\ Speed(p, inputs, seconds) <= 250000
           /\ EnergyUsed(inputs, seconds) \in Int
           /\ EnergyRecovered(p, inputs, seconds) \in Int
           /\ EnergyRecovered(p, inputs, seconds) <= EnergyUsed(inputs, seconds)
<1>1. /\ inputs.accelerator \in Nat /\ inputs.brake \in Nat /\ inputs.grade \in Int
      /\ seconds \in Nat /\ p.speed \in Nat
  BY FleetAssumption DEF Payload
<1> DEFINE power == Most(0, 1000 * inputs.accelerator + 250 * inputs.grade) + 500
           work == power * seconds * 10
           used == work \div 36
<1>2. power \in Nat
  BY <1>1 DEF Most
<1> HIDE DEF power
<1>3. work \in Nat
  BY <1>1, <1>2
<1> HIDE DEF work
<1>4. used \in Nat /\ EnergyUsed(inputs, seconds) = used
  BY <1>3 DEF EnergyUsed, work, power
<1> DEFINE gain == seconds * (50 * inputs.accelerator - 25 * inputs.grade - 80 * inputs.brake)
<1>a. gain \in Int /\ p.speed + gain \in Int
  BY <1>1
<1>b. Speed(p, inputs, seconds) = Least(250000, Most(0, p.speed + gain))
  BY DEF Speed
<1> HIDE DEF gain
<1>5. Speed(p, inputs, seconds) \in Nat /\ Speed(p, inputs, seconds) <= 250000
  BY <1>a, <1>b DEF Least, Most
<1>6. Most(p.speed, Speed(p, inputs, seconds)) \in Int
  BY <1>1, <1>5 DEF Most
<1> HIDE DEF used
<1>7. (used * 4) \div 5 \in Int /\ (used * 4) \div 5 <= used
  BY <1>4
<1> DEFINE returned == (((inputs.brake * 45 * Most(p.speed, Speed(p, inputs, seconds))) \div 1000)
                        * seconds * 10) \div 36
<1>8. returned \in Int
  <2> DEFINE force == inputs.brake * 45 * Most(p.speed, Speed(p, inputs, seconds))
  <2>1. force \in Int
    BY <1>1, <1>6
  <2> HIDE DEF force
  <2>2. (force \div 1000) * seconds * 10 \in Int
    BY <1>1, <2>1
  <2> QED
    BY <2>2 DEF force
<1>9. EnergyRecovered(p, inputs, seconds) = Least((used * 4) \div 5, returned)
  BY <1>4 DEF EnergyRecovered
<1> HIDE DEF returned
<1> QED
  BY <1>4, <1>5, <1>7, <1>8, <1>9 DEF Least

\* A physical step yields a state of the type and gains no energy.
LEMMA StepApplies ==
    ASSUME NEW p \in Payload, NEW inputs \in StepInputs, NEW seconds \in Durations
    PROVE  /\ ApplySimulationStep(p, inputs, seconds) \in Payload
           /\ ApplySimulationStep(p, inputs, seconds).energy <= p.energy
<1>0. p.energy \in 0..MaxEnergy /\ p.energy \in Nat
  BY DEF Payload
<1>1. CASE p.mode # "driving"
  BY <1>0, <1>1 DEF ApplySimulationStep
<1>2. CASE p.mode = "driving"
  <2> DEFINE torque == Least(MaxTorque, Most(0, 12 * inputs.accelerator + 8 * inputs.grade))
             delivered == torque - Least(600, 6 * inputs.brake)
             net == EnergyUsed(inputs, seconds) - EnergyRecovered(p, inputs, seconds)
             left == Most(0, p.energy - net)
             soc == Least(FullCharge, left \div 750)
             speed == Speed(p, inputs, seconds)
  <2>1. inputs.accelerator \in Nat /\ inputs.brake \in Nat /\ inputs.grade \in Int
    BY FleetAssumption
  <2>2. torque \in -MaxTorque..MaxTorque /\ delivered \in -MaxTorque..MaxTorque
    BY <2>1, Bounds DEF Least, Most
  <2>3. net \in Nat
    BY RecoveredIsUsed
  <2>4. speed \in 0..MaxSpeed
    BY Bounds, RecoveredIsUsed
  <2>5. ApplySimulationStep(p, inputs, seconds) =
          [p EXCEPT !.speed = speed, !.requested = torque, !.delivered = delivered,
                    !.energy = left, !.soc = soc]
    BY <1>2, Zenon DEF ApplySimulationStep
  <2> HIDE DEF torque, delivered, net, speed
  <2>7. left \in 0..MaxEnergy /\ left <= p.energy
    BY <1>0, <2>3, Bounds DEF Most
  <2> HIDE DEF left
  <2>8. soc \in 0..FullCharge
    BY <2>7, Bounds DEF Least
  <2> HIDE DEF soc
  <2>9. ApplySimulationStep(p, inputs, seconds) \in Payload
    BY <2>2, <2>4, <2>5, <2>7, <2>8, Zenon DEF Payload
  <2>10. ApplySimulationStep(p, inputs, seconds).energy = left
    BY <2>5, Zenon DEF Payload
  <2> QED
    BY <2>7, <2>9, <2>10
<1> QED
  BY <1>1, <1>2

\* One state is stored under its lock: what replace_vehicle_digital_state, a
\* transition and a step have in common.
LEMMA StoreStep ==
    ASSUME FleetInv, NEW v \in Vehicles, Registered(v), digital[v].version < MaxVersion,
           NEW payload \in Payload, NEW seconds \in Nat,
           EnforceVehicleInvariants(payload), Store(v, payload, seconds),
           UNCHANGED <<snapshots, restoring, statusVars, telemetryVars>>,
           \/ Free(<<"state", v>>) /\ UNCHANGED simulating
           \/ \E x \in Simulators :
                /\ simulating[x] # Absent /\ simulating[x].vehicle = v
                /\ simulating[x].payload = payload
                /\ simulating' = [simulating EXCEPT ![x] = Absent],
           \/ UNCHANGED records
           \/ \E kind \in {"transition", "step"}, id \in CommandIds :
                /\ seconds \in Durations /\ IdFree(kind, id, v)
                /\ records' = records \cup {Record(kind, id, v, seconds)}
                /\ payload.energy <= digital[v].payload.energy
    PROVE  FleetInv' /\ WholeStep
<1> USE DEF FleetInv
<1> DEFINE old == digital[v]
           new == [payload |-> payload, version |-> old.version + 1, time |-> old.time + seconds]
<1>1. /\ Registered(v) /\ old \in DigitalState /\ old.version < MaxVersion
      /\ old.version \in Nat /\ old.time \in Nat /\ old # Absent
  BY FleetAssumption DEF FleetTypeOK, Registered, DigitalState
<1>s. /\ simulating' \in [Simulators -> Simulation \cup {Absent}]
      /\ \A x \in Simulators : simulating'[x] = simulating[x] \/ simulating'[x] = Absent
      /\ \A x \in Simulators : simulating[x] # Absent /\ simulating[x].vehicle = v =>
           simulating[x].payload = payload /\ simulating'[x] = Absent
      /\ \A r \in Restores : restoring[r] # Absent => <<"state", v>> \notin restoring[r].locked
  <2>1. CASE Free(<<"state", v>>) /\ UNCHANGED simulating
    BY <2>1, FreeStates DEF FleetTypeOK
  <2>2. ASSUME NEW x \in Simulators, simulating[x] # Absent, simulating[x].vehicle = v,
               simulating[x].payload = payload, simulating' = [simulating EXCEPT ![x] = Absent]
        PROVE  /\ simulating' \in [Simulators -> Simulation \cup {Absent}]
               /\ \A y \in Simulators : simulating'[y] = simulating[y] \/ simulating'[y] = Absent
               /\ \A y \in Simulators : simulating[y] # Absent /\ simulating[y].vehicle = v =>
                    simulating[y].payload = payload /\ simulating'[y] = Absent
               /\ \A r \in Restores : restoring[r] # Absent => <<"state", v>> \notin restoring[r].locked
    BY <2>2, SimulatedStates DEF FleetTypeOK
  <2> QED
    BY <2>1, <2>2
<1>2. /\ new \in DigitalState /\ new # Absent /\ new.payload = payload
      /\ new.version = old.version + 1 /\ new.time = old.time + seconds
  BY <1>1, FleetAssumption, AbsentIsNoRow DEF DigitalState
<1>3. digital' = [digital EXCEPT ![v] = new]
  BY DEF Store
<1> HIDE DEF new, old
<1>4. /\ digital'[v] = new
      /\ \A w \in Vehicles : w # v => digital'[w] = digital[w]
      /\ \A w \in Vehicles : Registered(w)' <=> Registered(w)
      /\ digital' \in [Vehicles -> DigitalState \cup {Absent}]
  BY <1>1, <1>2, <1>3 DEF FleetTypeOK, Registered
<1>5. /\ UNCHANGED <<snapshots, restoring, status, updating, telemetry, received, ingesting>>
  BY DEF statusVars, telemetryVars
<1>6. FleetTypeOK'
  <2>1. records' \subseteq SimulationRecord
    <3> SUFFICES ASSUME NEW kind \in {"transition", "step"}, NEW id \in CommandIds,
                        seconds \in Durations,
                        records' = records \cup {Record(kind, id, v, seconds)}
                 PROVE  Record(kind, id, v, seconds) \in SimulationRecord
      BY DEF FleetTypeOK
    <3> QED
      BY <1>1, FleetAssumption DEF Record, SimulationRecord, DigitalState, old
  <2> QED
    BY <1>4, <1>5, <1>s, <2>1 DEF FleetTypeOK
<1>7. StatesAreValid' /\ UpdatesAreOfRegistered'
  BY <1>2, <1>4, <1>5, FleetAssumption
     DEF StatesAreValid, UpdatesAreOfRegistered, FleetTypeOK, StatusUpdate
<1>v. SimulationsAreValid'
  <2> SUFFICES ASSUME NEW x \in Simulators, simulating'[x] # Absent
               PROVE  IsValid(x)'
    BY DEF SimulationsAreValid
  <2>1. simulating'[x] = simulating[x] /\ simulating[x].vehicle # v /\ simulating[x].vehicle \in Vehicles
    BY <1>s DEF FleetTypeOK, Simulation
  <2> QED
    BY <1>4, <2>1 DEF SimulationsAreValid, IsValid
<1>8. LocksFollowTheOrder' /\ LocksAreExclusive' /\ TelemetryIsAnnouncedOnce'
  BY <1>5, <1>s, FewerLocks DEF LocksFollowTheOrder, TelemetryIsAnnouncedOnce
<1>9. \A w \in Vehicles : Registered(w) => /\ digital'[w].version >= digital[w].version
                                           /\ w # v => digital'[w] = digital[w]
  BY <1>1, <1>2, <1>4 DEF FleetTypeOK, Registered, DigitalState, old
<1>10. \A r \in records : /\ r \in SimulationRecord /\ r.vehicle \in Vehicles
                          /\ Registered(r.vehicle) /\ r.version \in Nat /\ r.previous \in Nat
                          /\ r.version <= digital[r.vehicle].version
                          /\ r.version = r.previous + 1
                          /\ r.vehicle = v => r.version <= old.version
  BY FleetAssumption
     DEF FleetTypeOK, SimulationRecord, RecordsAreOfRegistered, CommandsAreOneHistory, old
<1>11. RecordsAreOfRegistered' /\ CommandsAreOneHistory' /\
       (records' # records => payload.energy <= old.payload.energy)
  <2>1. CASE UNCHANGED records
    <3>1. RecordsAreOfRegistered'
      BY <1>4, <1>10, <2>1 DEF RecordsAreOfRegistered
    <3>2. ASSUME NEW r \in records
          PROVE  /\ r.version <= digital'[r.vehicle].version
                 /\ r.version = digital'[r.vehicle].version => r.time = digital'[r.vehicle].time
      BY <1>1, <1>2, <1>4, <1>10, <3>2 DEF CommandsAreOneHistory
    <3> QED
      BY <2>1, <3>1, <3>2 DEF CommandsAreOneHistory
  <2>2. ASSUME NEW kind \in {"transition", "step"}, NEW id \in CommandIds,
               seconds \in Durations, IdFree(kind, id, v),
               records' = records \cup {Record(kind, id, v, seconds)},
               payload.energy <= old.payload.energy
        PROVE  RecordsAreOfRegistered' /\ CommandsAreOneHistory'
    <3> DEFINE n == Record(kind, id, v, seconds)
    <3>1. /\ n.vehicle = v /\ n.kind = kind /\ n.id = id /\ n.seconds = seconds
          /\ n.previous = old.version /\ n.version = old.version + 1
          /\ n.time = old.time + seconds
      BY DEF Record, old
    <3> HIDE DEF n
    <3>2. RecordsAreOfRegistered'
      BY <1>1, <1>4, <1>10, <2>2, <3>1 DEF RecordsAreOfRegistered, n
    <3>3. ASSUME NEW r \in records'
          PROVE  /\ r.version = r.previous + 1 /\ r.version <= digital'[r.vehicle].version
                 /\ r.version = digital'[r.vehicle].version => r.time = digital'[r.vehicle].time
      <4>1. CASE r = n
        BY <1>1, <1>2, <1>4, <3>1, <4>1
      <4>2. CASE r \in records
        BY <1>1, <1>2, <1>4, <1>10, <4>2 DEF CommandsAreOneHistory
      <4> QED
        BY <2>2, <4>1, <4>2 DEF n
    <3>4. ASSUME NEW r \in records, r.vehicle = v
          PROVE  /\ n.version # r.version /\ r.previous # n.version
                 /\ <<n.kind, n.id>> # <<r.kind, r.id>>
                 /\ n.previous = r.version => n.time = r.time + n.seconds
      <4>1. n.version # r.version /\ r.previous # n.version
        BY <1>1, <1>10, <3>1, <3>4
      <4>2. <<n.kind, n.id>> # <<r.kind, r.id>>
        BY <2>2, <3>1, <3>4 DEF IdFree
      <4>3. n.previous = r.version => r.time = old.time
        BY <3>1, <3>4 DEF CommandsAreOneHistory, old
      <4> QED
        BY <3>1, <4>1, <4>2, <4>3
    <3>5. ASSUME NEW r \in records', NEW s \in records', s.vehicle = r.vehicle, s # r
          PROVE  /\ s.version # r.version
                 /\ <<s.kind, s.id>> # <<r.kind, r.id>>
                 /\ s.previous = r.version => s.time = r.time + s.seconds
      <4>1. CASE r \in records /\ s \in records
        BY <3>5, <4>1 DEF CommandsAreOneHistory
      <4>2. CASE r \in records /\ s = n
        BY <3>1, <3>4, <3>5, <4>2
      <4>3. CASE r = n /\ s \in records
        BY <3>1, <3>4, <3>5, <4>3
      <4> QED
        BY <2>2, <3>5, <4>1, <4>2, <4>3 DEF n
    <3> QED
      BY <3>2, <3>3, <3>5 DEF CommandsAreOneHistory
  <2> QED
    BY <2>1, <2>2 DEF old
<1>12. WholeStep
  <2>1. \A w \in Vehicles : Changed(w) => w = v
    BY <1>4 DEF Changed
  <2>2. \A x \in Simulators : simulating[x] # Absent => simulating[x].vehicle \in Vehicles
    BY DEF FleetTypeOK, Simulation
  <2>3. \A w \in Vehicles : Changed(w) => digital'[w].version = digital[w].version + 1
    BY <1>2, <1>4, <2>1 DEF old
  <2>4. records' # records => \A w \in Vehicles : Registered(w) =>
          digital'[w].payload.energy <= digital[w].payload.energy
    <3> SUFFICES ASSUME records' # records, NEW w \in Vehicles, Registered(w)
                 PROVE  digital'[w].payload.energy <= digital[w].payload.energy
      OBVIOUS
    <3>1. CASE w = v
      BY <1>2, <1>4, <1>11, <3>1 DEF old
    <3>2. CASE w # v
      <4>1. digital'[w] = digital[w] /\ digital[w].payload.energy \in 0..MaxEnergy
        BY <1>4, <3>2 DEF FleetTypeOK, Registered, DigitalState, Payload
      <4>2. digital[w].payload.energy \in Int
        BY <4>1, Bounds
      <4> QED
        BY <4>1, <4>2
    <3> QED
      BY <3>1, <3>2
  <2> QED
    BY <1>2, <1>4, <1>s, <2>1, <2>2, <2>3, <2>4 DEF WholeStep
<1> QED
  BY <1>6, <1>7, <1>v, <1>8, <1>11, <1>12

\* replace_vehicle_digital_state.
LEMMA ReplaceStep ==
    ASSUME FleetInv, NEW v \in Vehicles, NEW payload \in Payloads, NEW expected,
           ReplaceDigitalState(v, payload, expected)
    PROVE  FleetInv' /\ WholeStep
BY StoreStep, FleetAssumption DEF ReplaceDigitalState, InOrder

\* A step that leaves the states and the records alone changes no state.
LEMMA NothingStored ==
    ASSUME FleetInv, UNCHANGED <<digital, records>>
    PROVE  WholeStep
BY DEF WholeStep, Changed, FleetInv, FleetTypeOK, Simulation

\* A transition or a step locks the state and knows the new one.
LEMMA SimulateStep ==
    ASSUME FleetInv, NEW x \in Simulators, NEW kind \in {"transition", "step"}, NEW id \in CommandIds,
           NEW v \in Vehicles, NEW seconds \in Durations, NEW payload \in Payload,
           InOrder(v), payload.energy <= digital[v].payload.energy,
           Simulate(x, kind, id, v, seconds, payload)
    PROVE  FleetInv' /\ WholeStep
<1> USE DEF FleetInv
<1> DEFINE new == [kind |-> kind, id |-> id, vehicle |-> v, seconds |-> seconds, payload |-> payload]
<1>1. /\ simulating[x] = Absent /\ EnforceVehicleInvariants(payload)
      /\ simulating' = [simulating EXCEPT ![x] = new]
      /\ UNCHANGED <<digital, records, snapshots, restoring, status, updating, telemetry, received,
                      ingesting>>
  BY DEF Simulate, statusVars, telemetryVars
<1>2. new \in Simulation /\ new # Absent /\ new.vehicle = v /\ new.payload = payload
  BY AbsentIsNoRow DEF Simulation
<1> HIDE DEF new
<1>3. /\ simulating'[x] = new
      /\ \A y \in Simulators : y # x => simulating'[y] = simulating[y]
      /\ simulating' \in [Simulators -> Simulation \cup {Absent}]
  BY <1>1, <1>2 DEF FleetTypeOK
<1>4. FleetTypeOK'
  BY <1>1, <1>3 DEF FleetTypeOK, Registered
<1>5. Registered(v) /\ Free(<<"state", v>>) /\ digital[v].version < MaxVersion
  BY DEF InOrder
<1>6. SimulationsAreValid'
  <2> SUFFICES ASSUME NEW y \in Simulators, simulating'[y] # Absent
               PROVE  IsValid(y)'
    BY DEF SimulationsAreValid
  <2>1. CASE y = x
    BY <1>1, <1>2, <1>3, <1>5, <2>1 DEF IsValid, Registered
  <2>2. CASE y # x
    BY <1>1, <1>3, <2>2 DEF SimulationsAreValid, IsValid, Registered
  <2> QED
    BY <2>1, <2>2
<1>7. LocksAreExclusive'
  <2>1. \A p \in Requests : p # x => Held(p)' = Held(p)
    BY <1>1, <1>3, FleetAssumption DEF Held, Requests
  <2>2. Held(x)' = {<<"state", v>>} /\ x \in Requests
    BY <1>2, <1>3, FleetAssumption DEF Held, Requests
  <2>3. \A p \in Requests : <<"state", v>> \notin Held(p)
    BY <1>5 DEF Free
  <2> QED
    BY <2>1, <2>2, <2>3 DEF LocksAreExclusive, Requests
<1>8. /\ StatesAreValid' /\ RecordsAreOfRegistered' /\ CommandsAreOneHistory'
      /\ LocksFollowTheOrder' /\ TelemetryIsAnnouncedOnce' /\ UpdatesAreOfRegistered'
  BY <1>1 DEF StatesAreValid, RecordsAreOfRegistered, CommandsAreOneHistory, LocksFollowTheOrder,
              TelemetryIsAnnouncedOnce, UpdatesAreOfRegistered, Registered
<1> QED
  BY <1>1, <1>4, <1>6, <1>7, <1>8, NothingStored

\* execute_vehicle_simulation_transition, up to the insert.
LEMMA TransitionStep ==
    ASSUME FleetInv, NEW x \in Simulators, NEW id \in CommandIds, NEW v \in Vehicles,
           NEW target \in Modes, NEW speed \in {30000, 250000}, NEW seconds \in Durations,
           NEW expected, ExecuteTransition(x, id, v, target, speed, seconds, expected)
    PROVE  FleetInv' /\ WholeStep
<1> DEFINE p == digital[v].payload
           payload == ApplySimulationMode(p, target, speed)
<1>1. p \in Payload /\ p.energy \in Int
  BY Bounds DEF ExecuteTransition, InOrder, Registered, FleetInv, FleetTypeOK, DigitalState, Payload
<1>2. target \in {"ready", "driving", "parked"}
  <2>1. p.mode \in Modes /\ target = SimulationTransitions[p.mode] /\ target # Absent
    BY <1>1, AbsentIsNoRow DEF ExecuteTransition, Payload
  <2> HIDE DEF p
  <2> QED
    BY <2>1 DEF SimulationTransitions, Modes
<1>3. payload \in Payload /\ payload.energy = p.energy
  BY <1>1, <1>2, ModeApplies
<1>4. InOrder(v) /\ Simulate(x, "transition", id, v, seconds, payload)
  BY DEF ExecuteTransition
<1>5. payload.energy <= digital[v].payload.energy
  BY <1>1, <1>3
<1> HIDE DEF payload, p
<1> QED
  BY <1>3, <1>4, <1>5, SimulateStep

\* execute_vehicle_simulation_step, up to the insert.
LEMMA SimulationStep ==
    ASSUME FleetInv, NEW x \in Simulators, NEW id \in CommandIds, NEW v \in Vehicles,
           NEW inputs \in StepInputs, NEW seconds \in Durations, NEW expected,
           ExecuteStep(x, id, v, inputs, seconds, expected)
    PROVE  FleetInv' /\ WholeStep
<1> DEFINE p == digital[v].payload
           payload == ApplySimulationStep(p, inputs, seconds)
<1>1. p \in Payload
  BY DEF ExecuteStep, InOrder, Registered, FleetInv, FleetTypeOK, DigitalState
<1>2. payload \in Payload /\ payload.energy <= p.energy
  BY <1>1, StepApplies
<1>3. InOrder(v) /\ Simulate(x, "step", id, v, seconds, payload)
  BY DEF ExecuteStep
<1> HIDE DEF payload
<1> QED
  BY <1>2, <1>3, SimulateStep

\* The insert of a transition or a step, or its end without one.
LEMMA SimulationEndStep ==
    ASSUME FleetInv, SimulationEnd
    PROVE  FleetInv' /\ WholeStep
<1> USE DEF FleetInv
<1>1. PICK x \in Simulators : InsertRecord(x) \/ AbandonSimulation(x)
  BY DEF SimulationEnd
<1> DEFINE s == simulating[x]
<1>2. /\ s # Absent /\ s \in Simulation
      /\ simulating' = [simulating EXCEPT ![x] = Absent]
      /\ UNCHANGED <<snapshots, restoring, statusVars, telemetryVars>>
  BY <1>1 DEF InsertRecord, AbandonSimulation, FleetTypeOK
<1>3. /\ s.kind \in {"transition", "step"} /\ s.id \in CommandIds /\ s.vehicle \in Vehicles
      /\ s.seconds \in Durations /\ s.seconds \in Nat /\ s.payload \in Payload
  BY <1>2, FleetAssumption DEF Simulation
<1>4. /\ Registered(s.vehicle) /\ digital[s.vehicle].version < MaxVersion
      /\ EnforceVehicleInvariants(s.payload)
      /\ s.payload.energy <= digital[s.vehicle].payload.energy
  BY <1>2 DEF SimulationsAreValid, IsValid
<1>5. CASE /\ IdFree(s.kind, s.id, s.vehicle)
           /\ Store(s.vehicle, s.payload, s.seconds)
           /\ records' = records \cup {Record(s.kind, s.id, s.vehicle, s.seconds)}
  <2>1. \E y \in Simulators :
           /\ simulating[y] # Absent /\ simulating[y].vehicle = s.vehicle
           /\ simulating[y].payload = s.payload
           /\ simulating' = [simulating EXCEPT ![y] = Absent]
    BY <1>2
  <2>2. \E kind \in {"transition", "step"}, id \in CommandIds :
           /\ s.seconds \in Durations /\ IdFree(kind, id, s.vehicle)
           /\ records' = records \cup {Record(kind, id, s.vehicle, s.seconds)}
           /\ s.payload.energy <= digital[s.vehicle].payload.energy
    BY <1>3, <1>4, <1>5
  <2> HIDE DEF s, FleetInv
  <2> QED
    BY <1>2, <1>3, <1>4, <1>5, <2>1, <2>2, StoreStep
<1>6. CASE UNCHANGED <<digital, records>>
  <2>1. /\ \A y \in Simulators : simulating'[y] = simulating[y] \/ simulating'[y] = Absent
        /\ simulating' \in [Simulators -> Simulation \cup {Absent}]
        /\ UNCHANGED <<snapshots, restoring, status, updating, telemetry, received, ingesting>>
    BY <1>2 DEF FleetTypeOK, statusVars, telemetryVars
  <2>2. FleetTypeOK' /\ SimulationsAreValid'
    BY <1>6, <2>1 DEF FleetTypeOK, SimulationsAreValid, IsValid, Registered
  <2>3. LocksAreExclusive' /\ LocksFollowTheOrder'
    BY <2>1, FewerLocks DEF LocksFollowTheOrder
  <2>4. /\ StatesAreValid' /\ RecordsAreOfRegistered' /\ CommandsAreOneHistory'
        /\ TelemetryIsAnnouncedOnce' /\ UpdatesAreOfRegistered'
    BY <1>6, <2>1 DEF StatesAreValid, RecordsAreOfRegistered, CommandsAreOneHistory,
                      TelemetryIsAnnouncedOnce, UpdatesAreOfRegistered, Registered
  <2> QED
    BY <1>6, <2>2, <2>3, <2>4, NothingStored
<1> QED
  BY <1>1, <1>5, <1>6 DEF InsertRecord, AbandonSimulation

\* create_vehicle: a first state, which no record or snapshot is about.
LEMMA CreateVehicleStep ==
    ASSUME FleetInv, NEW v \in Vehicles, CreateVehicle(v)
    PROVE  FleetInv' /\ WholeStep
<1> USE DEF FleetInv
<1> DEFINE new == [payload |-> Baseline, version |-> 1, time |-> 0]
<1>1. /\ ~Registered(v) /\ digital' = [digital EXCEPT ![v] = new]
      /\ status' = [status EXCEPT ![v] = "registered"]
      /\ UNCHANGED <<records, snapshots, restoring, simulating, updating, telemetry, received,
                      ingesting>>
  BY DEF CreateVehicle, telemetryVars
<1>2. Baseline \in Payload
  BY Bounds DEF Baseline, Payload, Modes, ChargingStatuses, Gears
<1>3. EnforceVehicleInvariants(Baseline)
  BY DEF EnforceVehicleInvariants, Baseline
<1>4. new \in DigitalState /\ new # Absent /\ new.payload = Baseline
  BY <1>2, FleetAssumption, AbsentIsNoRow DEF DigitalState
<1> HIDE DEF new
<1>5. /\ digital'[v] = new
      /\ \A w \in Vehicles : w # v => digital'[w] = digital[w]
      /\ \A w \in Vehicles : Registered(w) => w # v /\ Registered(w)'
      /\ Registered(v)'
      /\ digital' \in [Vehicles -> DigitalState \cup {Absent}]
  BY <1>1, <1>4 DEF FleetTypeOK, Registered
<1>6. FleetTypeOK'
  <2>1. "registered" \in VehicleStatuses /\ "registered" # Absent
    BY AbsentIsNoRow DEF VehicleStatuses
  <2>2. status' \in [Vehicles -> VehicleStatuses \cup {Absent}]
    BY <1>1, <2>1 DEF FleetTypeOK
  <2>3. \A w \in Vehicles : status'[w] = Absent <=> ~Registered(w)'
    BY <1>1, <1>5, <2>1 DEF FleetTypeOK, Registered
  <2> QED
    BY <1>1, <1>5, <2>2, <2>3 DEF FleetTypeOK
<1>7. StatesAreValid'
  <2>1. \A w \in Vehicles : Registered(w)' => EnforceVehicleInvariants(digital'[w].payload)
    BY <1>3, <1>4, <1>5 DEF StatesAreValid, Registered
  <2>2. \A n \in Snapshots : snapshots[n] # Absent =>
          \A m \in Members : Registered(m)' /\ EnforceVehicleInvariants(snapshots[n][m].payload)
    BY <1>5, FleetAssumption DEF StatesAreValid
  <2> QED
    BY <1>1, <2>1, <2>2 DEF StatesAreValid
<1>8. RecordsAreOfRegistered' /\ CommandsAreOneHistory'
  <2>1. \A r \in records : r.vehicle \in Vehicles /\ Registered(r.vehicle)'
                           /\ digital'[r.vehicle] = digital[r.vehicle]
    BY <1>5 DEF RecordsAreOfRegistered, FleetTypeOK, SimulationRecord
  <2> QED
    BY <1>1, <2>1 DEF RecordsAreOfRegistered, CommandsAreOneHistory
<1>9. /\ LocksFollowTheOrder' /\ LocksAreExclusive' /\ TelemetryIsAnnouncedOnce'
      /\ UpdatesAreOfRegistered' /\ SimulationsAreValid'
  <2>1. LocksFollowTheOrder' /\ LocksAreExclusive' /\ TelemetryIsAnnouncedOnce'
    BY <1>1, FewerLocks DEF LocksFollowTheOrder, TelemetryIsAnnouncedOnce
  <2>2. UpdatesAreOfRegistered'
    BY <1>1, <1>5 DEF UpdatesAreOfRegistered, FleetTypeOK, StatusUpdate
  <2>3. \A x \in Simulators : simulating[x] # Absent => simulating[x].vehicle \in Vehicles
    BY DEF FleetTypeOK, Simulation
  <2>4. SimulationsAreValid'
    BY <1>1, <1>5, <2>3 DEF SimulationsAreValid, IsValid
  <2> QED
    BY <2>1, <2>2, <2>4
<1>10. WholeStep
  <2>1. \A w : w \in Vehicles => ~Changed(w)
    BY <1>1, <1>5 DEF Changed
  <2>2. \A x \in Simulators : simulating[x] # Absent => simulating[x].vehicle \in Vehicles
    BY DEF FleetTypeOK, Simulation
  <2> QED
    BY <1>1, <2>1, <2>2 DEF WholeStep
<1> QED
  BY <1>6, <1>7, <1>8, <1>9, <1>10

\* capture_simulation_snapshot reads valid states of the members.
LEMMA CaptureStep ==
    ASSUME FleetInv, NEW n \in Snapshots, CaptureSnapshot(n)
    PROVE  FleetInv' /\ WholeStep
<1> USE DEF FleetInv
<1> DEFINE new == [m \in Members |-> digital[m]]
<1>1. /\ snapshots[n] = Absent /\ \A m \in Members : Registered(m)
      /\ snapshots' = [snapshots EXCEPT ![n] = new]
      /\ UNCHANGED <<digital, records, restoring, simulating, status, updating, telemetry, received,
                      ingesting>>
  BY DEF CaptureSnapshot, statusVars, telemetryVars
<1>2. new \in [Members -> DigitalState] /\ new # Absent
  BY <1>1, FleetAssumption, AbsentIsNoRow DEF FleetTypeOK, Registered
<1>3. \A m \in Members : new[m] = digital[m] /\ m \in Vehicles
  BY FleetAssumption
<1> HIDE DEF new
<1>4. FleetTypeOK'
  BY <1>1, <1>2 DEF FleetTypeOK, Registered
<1>5. /\ snapshots'[n] = new
      /\ \A k \in Snapshots : k # n => snapshots'[k] = snapshots[k]
  BY <1>1 DEF FleetTypeOK
<1>6. StatesAreValid'
  BY <1>1, <1>3, <1>5 DEF StatesAreValid, Registered
<1>7. LocksFollowTheOrder'
  BY <1>1, <1>5 DEF LocksFollowTheOrder, FleetTypeOK, Restore
<1>8. /\ RecordsAreOfRegistered' /\ CommandsAreOneHistory' /\ LocksAreExclusive'
      /\ TelemetryIsAnnouncedOnce' /\ UpdatesAreOfRegistered' /\ SimulationsAreValid'
  BY <1>1, FewerLocks
     DEF RecordsAreOfRegistered, CommandsAreOneHistory, TelemetryIsAnnouncedOnce,
         UpdatesAreOfRegistered, SimulationsAreValid, IsValid, Registered
<1> QED
  BY <1>1, <1>4, <1>6, <1>7, <1>8, NothingStored

\* No two rows of the members have one rank.
LEMMA RanksOfRows ==
    /\ \A row \in RowsOf(Members) : RowRank(row) \in Nat
    /\ \A row, other \in RowsOf(Members) : RowRank(row) = RowRank(other) => row = other
<1>1. ASSUME NEW row \in RowsOf(Members)
      PROVE  /\ row = <<row[1], row[2]>> /\ row[1] \in {"vehicle", "state"}
             /\ row[2] \in Vehicles /\ VehicleRank[row[2]] \in Nat
             /\ row[1] = "state" => RowRank(row) = 2 * VehicleRank[row[2]] + 1
             /\ row[1] = "vehicle" => RowRank(row) = 2 * VehicleRank[row[2]]
  BY FleetAssumption, RanksAreAnOrder DEF RowsOf, RowRank
<1>2. ASSUME NEW row \in RowsOf(Members) PROVE RowRank(row) \in Nat
  BY <1>1
<1>3. ASSUME NEW row \in RowsOf(Members), NEW other \in RowsOf(Members),
             RowRank(row) = RowRank(other)
      PROVE  row = other
  <2>1. VehicleRank[row[2]] = VehicleRank[other[2]] /\ row[1] = other[1]
    BY <1>1, <1>3
  <2>2. row[2] = other[2]
    BY <1>1, <2>1, RanksAreAnOrder
  <2> QED
    BY <1>1, <2>1, <2>2
<1> QED
  BY <1>2, <1>3

\* restore_simulation_snapshot before it writes: it begins, locks the next
\* row, or loses its connection.
LEMMA RestoringStep ==
    ASSUME FleetInv, NEW r \in Restores,
           \/ \E n \in Snapshots : BeginRestore(r, n)
           \/ LockForRestore(r)
           \/ AbandonRestore(r)
    PROVE  FleetInv' /\ WholeStep
<1> USE DEF FleetInv
<1>1. UNCHANGED <<digital, records, snapshots, simulating, status, updating, telemetry, received,
                  ingesting>>
  BY DEF BeginRestore, LockForRestore, AbandonRestore, statusVars, telemetryVars
<1>2. PICK new \in Restore \cup {Absent} :
         /\ restoring' = [restoring EXCEPT ![r] = new]
         /\ new # Absent =>
              /\ snapshots[new.snapshot] # Absent
              /\ new.locked \subseteq RowsOf(Members)
              /\ \A row \in new.locked, other \in RowsOf(Members) \ new.locked :
                   RowRank(row) < RowRank(other)
              /\ \A row \in new.locked, p \in Requests \ {r} : row \notin Held(p)
  <2>1. CASE AbandonRestore(r)
    BY <2>1 DEF AbandonRestore
  <2>2. ASSUME NEW n \in Snapshots, BeginRestore(r, n)
        PROVE  \E new \in Restore \cup {Absent} :
                 /\ restoring' = [restoring EXCEPT ![r] = new]
                 /\ new # Absent =>
                      /\ snapshots[new.snapshot] # Absent
                      /\ new.locked \subseteq RowsOf(Members)
                      /\ \A row \in new.locked, other \in RowsOf(Members) \ new.locked :
                           RowRank(row) < RowRank(other)
                      /\ \A row \in new.locked, p \in Requests \ {r} : row \notin Held(p)
    <3> DEFINE new == [snapshot |-> n, locked |-> {}]
    <3>1. new \in Restore /\ new.snapshot = n /\ new.locked = {}
      BY DEF Restore
    <3>2. restoring' = [restoring EXCEPT ![r] = new] /\ snapshots[n] # Absent
      BY <2>2 DEF BeginRestore
    <3> HIDE DEF new
    <3> QED
      BY <3>1, <3>2
  <2>3. CASE LockForRestore(r)
    <3>1. restoring[r] # Absent /\ restoring[r] \in Restore
      BY <2>3 DEF LockForRestore, FleetTypeOK
    <3>2. PICK next \in NextRow(r) :
             Free(next) /\ restoring' = [restoring EXCEPT ![r].locked = @ \cup {next}]
      BY <2>3 DEF LockForRestore
    <3> DEFINE old == restoring[r]
               new == [old EXCEPT !.locked = @ \cup {next}]
    <3>3. /\ snapshots[old.snapshot] # Absent /\ old.locked \subseteq RowsOf(Members)
          /\ snapshots[old.snapshot] \in [Members -> DigitalState]
          /\ \A row \in old.locked, other \in RowsOf(Members) \ old.locked :
               RowRank(row) < RowRank(other)
      BY <3>1 DEF LocksFollowTheOrder, FleetTypeOK, Restore
    <3>4. /\ next \in RowsOf(Members) \ old.locked
          /\ \A other \in RowsOf(Members) \ old.locked : RowRank(next) <= RowRank(other)
      BY <3>2, <3>3 DEF NextRow, Unlocked
    <3>5. restoring' = [restoring EXCEPT ![r] = new]
      BY <3>2
    <3>6. new \in Restore /\ new.snapshot = old.snapshot /\ new.locked = old.locked \cup {next}
      <4>1. RowsOf(Members) \subseteq Rows
        BY FleetAssumption DEF RowsOf, Rows
      <4> QED
        BY <3>1, <3>3, <3>4, <4>1 DEF Restore
    <3> HIDE DEF new, old
    <3>7. \A row \in new.locked, other \in RowsOf(Members) \ new.locked : RowRank(row) < RowRank(other)
      <4> SUFFICES ASSUME NEW other \in RowsOf(Members) \ new.locked
                   PROVE  RowRank(next) < RowRank(other)
        BY <3>3, <3>6
      <4>1. other \in RowsOf(Members) \ old.locked /\ other # next
        BY <3>6
      <4>2. RowRank(next) <= RowRank(other) /\ RowRank(next) # RowRank(other)
        BY <3>4, <4>1, RanksOfRows
      <4>3. RowRank(next) \in Nat /\ RowRank(other) \in Nat
        BY <3>4, <4>1, RanksOfRows
      <4> QED
        BY <4>2, <4>3
    <3>8. \A row \in new.locked, p \in Requests \ {r} : row \notin Held(p)
      <4>1. Held(r) = old.locked /\ r \in Requests
        BY <3>1, HeldByRestore DEF old
      <4>2. \A p \in Requests \ {r} : next \notin Held(p)
        BY <3>2 DEF Free
      <4>3. \A p \in Requests \ {r} : Held(r) \cap Held(p) = {}
        BY <4>1 DEF LocksAreExclusive
      <4>4. new.locked = Held(r) \cup {next}
        BY <3>6, <4>1
      <4> QED
        BY ONLY <4>2, <4>3, <4>4
    <3>9. /\ new \in Restore \cup {Absent} /\ snapshots[new.snapshot] # Absent
          /\ new.locked \subseteq RowsOf(Members)
      BY <3>3, <3>4, <3>6
    <3> QED
      BY ONLY <3>5, <3>7, <3>8, <3>9
  <2> QED
    BY <2>1, <2>2, <2>3
<1>3. /\ restoring'[r] = new
      /\ \A s \in Restores : s # r => restoring'[s] = restoring[s]
      /\ restoring' \in [Restores -> Restore \cup {Absent}]
  BY <1>2 DEF FleetTypeOK
<1>4. FleetTypeOK'
  BY <1>1, <1>3 DEF FleetTypeOK, Registered
<1>5. LocksFollowTheOrder'
  BY <1>1, <1>2, <1>3 DEF LocksFollowTheOrder
<1>6. LocksAreExclusive'
  <2>1. \A p \in Requests : p # r => Held(p)' = Held(p)
    BY <1>1, <1>3, FleetAssumption DEF Held, Requests
  <2>2. Held(r)' = (IF new = Absent THEN {} ELSE new.locked) /\ r \in Requests
    BY <1>3 DEF Held, Requests
  <2>3. \A p \in Requests : p # r => Held(p) \cap Held(r)' = {}
    BY <1>2, <2>2
  <2> QED
    BY <2>1, <2>3 DEF LocksAreExclusive, Requests
<1>7. /\ StatesAreValid' /\ RecordsAreOfRegistered' /\ CommandsAreOneHistory'
      /\ TelemetryIsAnnouncedOnce' /\ UpdatesAreOfRegistered' /\ SimulationsAreValid'
  BY <1>1 DEF StatesAreValid, RecordsAreOfRegistered, CommandsAreOneHistory,
              TelemetryIsAnnouncedOnce, UpdatesAreOfRegistered, SimulationsAreValid, IsValid, Registered
<1> QED
  BY <1>1, <1>4, <1>5, <1>6, <1>7, NothingStored

\* restore_simulation_snapshot writes every vehicle of the snapshot, each of
\* them under its lock, and moves every version on.
LEMMA RestoreStep ==
    ASSUME FleetInv, NEW r \in Restores, RestoreSnapshot(r)
    PROVE  FleetInv' /\ WholeStep
<1> USE DEF FleetInv
<1> DEFINE saved == snapshots[restoring[r].snapshot]
<1>0. /\ restoring[r] # Absent /\ restoring[r] \in Restore
      /\ restoring[r].snapshot \in Snapshots
      /\ saved # Absent /\ saved \in [Members -> DigitalState]
  BY DEF RestoreSnapshot, FleetTypeOK, LocksFollowTheOrder, Restore
<1>1. /\ restoring[r].locked = RowsOf(Members)
      /\ \A v \in Members : digital[v].version < MaxVersion
      /\ digital' = [v \in Vehicles |->
            IF v \in Members
            THEN [digital[v] EXCEPT !.payload = saved[v].payload, !.time = saved[v].time,
                                    !.version = @ + 1]
            ELSE digital[v]]
      /\ restoring' = [restoring EXCEPT ![r] = Absent]
      /\ UNCHANGED <<records, snapshots, simulating, status, updating, telemetry, received, ingesting>>
  BY <1>0 DEF RestoreSnapshot, statusVars, telemetryVars
<1>2. \A v \in Members : /\ v \in Vehicles /\ Registered(v) /\ digital[v] \in DigitalState
                         /\ digital[v].version \in Nat /\ saved[v] \in DigitalState
                         /\ EnforceVehicleInvariants(saved[v].payload)
  BY <1>0, FleetAssumption DEF StatesAreValid, FleetTypeOK, Registered, DigitalState
<1> HIDE DEF saved
<1>3. ASSUME NEW v \in Members
      PROVE  /\ digital'[v] \in DigitalState /\ digital'[v] # Absent
             /\ digital'[v].payload = saved[v].payload /\ digital'[v].time = saved[v].time
             /\ digital'[v].version = digital[v].version + 1
  <2> DEFINE new == [digital[v] EXCEPT !.payload = saved[v].payload, !.time = saved[v].time,
                                       !.version = @ + 1]
  <2>1. digital'[v] = new
    BY <1>1, <1>2, Zenon
  <2>a. digital[v].version < MaxVersion
    BY <1>1
  <2>2. /\ saved[v].payload \in Payload /\ saved[v].time \in Nat
        /\ digital[v].version + 1 \in 1..MaxVersion /\ digital[v] \in DigitalState
    BY <1>2, <2>a, FleetAssumption DEF DigitalState
  <2>3. new \in DigitalState
    BY <2>2, Zenon DEF DigitalState
  <2>4. /\ new.payload = saved[v].payload /\ new.time = saved[v].time
        /\ new.version = digital[v].version + 1
    BY <1>2 DEF DigitalState
  <2> HIDE DEF new
  <2> QED
    BY <2>1, <2>3, <2>4, AbsentIsNoRow
<1>4. \A v \in Vehicles : v \notin Members => digital'[v] = digital[v]
  BY <1>1
<1>5. /\ \A v \in Vehicles : Registered(v)' <=> Registered(v)
      /\ digital' \in [Vehicles -> DigitalState \cup {Absent}]
  BY <1>1, <1>2, <1>3, <1>4 DEF FleetTypeOK, Registered
<1>6. /\ restoring'[r] = Absent
      /\ \A s \in Restores : s # r => restoring'[s] = restoring[s]
      /\ restoring' \in [Restores -> Restore \cup {Absent}]
  BY <1>1 DEF FleetTypeOK
<1>s. \A x \in Simulators : simulating[x] # Absent =>
        simulating[x].vehicle \in Vehicles /\ simulating[x].vehicle \notin Members
  <2>1. \A m \in Members : <<"state", m>> \in restoring[r].locked
    BY <1>1 DEF RowsOf
  <2> QED
    BY <1>0, <2>1, SimulatedStates DEF FleetTypeOK, Simulation
<1>7. FleetTypeOK' /\ SimulationsAreValid'
  BY <1>1, <1>4, <1>5, <1>6, <1>s DEF FleetTypeOK, SimulationsAreValid, IsValid
<1>8. StatesAreValid'
  BY <1>1, <1>2, <1>3, <1>4, <1>5, FleetAssumption DEF StatesAreValid
<1>9. RecordsAreOfRegistered' /\ CommandsAreOneHistory'
  <2>1. ASSUME NEW q \in records
        PROVE  /\ Registered(q.vehicle)' /\ q.version <= digital'[q.vehicle].version
               /\ q.version = digital'[q.vehicle].version => q.time = digital'[q.vehicle].time
    <3>1. /\ q.vehicle \in Vehicles /\ q.version \in Nat /\ Registered(q.vehicle)
          /\ q.version <= digital[q.vehicle].version
      BY FleetAssumption
         DEF FleetTypeOK, SimulationRecord, RecordsAreOfRegistered, CommandsAreOneHistory
    <3>2. CASE q.vehicle \in Members
      BY <1>2, <1>3, <1>5, <3>1, <3>2
    <3>3. CASE q.vehicle \notin Members
      BY <1>4, <1>5, <3>1, <3>3 DEF CommandsAreOneHistory
    <3> QED
      BY <3>2, <3>3
  <2> QED
    BY <1>1, <2>1 DEF RecordsAreOfRegistered, CommandsAreOneHistory
<1>10. /\ LocksFollowTheOrder' /\ LocksAreExclusive' /\ TelemetryIsAnnouncedOnce'
       /\ UpdatesAreOfRegistered'
  <2>1. UNCHANGED <<snapshots, simulating, updating, telemetry, received>>
    BY <1>1
  <2>2. LocksFollowTheOrder' /\ TelemetryIsAnnouncedOnce'
    BY <1>6, <2>1 DEF LocksFollowTheOrder, TelemetryIsAnnouncedOnce
  <2>3. LocksAreExclusive'
    BY <1>6, <2>1, FewerLocks
  <2>4. UpdatesAreOfRegistered'
    BY <1>5, <2>1 DEF UpdatesAreOfRegistered, FleetTypeOK, StatusUpdate
  <2> QED
    BY <2>2, <2>3, <2>4
<1>11. WholeStep
  <2>1. Restored(restoring[r].snapshot)
    <3> SUFFICES ASSUME NEW m \in Members
                 PROVE  /\ Changed(m) /\ digital'[m].payload = saved[m].payload
                        /\ digital'[m].time = saved[m].time
      BY DEF Restored, saved
    <3> QED
      BY <1>2, <1>3 DEF Changed
  <2>2. \A v \in Vehicles : Changed(v) => v \in Members
    BY <1>4 DEF Changed
  <2>3. \A s \in Restores : restoring[s] # Absent =>
          \A v : <<"state", v>> \in restoring[s].locked => s = r \/ v \notin Members
    <3>1. \A m \in Members : <<"state", m>> \in Held(r)
      BY <1>0, <1>1, HeldByRestore DEF RowsOf
    <3> QED
      BY <3>1, HeldByRestore DEF LocksAreExclusive
  <2> QED
    BY <1>0, <1>1, <1>3, <1>s, <2>1, <2>2, <2>3 DEF WholeStep, saved
<1> QED
  BY <1>7, <1>8, <1>9, <1>10, <1>11

\* The status of a vehicle in the catalogue, which no state depends on.
LEMMA StatusStep ==
    ASSUME FleetInv, StatusCommand
    PROVE  FleetInv' /\ WholeStep
<1> USE DEF FleetInv
<1>1. UNCHANGED <<digital, records, snapshots, restoring, simulating, telemetry, received, ingesting>>
  BY DEF StatusCommand, ReadStatus, UpdateVehicleStatus, stateVars, telemetryVars
<1>2. FleetTypeOK' /\ UpdatesAreOfRegistered'
  <2>1. ASSUME NEW q \in StatusRequests, NEW v \in Vehicles, NEW new \in VehicleStatuses,
               ReadStatus(q, v, new)
        PROVE  FleetTypeOK' /\ UpdatesAreOfRegistered'
    <3> DEFINE u == [vehicle |-> v, read |-> status[v], new |-> new]
    <3>1. u \in StatusUpdate /\ u.vehicle = v
      BY <2>1 DEF ReadStatus, FleetTypeOK, StatusUpdate
    <3>2. updating' = [updating EXCEPT ![q] = u] /\ UNCHANGED status /\ Registered(v)
      BY <2>1 DEF ReadStatus
    <3> HIDE DEF u
    <3> QED
      BY <1>1, <3>1, <3>2 DEF FleetTypeOK, UpdatesAreOfRegistered, Registered
  <2>2. ASSUME NEW q \in StatusRequests, UpdateVehicleStatus(q)
        PROVE  FleetTypeOK' /\ UpdatesAreOfRegistered'
    <3>1. updating[q] \in StatusUpdate /\ Registered(updating[q].vehicle)
      BY <2>2 DEF UpdateVehicleStatus, FleetTypeOK, UpdatesAreOfRegistered
    <3>2. /\ status' \in [Vehicles -> VehicleStatuses \cup {Absent}]
          /\ \A v \in Vehicles : status'[v] = Absent => status[v] = Absent
      BY <2>2, <3>1, AbsentIsNoRow DEF UpdateVehicleStatus, FleetTypeOK, StatusUpdate
    <3>3. \A v \in Vehicles : status[v] = Absent => status'[v] = Absent
      <4>1. \A v \in Vehicles : v # updating[q].vehicle => status'[v] = status[v]
        BY <2>2, <3>1 DEF UpdateVehicleStatus, FleetTypeOK
      <4> QED
        BY <3>1, <4>1 DEF FleetTypeOK
    <3> QED
      BY <1>1, <2>2, <3>2, <3>3 DEF UpdateVehicleStatus, FleetTypeOK, UpdatesAreOfRegistered, Registered
  <2> QED
    BY <2>1, <2>2 DEF StatusCommand
<1>3. /\ StatesAreValid' /\ RecordsAreOfRegistered' /\ CommandsAreOneHistory'
      /\ LocksFollowTheOrder' /\ LocksAreExclusive' /\ TelemetryIsAnnouncedOnce'
      /\ SimulationsAreValid'
  BY <1>1, FewerLocks
     DEF StatesAreValid, RecordsAreOfRegistered, CommandsAreOneHistory, LocksFollowTheOrder,
         TelemetryIsAnnouncedOnce, SimulationsAreValid, IsValid, Registered
<1> QED
  BY <1>1, <1>2, <1>3, NothingStored

\* ingest_telemetry: of the requests that found no reading, one inserts it.
LEMMA TelemetryStep ==
    ASSUME FleetInv, TelemetryCommand
    PROVE  FleetInv' /\ WholeStep
<1> USE DEF FleetInv
<1>1. UNCHANGED <<digital, records, snapshots, restoring, simulating, status, updating>>
  BY DEF TelemetryCommand, ReadTelemetry, IngestTelemetry, stateVars, statusVars
<1>2. FleetTypeOK' /\ TelemetryIsAnnouncedOnce'
  <2>1. ASSUME NEW i \in Ingests, NEW e \in Events, NEW v \in Vehicles, NEW value \in Values,
               ReadTelemetry(i, e, v, value)
        PROVE  FleetTypeOK' /\ TelemetryIsAnnouncedOnce'
    <3>1. [event |-> e, vehicle |-> v, value |-> value] \in Reading
      BY DEF Reading
    <3> QED
      BY <1>1, <2>1, <3>1 DEF ReadTelemetry, FleetTypeOK, TelemetryIsAnnouncedOnce, Registered
  <2>2. ASSUME NEW i \in Ingests, IngestTelemetry(i)
        PROVE  FleetTypeOK' /\ TelemetryIsAnnouncedOnce'
    <3> DEFINE e == ingesting[i].event
    <3>1. ingesting[i] \in Reading /\ ingesting[i] # Absent /\ e \in Events
      BY <2>2 DEF IngestTelemetry, FleetTypeOK, Reading
    <3>2. ingesting' = [ingesting EXCEPT ![i] = Absent]
      BY <2>2 DEF IngestTelemetry
    <3>3. CASE UNCHANGED <<telemetry, received>>
      BY <1>1, <3>2, <3>3 DEF FleetTypeOK, TelemetryIsAnnouncedOnce, Registered
    <3>4. CASE /\ telemetry[e] = Absent
               /\ telemetry' = [telemetry EXCEPT ![e] = ingesting[i]]
               /\ received' = [received EXCEPT ![e] = @ + 1]
      <4>1. FleetTypeOK'
        BY <1>1, <3>1, <3>2, <3>4 DEF FleetTypeOK, Registered
      <4>2. TelemetryIsAnnouncedOnce'
        BY <3>1, <3>4 DEF FleetTypeOK, TelemetryIsAnnouncedOnce
      <4> QED
        BY <4>1, <4>2
    <3> QED
      BY <2>2, <3>3, <3>4 DEF IngestTelemetry
  <2> QED
    BY <2>1, <2>2 DEF TelemetryCommand
<1>3. /\ StatesAreValid' /\ RecordsAreOfRegistered' /\ CommandsAreOneHistory'
      /\ LocksFollowTheOrder' /\ LocksAreExclusive' /\ UpdatesAreOfRegistered'
      /\ SimulationsAreValid'
  BY <1>1, FewerLocks
     DEF StatesAreValid, RecordsAreOfRegistered, CommandsAreOneHistory, LocksFollowTheOrder,
         UpdatesAreOfRegistered, SimulationsAreValid, IsValid, Registered
<1> QED
  BY <1>1, <1>2, <1>3, NothingStored

LEMMA SessionStep ==
    ASSUME FleetInv, SessionCommand
    PROVE  FleetInv' /\ WholeStep
BY CaptureStep, RestoringStep, RestoreStep DEF SessionCommand

LEMMA StateStep ==
    ASSUME FleetInv, NEW v \in Vehicles, NEW ids \in SUBSET CommandIds, NEW versions,
           StateCommand(v) \/ SimulationCommand(v, ids, versions)
    PROVE  FleetInv' /\ WholeStep
BY CreateVehicleStep, ReplaceStep, TransitionStep, SimulationStep
   DEF StateCommand, SimulationCommand

-----------------------------------------------------------------------------
(* The vehicles *)

\* The inductive invariant of the whole.
IInv == DeliveryInv /\ FleetInv /\ workload \in Workloads

LEMMA InitHolds == Init => IInv
BY DeliveryInitHolds, FleetInitHolds DEF Init, IInv

\* Whichever part a behaviour serves, the other one stands still.
LEMMA StepHolds ==
    ASSUME IInv, [Next]_vars
    PROVE  IInv' /\ TerminalStep /\ WholeStep
<1>1. ASSUME UNCHANGED fleetVars
      PROVE  FleetInv' /\ WholeStep
  <2>1. UNCHANGED <<digital, records, snapshots, restoring, status, updating, telemetry, received,
                    ingesting, simulating>>
    BY <1>1 DEF fleetVars, stateVars, statusVars, telemetryVars
  <2>2. FleetInv'
    BY <2>1, FewerLocks
       DEF IInv, FleetInv, FleetTypeOK, StatesAreValid, SimulationsAreValid, IsValid, RecordsAreOfRegistered,
           UpdatesAreOfRegistered, CommandsAreOneHistory, LocksFollowTheOrder,
           TelemetryIsAnnouncedOnce, Registered
  <2> QED
    BY <2>1, <2>2, NothingStored DEF IInv
<1>2. CASE UNCHANGED vars
  BY <1>1, <1>2, DeliveryStepHolds DEF vars, IInv
<1>3. CASE DeliveryCommand /\ UNCHANGED fleetVars /\ UNCHANGED workload
  BY <1>1, <1>3, DeliveryStepHolds DEF IInv
<1>4. CASE /\ UNCHANGED commandVars /\ UNCHANGED workload
           /\ \/ \E v \in Vehicles, ids \in SUBSET CommandIds, versions \in {1..MaxVersion, 1..SessionVersions} :
                   StateCommand(v) \/ SimulationCommand(v, ids, versions)
              \/ SimulationEnd \/ SessionCommand \/ StatusCommand \/ TelemetryCommand
  <2>1. IInv => FleetInv /\ DeliveryInv
    BY DEF IInv
  <2>2. FleetInv' /\ WholeStep
    BY <1>4, <2>1, StateStep, SimulationEndStep, SessionStep, StatusStep, TelemetryStep
  <2> QED
    BY <1>4, <2>1, <2>2, DeliveryStepHolds DEF IInv
<1>5. CASE Next
  <2>1. /\ \A v \in Simulated : v \in Vehicles
        /\ SessionIds \in SUBSET CommandIds /\ CommandIds \in SUBSET CommandIds
    BY WorkloadsAreKnown
  <2>2. \A v \in Vehicles : CreateVehicle(v) => StateCommand(v)
    BY DEF StateCommand
  <2> QED
    BY <1>3, <1>4, <1>5, <2>1, <2>2 DEF Next
<1> QED
  BY <1>2, <1>5

\* The strengthening of everything below.
THEOREM Invariance == Spec => []IInv
<1>1. IInv /\ [Next]_vars => IInv'
  BY StepHolds
<1> QED
  BY <1>1, InitHolds, PTL DEF Spec

\* claim_next_vehicle_command never hands a command out while an earlier lease
\* of it runs, and each attempt and outcome is announced exactly once.
THEOREM DeliverySafe == Spec => []DeliveriesAreExclusive
<1>1. IInv => DeliveriesAreExclusive
  BY DeliveryIsExclusive DEF IInv
<1> QED
  BY <1>1, Invariance, PTL

\* acknowledge_vehicle_command is final: no later claim or acknowledgement
\* reopens or redelivers a terminal command.
THEOREM TerminalForEver == Spec => TerminalStays
<1>1. IInv /\ [Next]_vars => [TerminalStep]_commandVars
  BY StepHolds
<1>2. Spec => [][TerminalStep]_commandVars
  BY <1>1, Invariance, PTL DEF Spec
<1> QED
  BY <1>2 DEF TerminalStays, TerminalStep

\* Every family of subsets of a finite set has a minimal member.
LEMMA MinimalSubset ==
    ASSUME NEW S, IsFiniteSet(S), NEW C \in SUBSET SUBSET S, C # {}
    PROVE  \E T \in C : \A U \in C : U \subseteq T => U = T
<1> DEFINE Sizes == {Cardinality(T) : T \in C}
<1>1. \A T \in C : IsFiniteSet(T) /\ Cardinality(T) \in Nat
  BY FS_Subset, FS_CardinalityType
<1>2. Sizes \subseteq Nat /\ Sizes # {}
  BY <1>1
<1>3. PICK n \in Sizes : \A m \in Sizes : ~(<<m, n>> \in OpToRel(<, Nat))
  <2> HIDE DEF Sizes
  <2> QED
    BY ONLY <1>2, NatLessThanWellFounded, WFMin
<1>4. \A m \in Sizes : ~(m < n)
  BY <1>2, <1>3 DEF OpToRel
<1>5. PICK T \in C : Cardinality(T) = n
  BY <1>3
<1>6. ASSUME NEW U \in C, U \subseteq T
      PROVE  U = T
  <2>1. ~(Cardinality(U) < Cardinality(T)) /\ Cardinality(U) \in Nat /\ Cardinality(T) \in Nat
    BY <1>1, <1>4, <1>5
  <2>2. Cardinality(U) <= Cardinality(T) /\ (Cardinality(U) = Cardinality(T) => T = U)
    BY ONLY <1>1, <1>6, FS_Subset
  <2> QED
    BY <2>1, <2>2
<1> QED
  BY <1>5, <1>6

\* The rows a restore still has to lock, and those of one that it waits for.
LEMMA RowsLeft ==
    ASSUME FleetInv, NEW r \in Restores, restoring[r] # Absent
    PROVE  /\ Unlocked(r) = RowsOf(Members) \ restoring[r].locked
           /\ restoring[r].locked \subseteq RowsOf(Members)
           /\ \A row \in restoring[r].locked, other \in Unlocked(r) : RowRank(row) < RowRank(other)
           /\ NextRow(r) \subseteq Unlocked(r)
<1>1. /\ restoring[r] \in Restore /\ snapshots[restoring[r].snapshot] # Absent
      /\ snapshots[restoring[r].snapshot] \in [Members -> DigitalState]
  BY DEF FleetInv, FleetTypeOK, LocksFollowTheOrder, Restore
<1>2. Unlocked(r) = RowsOf(Members) \ restoring[r].locked
  BY <1>1 DEF Unlocked
<1> QED
  BY <1>2 DEF FleetInv, LocksFollowTheOrder, NextRow

\* A restore that waits for another one has strictly more rows to lock.
LEMMA WaitingHasMoreLeft ==
    ASSUME FleetInv, NEW r \in Restores, NEW s \in Restores, WaitsFor(r, s)
    PROVE  Unlocked(s) \subseteq Unlocked(r) /\ Unlocked(s) # Unlocked(r)
<1>1. restoring[r] # Absent /\ restoring[s] # Absent
  BY DEF WaitsFor, Wanted, Held
<1>2. PICK row \in NextRow(r) : row \in restoring[s].locked
  BY <1>1 DEF WaitsFor, Wanted, Held
<1>3. row \in Unlocked(r) /\ row \notin Unlocked(s)
  BY <1>1, <1>2, RowsLeft
<1>4. ASSUME NEW other \in Unlocked(s)
      PROVE  other \in Unlocked(r)
  <2>1. other \in RowsOf(Members) /\ row \in RowsOf(Members) /\ RowRank(row) < RowRank(other)
    BY <1>1, <1>2, RowsLeft
  <2>2. RowRank(row) \in Nat /\ RowRank(other) \in Nat
    BY <2>1, RanksOfRows
  <2>3. other \in restoring[r].locked => RowRank(other) < RowRank(row)
    BY <1>1, <1>3, RowsLeft
  <2> QED
    BY <1>1, <2>1, <2>2, <2>3, RowsLeft
<1> QED
  BY <1>3, <1>4

\* Whoever has the row of `vehicles` that a simulation needs is a restore, and
\* needs the state that the simulation has.
LEMMA WaitingForEachOther ==
    ASSUME FleetInv, NEW x \in Simulators, NEW q \in Requests, WaitsFor(x, q)
    PROVE  q \in Restores /\ WaitsFor(q, x)
<1> DEFINE v == simulating[x].vehicle
<1>1. /\ simulating[x] # Absent /\ x \in Requests /\ x \notin Restores
      /\ <<"vehicle", v>> \in Held(q) /\ Held(x) = {<<"state", v>>}
  BY HeldBySimulation DEF WaitsFor, Wanted
<1>2. q \in Restores /\ restoring[q] # Absent /\ <<"vehicle", v>> \in restoring[q].locked
  <2>1. q \notin Simulators
    <3> SUFFICES ASSUME q \in Simulators PROVE FALSE
      OBVIOUS
    <3>1. Held(q) = {} \/ Held(q) = {<<"state", simulating[q].vehicle>>}
      BY HeldBySimulation
    <3> QED
      BY <1>1, <3>1
  <2> QED
    BY <1>1, <2>1, HeldByRestore DEF Requests
<1>3. <<"state", v>> \notin restoring[q].locked
  <2>1. Held(q) \cap Held(x) = {}
    BY <1>1, <1>2 DEF FleetInv, LocksAreExclusive
  <2> QED
    BY <1>1, <1>2, <2>1, HeldByRestore
<1>4. v \in Members /\ <<"state", v>> \in Unlocked(q)
  BY <1>2, <1>3, RowsLeft DEF RowsOf
<1>5. /\ VehicleRank[v] \in Nat /\ RowRank(<<"vehicle", v>>) = 2 * VehicleRank[v]
      /\ RowRank(<<"state", v>>) = 2 * VehicleRank[v] + 1
  BY <1>4, FleetAssumption, RanksAreAnOrder DEF RowRank
<1> HIDE DEF v
<1>6. ASSUME NEW other \in Unlocked(q)
      PROVE  RowRank(<<"state", v>>) <= RowRank(other)
  <2>1. RowRank(<<"vehicle", v>>) < RowRank(other) /\ RowRank(other) \in Nat
    BY <1>2, RowsLeft, RanksOfRows
  <2> QED
    BY <1>5, <2>1
<1>7. <<"state", v>> \in NextRow(q)
  BY <1>4, <1>6 DEF NextRow
<1> QED
  BY <1>1, <1>2, <1>7 DEF WaitsFor, Wanted

\* Requests that wait for one another without a transition or a step would
\* have ever fewer rows to lock.
LEMMA DeadlocksAreJoined == FleetInv => DeadlocksJoinARestoreAndAStep
<1> SUFFICES ASSUME FleetInv, NEW requests \in SUBSET Requests, Deadlocked(requests)
             PROVE  \E r \in requests \cap Restores, x \in requests \cap Simulators :
                       WaitsFor(r, x) /\ WaitsFor(x, r)
  BY DEF DeadlocksJoinARestoreAndAStep
<1>1. requests # {} /\ \A p \in requests : \E q \in requests : WaitsFor(p, q)
  BY DEF Deadlocked
<1>2. ASSUME NEW x \in requests, x \in Simulators
      PROVE  \E r \in requests \cap Restores : WaitsFor(r, x) /\ WaitsFor(x, r)
  BY <1>1, <1>2, WaitingForEachOther
<1>3. ASSUME requests \subseteq Restores
      PROVE  FALSE
  <2> DEFINE Left == {Unlocked(p) : p \in requests}
  <2>1. IsFiniteSet(RowsOf(Members))
    <3>1. IsFiniteSet({"vehicle"}) /\ IsFiniteSet({"state"})
      BY FS_Singleton
    <3>2. IsFiniteSet({"vehicle"} \cup {"state"})
      BY ONLY <3>1, FS_Union
    <3>3. {"vehicle"} \cup {"state"} = {"vehicle", "state"}
      OBVIOUS
    <3> QED
      BY ONLY <3>2, <3>3, FleetAssumption, FS_Product DEF RowsOf
  <2>2. \A p \in requests : restoring[p] # Absent
    BY <1>1, <1>3 DEF WaitsFor, Wanted
  <2>3. \A p \in requests : Unlocked(p) \subseteq RowsOf(Members)
    BY <1>3, <2>2, RowsLeft
  <2>4. Left \in SUBSET SUBSET RowsOf(Members) /\ Left # {}
    BY <1>1, <2>3
  <2>5. PICK T \in Left : \A U \in Left : U \subseteq T => U = T
    <3> HIDE DEF Left
    <3> QED
      BY ONLY <2>1, <2>4, MinimalSubset
  <2>6. PICK p \in requests : T = Unlocked(p)
    BY <2>5
  <2>7. PICK q \in requests : WaitsFor(p, q)
    BY <1>1
  <2>8. Unlocked(q) \subseteq Unlocked(p) /\ Unlocked(q) # Unlocked(p)
    BY <1>3, <2>7, WaitingHasMoreLeft
  <2> QED
    BY <2>5, <2>6, <2>8
<1> QED
  BY <1>2, <1>3 DEF Requests

\* What the validation accepts is safe to be in, in use or in a snapshot.
LEMMA ValidIsSafe == FleetInv => MotionIsSafe
<1> SUFFICES ASSUME FleetInv PROVE MotionIsSafe
  OBVIOUS
<1>1. \A v \in Vehicles : Registered(v) =>
        digital[v].payload.speed \in Nat /\ EnforceVehicleInvariants(digital[v].payload)
  BY Bounds DEF FleetInv, FleetTypeOK, StatesAreValid, Registered, DigitalState, Payload
<1>2. \A n \in Snapshots : snapshots[n] # Absent => \A v \in Members :
        snapshots[n][v].payload.speed \in Nat /\ EnforceVehicleInvariants(snapshots[n][v].payload)
  BY Bounds DEF FleetInv, FleetTypeOK, StatesAreValid, DigitalState, Payload
<1> QED
  BY <1>1, <1>2 DEF MotionIsSafe, EnforceVehicleInvariants

\* Validation, one history of transitions and steps, deadlocks of no other kind
\* than a restore and a transition or step that wait for each other, and the
\* unique event_id, for any fleet and any sequence of requests.
THEOREM SimulationSafe == Spec => []SimulationIsSound
<1>1. IInv => SimulationIsSound
  BY DeadlocksAreJoined, ValidIsSafe DEF IInv, FleetInv, SimulationIsSound
<1> QED
  BY <1>1, Invariance, PTL

\* A digital state moves by one version at a time, several only by a restore
\* of all members, a locked state only with the rest of its restore or to what
\* its transition or step computed, and neither of these gains energy.
THEOREM WholeChanges == Spec => StatesChangeAsWholes
<1>1. IInv /\ [Next]_vars => [WholeStep]_vars
  BY StepHolds
<1>2. Spec => [][WholeStep]_vars
  BY <1>1, Invariance, PTL DEF Spec
<1> QED
  BY <1>2 DEF StatesChangeAsWholes, WholeStep, Changed, Restored
=============================================================================
