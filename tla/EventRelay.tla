----------------------------- MODULE EventRelay -----------------------------
(***************************************************************************)
(* What the transactional outbox promises (docs/architecture.md, decisions *)
(* 2 and 3): an event exists exactly when its transaction commits, the     *)
(* broker then accepts at least one copy of it, and once it is marked      *)
(* published no further copy is sent.                                      *)
(***************************************************************************)
EXTENDS Naturals

CONSTANT Events

VARIABLES
    state,         \* "absent", "pending" or "published"
    copies         \* copies of each event the broker accepted

relayVars == <<state, copies>>

RelayInit ==
    /\ state = [e \in Events |-> "absent"]
    /\ copies = [e \in Events |-> 0]

\* The business transaction that enqueued e commits.
Enqueue(e) ==
    /\ state[e] = "absent"
    /\ state' = [state EXCEPT ![e] = "pending"]
    /\ UNCHANGED copies

Deliver(e) ==
    /\ state[e] = "pending"
    /\ copies' = [copies EXCEPT ![e] = @ + 1]
    /\ UNCHANGED state

\* A batch of delivered events is marked in one transaction.
Mark(S) ==
    /\ \A e \in S : state[e] = "pending" /\ copies[e] > 0
    /\ state' = [e \in Events |-> IF e \in S THEN "published" ELSE state[e]]
    /\ UNCHANGED copies

RelayNext ==
    \/ \E e \in Events : Enqueue(e) \/ Deliver(e)
    \/ \E S \in SUBSET Events : S # {} /\ Mark(S)

RelaySpec == RelayInit /\ [][RelayNext]_relayVars

\* Every pending event is delivered, and every delivered one marked.
RelayFairSpec ==
    /\ RelaySpec
    /\ \A e \in Events :
         /\ WF_relayVars(copies[e] = 0 /\ Deliver(e))
         /\ WF_relayVars(\E S \in SUBSET Events : e \in S /\ Mark(S))
=============================================================================
