------------------------------- MODULE Outbox -------------------------------
(***************************************************************************)
(* The transactional outbox: events/outbox.py enqueue_event inside a       *)
(* business transaction, events/worker.py publish_batch and run.           *)
(*                                                                         *)
(* created_at is PostgreSQL's now(), the instant the transaction began, so *)
(* an event that commits late may be older than events published already.  *)
(* A worker publishes its batch message by message inside one transaction; *)
(* if anything fails the marks roll back but what the broker accepted      *)
(* stays accepted.                                                         *)
(***************************************************************************)
EXTENDS Integers, FiniteSets

CONSTANTS
    Events,        \* outbox events, one business transaction each
    Workers,       \* outbox worker processes
    BatchLimit,    \* LIMIT of publish_batch (100)
    MaxFailures    \* bound on failed batches

ASSUME OutboxAssumption ==
    /\ IsFiniteSet(Events)
    /\ BatchLimit \in Nat \ {0}
    /\ MaxFailures \in Nat

VARIABLES
    eventRow,      \* state of each event and of its transaction
    stamp,         \* created_at: the rank of the transaction's begin, 0 before
    earlier,       \* events committed when the transaction began (auxiliary)
    batch,         \* rows each worker holds FOR UPDATE
    sent,          \* those of its batch a worker has published
    copies,        \* copies of each event the broker has accepted
    clock,         \* transactions begun so far
    failures       \* failed batches so far

vars == <<eventRow, stamp, earlier, batch, sent, copies, clock, failures>>

RowState == {"absent", "open", "aborted", "pending", "published"}
Committed == {e \in Events : eventRow[e] \in {"pending", "published"}}
Locked == UNION {batch[w] : w \in Workers}

Init ==
    /\ eventRow = [e \in Events |-> "absent"]
    /\ stamp = [e \in Events |-> 0]
    /\ earlier = [e \in Events |-> {}]
    /\ batch = [w \in Workers |-> {}]
    /\ sent = [w \in Workers |-> {}]
    /\ copies = [e \in Events |-> 0]
    /\ clock = 0
    /\ failures = 0

-----------------------------------------------------------------------------
(* Business transactions *)

BeginTransaction(e) ==
    /\ eventRow[e] = "absent"
    /\ eventRow' = [eventRow EXCEPT ![e] = "open"]
    /\ clock' = clock + 1
    /\ stamp' = [stamp EXCEPT ![e] = clock + 1]
    /\ earlier' = [earlier EXCEPT ![e] = Committed]
    /\ UNCHANGED <<batch, sent, copies, failures>>

\* The change and its event become visible together, or not at all.
EndTransaction(e) ==
    /\ eventRow[e] = "open"
    /\ \E s \in {"pending", "aborted"} : eventRow' = [eventRow EXCEPT ![e] = s]
    /\ UNCHANGED <<stamp, earlier, batch, sent, copies, clock, failures>>

-----------------------------------------------------------------------------
(* publish_batch *)

Oldest(S) == {e \in S : \A f \in S : stamp[e] <= stamp[f]}

\* The first BatchLimit rows of S by created_at.
FirstOf(S) == {e \in S : Cardinality({f \in S : stamp[f] < stamp[e]}) < BatchLimit}

\* Faulty variants: no SKIP LOCKED and no row locks; events that were sent
\* before are not selected again.
SelectBatchUnlocked(w) ==
    /\ batch[w] = {}
    /\ LET free == {e \in Events : eventRow[e] = "pending"}
       IN  /\ free # {}
           /\ batch' = [batch EXCEPT ![w] = FirstOf(free)]
    /\ UNCHANGED <<eventRow, stamp, earlier, sent, copies, clock, failures>>

SelectBatchUnsent(w) ==
    /\ batch[w] = {}
    /\ LET free == {e \in Events : eventRow[e] = "pending" /\ e \notin Locked /\ copies[e] = 0}
       IN  /\ free # {}
           /\ batch' = [batch EXCEPT ![w] = FirstOf(free)]
    /\ UNCHANGED <<eventRow, stamp, earlier, sent, copies, clock, failures>>

SelectBatch(w) ==
    /\ batch[w] = {}
    /\ LET free == {e \in Events : eventRow[e] = "pending" /\ e \notin Locked}
       IN  /\ free # {}
           /\ batch' = [batch EXCEPT ![w] = FirstOf(free)]
    /\ UNCHANGED <<eventRow, stamp, earlier, sent, copies, clock, failures>>

\* exchange.publish returns: the broker confirmed the message.
PublishNext(w) ==
    \E e \in Oldest(batch[w] \ sent[w]) :
        /\ sent' = [sent EXCEPT ![w] = @ \cup {e}]
        /\ copies' = [copies EXCEPT ![e] = @ + 1]
        /\ UNCHANGED <<eventRow, stamp, earlier, batch, clock, failures>>

\* Faulty variant: the rows are marked before they are published.
CommitBatchEarly(w) ==
    /\ batch[w] # {}
    /\ eventRow' = [e \in Events |-> IF e \in batch[w] THEN "published" ELSE eventRow[e]]
    /\ batch' = [batch EXCEPT ![w] = {}]
    /\ sent' = [sent EXCEPT ![w] = {}]
    /\ UNCHANGED <<stamp, earlier, copies, clock, failures>>

CommitBatch(w) ==
    /\ batch[w] # {}
    /\ sent[w] = batch[w]
    /\ eventRow' = [e \in Events |-> IF e \in batch[w] THEN "published" ELSE eventRow[e]]
    /\ batch' = [batch EXCEPT ![w] = {}]
    /\ sent' = [sent EXCEPT ![w] = {}]
    /\ UNCHANGED <<stamp, earlier, copies, clock, failures>>

\* publish raises, the commit fails or the worker dies: the marks roll back.
\* The broker may have accepted the message whose confirm never arrived.
FailBatch(w) ==
    /\ batch[w] # {}
    /\ failures < MaxFailures
    /\ failures' = failures + 1
    /\ batch' = [batch EXCEPT ![w] = {}]
    /\ sent' = [sent EXCEPT ![w] = {}]
    /\ \/ UNCHANGED copies
       \/ \E e \in Oldest(batch[w] \ sent[w]) : copies' = [copies EXCEPT ![e] = @ + 1]
    /\ UNCHANGED <<eventRow, stamp, earlier, clock>>

-----------------------------------------------------------------------------

Work(w) == SelectBatch(w) \/ PublishNext(w) \/ CommitBatch(w)

Next ==
    \/ \E e \in Events : BeginTransaction(e) \/ EndTransaction(e)
    \/ \E w \in Workers : Work(w) \/ FailBatch(w)

Spec == Init /\ [][Next]_vars

\* The loop of run() retries after every error; business transactions end
\* (commit, abort or connection loss).  Failures are finitely many.
Fairness == \A w \in Workers : WF_vars(Work(w))

FairSpec == Spec /\ Fairness

-----------------------------------------------------------------------------
(* Properties *)

\* Type correctness of the rows, the workers' batches and the broker.
TypeOK ==
    /\ eventRow \in [Events -> RowState]
    /\ stamp \in [Events -> Nat]
    /\ earlier \in [Events -> SUBSET Events]
    /\ batch \in [Workers -> SUBSET Events]
    /\ sent \in [Workers -> SUBSET Events]
    /\ copies \in [Events -> Nat]
    /\ clock \in Nat
    /\ failures \in Nat

\* No event is held by two workers; what is held is committed and unmarked,
\* and what a worker believes it sent did reach the broker.
BatchesAreOwn ==
    /\ \A v, w \in Workers : v # w => batch[v] \cap batch[w] = {}
    /\ \A w \in Workers :
         /\ sent[w] \subseteq batch[w]
         /\ \A e \in batch[w] : eventRow[e] = "pending"
         /\ \A e \in sent[w] : copies[e] > 0

\* Every copy but the last was sent by a batch that failed.
CopiesComeFromFailures == \A e \in Events : copies[e] <= 1 + failures

\* The database/message gap is closed: what is marked published reached the
\* broker, and the broker never saw an event whose transaction is open or
\* rolled back.
GapClosed ==
    \A e \in Events :
        /\ eventRow[e] = "published" => copies[e] > 0
        /\ copies[e] > 0 => eventRow[e] \in {"pending", "published"}

\* Workers share the events without sending one twice unless a batch failed
\* (events/worker.py: FOR UPDATE SKIP LOCKED, one commit for a batch), and
\* what they mark has been sent and was committed before.
BatchesAreSound == TypeOK /\ BatchesAreOwn /\ CopiesComeFromFailures /\ GapClosed

\* With one worker (the deployed replica count), an event caused by an earlier
\* one reaches the broker only after it, whatever batches fail in between:
\* rows are taken and published oldest first and a failure stops the batch.
CausesComeFirst ==
    \A f \in Events : copies[f] > 0 => \A e \in earlier[f] : copies[e] > 0

\* What the outbox promises its consumers.
relayState == [e \in Events |-> IF eventRow[e] \in {"open", "aborted"} THEN "absent" ELSE eventRow[e]]
Relay == INSTANCE EventRelay WITH state <- relayState, copies <- copies

\* The worker implements the relay of EventRelay: atomic enqueueing,
\* at-least-once delivery, no copy after the mark.
ImplementsRelay == Relay!RelaySpec

\* docs/workbook-volume-i.md:1831: a message "should not be lost after
\* successful commit": every committed event is delivered and then marked.
DeliversEveryEvent == Relay!RelayFairSpec
=============================================================================
