---------------------------- MODULE PlatformProofs ----------------------------
(* Three proofs about services that share no state: the outbox keeps its     *)
(* promise for any number of events and workers, any batch limit and any     *)
(* pattern of failures; the registry of modules is reconciled and activated  *)
(* only as its requests and leases allow; and what the catalogue, the        *)
(* executions of its campaigns and the AI engine store follows from what     *)
(* they were given.                                                          *)
EXTENDS Outbox, ModuleRegistry, QualityEngineering, FiniteSetTheorems,
        FunctionTheorems, SequenceTheorems, NaturalsInduction,
        WellFoundedInduction, TLAPS

\* The inductive invariant: a worker's batch is its own and unmarked, what it
\* sent arrived, and copies exist only of committed events.  GapClosed needs
\* the first part: CommitBatch marks what was sent, and nothing else may have
\* touched those rows since they were selected.
IInv ==
    /\ TypeOK
    /\ BatchesAreOwn
    /\ GapClosed

LEMMA InitHolds == Init => IInv
BY DEF Init, IInv, TypeOK, RowState, BatchesAreOwn, GapClosed

LEMMA BeginStep ==
    ASSUME IInv, NEW e \in Events, BeginTransaction(e)
    PROVE  IInv'
<1> USE DEF IInv, BeginTransaction
<1>1. TypeOK'
  BY DEF TypeOK, RowState, Committed
<1>2. BatchesAreOwn'
  BY DEF TypeOK, BatchesAreOwn
<1>3. GapClosed'
  BY DEF TypeOK, GapClosed
<1> QED
  BY <1>1, <1>2, <1>3

LEMMA EndStep ==
    ASSUME IInv, NEW e \in Events, EndTransaction(e)
    PROVE  IInv'
<1> USE DEF IInv, EndTransaction
<1>1. TypeOK'
  BY DEF TypeOK, RowState
<1>2. BatchesAreOwn'
  BY DEF TypeOK, BatchesAreOwn
<1>3. GapClosed'
  BY DEF TypeOK, GapClosed
<1> QED
  BY <1>1, <1>2, <1>3

LEMMA SelectStep ==
    ASSUME IInv, NEW w \in Workers, SelectBatch(w)
    PROVE  IInv'
<1> USE DEF IInv, SelectBatch
<1>1. TypeOK'
  BY DEF TypeOK, FirstOf
<1>2. BatchesAreOwn'
  <2>1. \A e \in batch'[w] : eventRow[e] = "pending" /\ e \notin Locked
    BY DEF TypeOK, FirstOf
  <2>2. \A v \in Workers : v # w => batch'[v] = batch[v]
    BY DEF TypeOK
  <2>3. sent[w] = {}
    BY DEF BatchesAreOwn, TypeOK
  <2> QED
    BY <2>1, <2>2, <2>3 DEF BatchesAreOwn, Locked
<1>3. GapClosed'
  BY DEF GapClosed
<1> QED
  BY <1>1, <1>2, <1>3

LEMMA PublishStep ==
    ASSUME IInv, NEW w \in Workers, PublishNext(w)
    PROVE  IInv'
<1> USE DEF IInv
<1> PICK e \in Oldest(batch[w] \ sent[w]) :
        /\ sent' = [sent EXCEPT ![w] = @ \cup {e}]
        /\ copies' = [copies EXCEPT ![e] = @ + 1]
        /\ UNCHANGED <<eventRow, stamp, earlier, batch, clock, failures>>
  BY DEF PublishNext
<1>0. e \in batch[w] /\ e \in Events /\ eventRow[e] = "pending"
  BY DEF Oldest, TypeOK, BatchesAreOwn
<1>1. TypeOK'
  BY <1>0 DEF TypeOK
<1>2. \A f \in Events : copies[f] > 0 => copies'[f] > 0
  BY <1>0 DEF TypeOK
<1>3. copies'[e] > 0
  BY <1>0 DEF TypeOK
<1>4. BatchesAreOwn'
  BY <1>0, <1>2, <1>3 DEF TypeOK, BatchesAreOwn
<1>5. GapClosed'
  BY <1>0, <1>2, <1>3 DEF TypeOK, GapClosed
<1> QED
  BY <1>1, <1>4, <1>5

LEMMA CommitStep ==
    ASSUME IInv, NEW w \in Workers, CommitBatch(w)
    PROVE  IInv'
<1> USE DEF IInv, CommitBatch
<1>1. TypeOK'
  BY DEF TypeOK, RowState
<1>2. BatchesAreOwn'
  BY DEF TypeOK, BatchesAreOwn
<1>3. GapClosed'
  BY DEF TypeOK, BatchesAreOwn, GapClosed
<1> QED
  BY <1>1, <1>2, <1>3

LEMMA FailStep ==
    ASSUME IInv, NEW w \in Workers, FailBatch(w)
    PROVE  IInv'
<1> USE DEF IInv, FailBatch
<1>1. CASE UNCHANGED copies
  <2>1. TypeOK' /\ GapClosed'
    BY <1>1 DEF TypeOK, GapClosed
  <2>2. BatchesAreOwn'
    BY <1>1 DEF TypeOK, BatchesAreOwn
  <2> QED
    BY <2>1, <2>2
<1>2. CASE \E e \in Oldest(batch[w] \ sent[w]) : copies' = [copies EXCEPT ![e] = @ + 1]
  <2> PICK e \in Oldest(batch[w] \ sent[w]) : copies' = [copies EXCEPT ![e] = @ + 1]
    BY <1>2
  <2>1. e \in Events /\ eventRow[e] = "pending"
    BY DEF Oldest, TypeOK, BatchesAreOwn
  <2>2. \A f \in Events : copies[f] > 0 => copies'[f] > 0
    BY <2>1 DEF TypeOK
  <2>3. TypeOK'
    BY <2>1 DEF TypeOK
  <2>4. GapClosed'
    BY <2>1, <2>2 DEF TypeOK, GapClosed
  <2>5. BatchesAreOwn'
    BY <2>2 DEF TypeOK, BatchesAreOwn
  <2> QED
    BY <2>3, <2>4, <2>5
<1> QED
  BY <1>1, <1>2

LEMMA StepHolds ==
    ASSUME IInv, [Next]_vars
    PROVE  IInv'
<1>1. CASE UNCHANGED vars
  BY <1>1 DEF vars, IInv, TypeOK, BatchesAreOwn, GapClosed
<1> QED
  BY <1>1, BeginStep, EndStep, SelectStep, PublishStep, CommitStep, FailStep DEF Next, Work

\* The strengthening of everything below.
THEOREM Invariance == Spec => []IInv
BY InitHolds, StepHolds, PTL DEF Spec

\* Type correctness of the rows, the batches and the broker.
THEOREM TypeCorrect == Spec => []TypeOK
BY Invariance, PTL DEF IInv

\* What is marked published was delivered, and what was delivered is
\* committed: the outbox closes the gap between database and broker.
THEOREM GapIsClosed == Spec => []GapClosed
BY Invariance, PTL DEF IInv

-----------------------------------------------------------------------------
(* Refinement of EventRelay *)

\* Every step of the outbox is a step of the relay or leaves it alone.
LEMMA StepRefines ==
    ASSUME IInv, [Next]_vars
    PROVE  [Relay!RelayNext]_(Relay!relayVars)
<1> USE DEF IInv
<1>1. ASSUME NEW e \in Events, BeginTransaction(e)
      PROVE  UNCHANGED <<relayState, copies>>
  BY <1>1 DEF BeginTransaction, relayState, TypeOK
<1>2. ASSUME NEW e \in Events, EndTransaction(e)
      PROVE  Relay!Enqueue(e) \/ UNCHANGED <<relayState, copies>>
  <2>1. PICK s \in {"pending", "aborted"} : eventRow' = [eventRow EXCEPT ![e] = s]
    BY <1>2 DEF EndTransaction
  <2>2. eventRow[e] = "open" /\ copies' = copies
    BY <1>2 DEF EndTransaction
  <2>3. CASE s = "pending"
    BY <2>1, <2>2, <2>3 DEF Relay!Enqueue, relayState, TypeOK
  <2>4. CASE s = "aborted"
    BY <2>1, <2>2, <2>4 DEF relayState, TypeOK
  <2> QED
    BY <2>3, <2>4
<1>3. ASSUME NEW w \in Workers, SelectBatch(w)
      PROVE  UNCHANGED <<relayState, copies>>
  BY <1>3 DEF SelectBatch, relayState
<1>4. ASSUME NEW w \in Workers, PublishNext(w)
      PROVE  \E e \in Events : Relay!Deliver(e)
  <2>1. PICK e \in Oldest(batch[w] \ sent[w]) :
            copies' = [copies EXCEPT ![e] = @ + 1] /\ eventRow' = eventRow
    BY <1>4 DEF PublishNext
  <2>2. e \in Events /\ eventRow[e] = "pending"
    BY DEF Oldest, TypeOK, BatchesAreOwn
  <2> QED
    BY <2>1, <2>2 DEF Relay!Deliver, relayState
<1>5. ASSUME NEW w \in Workers, CommitBatch(w)
      PROVE  \E S \in SUBSET Events : S # {} /\ Relay!Mark(S)
  <2>1. batch[w] \in SUBSET Events /\ batch[w] # {}
    BY <1>5 DEF CommitBatch, TypeOK
  <2>2. \A e \in batch[w] : relayState[e] = "pending" /\ copies[e] > 0
    BY <1>5, <2>1 DEF CommitBatch, BatchesAreOwn, relayState
  <2>3. relayState' = [e \in Events |-> IF e \in batch[w] THEN "published" ELSE relayState[e]]
    BY <1>5 DEF CommitBatch, relayState
  <2>4. copies' = copies
    BY <1>5 DEF CommitBatch
  <2> QED
    BY <2>1, <2>2, <2>3, <2>4 DEF Relay!Mark
<1>6. ASSUME NEW w \in Workers, FailBatch(w)
      PROVE  (\E e \in Events : Relay!Deliver(e)) \/ UNCHANGED <<relayState, copies>>
  <2>1. CASE UNCHANGED copies
    BY <1>6, <2>1 DEF FailBatch, relayState
  <2>2. CASE \E e \in Oldest(batch[w] \ sent[w]) : copies' = [copies EXCEPT ![e] = @ + 1]
    <3>1. PICK e \in Oldest(batch[w] \ sent[w]) : copies' = [copies EXCEPT ![e] = @ + 1]
      BY <2>2
    <3>2. e \in Events /\ eventRow[e] = "pending" /\ eventRow' = eventRow
      BY <1>6 DEF FailBatch, Oldest, TypeOK, BatchesAreOwn
    <3> QED
      BY <3>1, <3>2 DEF Relay!Deliver, relayState
  <2> QED
    BY <1>6, <2>1, <2>2 DEF FailBatch
<1>7. CASE UNCHANGED vars
  BY <1>7 DEF vars, relayState, Relay!relayVars
<1> QED
  BY <1>1, <1>2, <1>3, <1>4, <1>5, <1>6, <1>7 DEF Next, Work, Relay!RelayNext, Relay!relayVars

\* The worker implements the relay: an event is enqueued with its commit,
\* delivered at least once before it is marked and never after.
THEOREM Refinement == Spec => ImplementsRelay
<1>1. Init => Relay!RelayInit
  BY DEF Init, Relay!RelayInit, relayState
<1>2. IInv /\ [Next]_vars => [Relay!RelayNext]_(Relay!relayVars)
  BY StepRefines
<1> QED
  BY <1>1, <1>2, Invariance, PTL DEF Spec, ImplementsRelay, Relay!RelaySpec

-----------------------------------------------------------------------------
(* Copies *)

\* An event that is neither marked nor sent in an open batch was sent only by
\* batches that failed; without this part the bound is not inductive.
CopiesInv ==
    /\ CopiesComeFromFailures
    /\ \A e \in Events :
         eventRow[e] # "published" /\ (\A w \in Workers : e \notin sent[w])
             => copies[e] <= failures

LEMMA CopiesStep ==
    ASSUME IInv, CopiesInv, [Next]_vars
    PROVE  CopiesInv'
<1> USE DEF IInv
<1>1. ASSUME NEW x \in Events, BeginTransaction(x)
      PROVE  CopiesInv'
  <2>1. /\ UNCHANGED <<sent, copies, failures>>
        /\ \A e \in Events : eventRow'[e] # "published" => eventRow[e] # "published"
    BY <1>1 DEF BeginTransaction, TypeOK
  <2> QED
    BY <2>1 DEF CopiesInv, CopiesComeFromFailures
<1>2. ASSUME NEW x \in Events, EndTransaction(x)
      PROVE  CopiesInv'
  <2>1. /\ UNCHANGED <<sent, copies, failures>>
        /\ \A e \in Events : eventRow'[e] # "published" => eventRow[e] # "published"
    BY <1>2 DEF EndTransaction, TypeOK
  <2> QED
    BY <2>1 DEF CopiesInv, CopiesComeFromFailures
<1>3. ASSUME NEW w \in Workers, SelectBatch(w)
      PROVE  CopiesInv'
  BY <1>3 DEF SelectBatch, CopiesInv, CopiesComeFromFailures
<1>4. ASSUME NEW w \in Workers, PublishNext(w)
      PROVE  CopiesInv'
  <2> PICK f \in Oldest(batch[w] \ sent[w]) :
        /\ sent' = [sent EXCEPT ![w] = @ \cup {f}]
        /\ copies' = [copies EXCEPT ![f] = @ + 1]
        /\ UNCHANGED <<eventRow, failures>>
    BY <1>4 DEF PublishNext
  <2>1. f \in Events /\ f \in batch[w] /\ f \notin sent[w] /\ eventRow[f] = "pending"
    BY DEF Oldest, TypeOK, BatchesAreOwn
  <2>2. \A v \in Workers : f \notin sent[v]
    BY <2>1 DEF BatchesAreOwn
  <2>3. copies[f] <= failures
    BY <2>1, <2>2 DEF CopiesInv
  <2>4. copies'[f] = copies[f] + 1 /\ \A e \in Events \ {f} : copies'[e] = copies[e]
    BY <2>1 DEF TypeOK
  <2>5. CopiesComeFromFailures'
    BY <2>3, <2>4 DEF CopiesInv, CopiesComeFromFailures, TypeOK
  <2>6. f \in sent'[w] /\ \A v \in Workers : sent[v] \subseteq sent'[v]
    BY DEF TypeOK
  <2> QED
    BY <2>4, <2>5, <2>6 DEF CopiesInv
<1>5. ASSUME NEW w \in Workers, CommitBatch(w)
      PROVE  CopiesInv'
  <2>1. /\ UNCHANGED <<copies, failures>>
        /\ sent[w] = batch[w]
        /\ \A v \in Workers : v # w => sent'[v] = sent[v]
        /\ \A e \in Events : eventRow'[e] # "published" => eventRow[e] # "published" /\ e \notin batch[w]
    BY <1>5 DEF CommitBatch, TypeOK
  <2> QED
    BY <2>1 DEF CopiesInv, CopiesComeFromFailures
<1>6. ASSUME NEW w \in Workers, FailBatch(w)
      PROVE  CopiesInv'
  <2>1. failures' = failures + 1 /\ eventRow' = eventRow
    BY <1>6 DEF FailBatch
  <2>2. \A e \in Events : copies'[e] <= failures'
    <3>1. CASE UNCHANGED copies
      BY <2>1, <3>1 DEF CopiesInv, CopiesComeFromFailures, TypeOK
    <3>2. CASE \E e \in Oldest(batch[w] \ sent[w]) : copies' = [copies EXCEPT ![e] = @ + 1]
      <4> PICK f \in Oldest(batch[w] \ sent[w]) : copies' = [copies EXCEPT ![f] = @ + 1]
        BY <3>2
      <4>1. f \in Events /\ f \in batch[w] /\ f \notin sent[w] /\ eventRow[f] = "pending"
        BY DEF Oldest, TypeOK, BatchesAreOwn
      <4>2. copies[f] <= failures
        BY <4>1 DEF CopiesInv, BatchesAreOwn
      <4>3. copies'[f] = copies[f] + 1 /\ \A e \in Events \ {f} : copies'[e] = copies[e]
        BY <4>1 DEF TypeOK
      <4> QED
        BY <2>1, <4>2, <4>3 DEF CopiesInv, CopiesComeFromFailures, TypeOK
    <3> QED
      BY <1>6, <3>1, <3>2 DEF FailBatch
  <2>3. \A e \in Events : copies'[e] <= 1 + failures'
    <3>1. copies' \in [Events -> Nat] /\ failures' \in Nat
      BY StepHolds, <1>6 DEF Next, TypeOK
    <3> QED
      BY <2>2, <3>1
  <2> QED
    BY <2>2, <2>3 DEF CopiesInv, CopiesComeFromFailures
<1>7. CASE UNCHANGED vars
  BY <1>7 DEF vars, CopiesInv, CopiesComeFromFailures
<1> QED
  BY <1>1, <1>2, <1>3, <1>4, <1>5, <1>6, <1>7 DEF Next, Work

\* No two workers hold one event, what is held is committed and unmarked, and
\* an event has at most one copy more than batches failed: only a failure
\* (a refused message, a lost confirm, a worker that died) duplicates.
THEOREM BatchesSound == Spec => []BatchesAreSound
<1>1. Init => CopiesInv
  BY DEF Init, CopiesInv, CopiesComeFromFailures
<1>2. IInv /\ CopiesInv /\ [Next]_vars => CopiesInv'
  BY CopiesStep
<1>3. IInv /\ CopiesInv => BatchesAreSound
  BY DEF IInv, CopiesInv, BatchesAreSound
<1> QED
  BY <1>1, <1>2, <1>3, Invariance, PTL DEF Spec

-----------------------------------------------------------------------------
(* Publication order of one worker *)

\* A cause is committed and older than its effect; it is in the batch with its
\* effect or was published before, and it is sent before its effect is.
OrderInv ==
    /\ \A f \in Events : eventRow[f] = "absent" => copies[f] = 0 /\ earlier[f] = {}
    /\ \A e \in Events : stamp[e] <= clock
    /\ \A f \in Events : \A e \in earlier[f] :
         /\ eventRow[e] \in {"pending", "published"}
         /\ stamp[e] < stamp[f]
    /\ \A w \in Workers : \A f \in batch[w] : \A e \in earlier[f] :
         e \in batch[w] \/ eventRow[e] = "published"
    /\ \A w \in Workers : \A f \in sent[w] : \A e \in earlier[f] :
         e \in sent[w] \/ eventRow[e] = "published"
    /\ CausesComeFirst

\* Taking the first rows by age takes every row older than one taken.
LEMMA FirstOfIsOldestFirst ==
    ASSUME NEW S \in SUBSET Events, stamp \in [Events -> Nat],
           NEW e \in S, NEW f \in FirstOf(S), stamp[e] < stamp[f]
    PROVE  e \in FirstOf(S)
<1> DEFINE Below(x) == {y \in S : stamp[y] < stamp[x]}
<1>1. IsFiniteSet(S)
  BY FS_Subset, OutboxAssumption
<1>2. f \in S /\ Cardinality(Below(f)) < BatchLimit
  BY DEF FirstOf
<1>3. IsFiniteSet(Below(f)) /\ IsFiniteSet(Below(e))
  BY <1>1, FS_Subset
<1>4. Below(e) \subseteq Below(f)
  BY <1>2
<1>5. Cardinality(Below(e)) <= Cardinality(Below(f))
  BY <1>3, <1>4, FS_Subset
<1>6. Cardinality(Below(e)) \in Nat /\ Cardinality(Below(f)) \in Nat
  BY <1>3, FS_CardinalityType
<1>7. Cardinality(Below(e)) < BatchLimit
  BY <1>2, <1>5, <1>6, OutboxAssumption
<1> QED
  BY <1>7 DEF FirstOf

\* The next row to publish has all its causes at the broker.
LEMMA OldestHasItsCauses ==
    ASSUME IInv, OrderInv, NEW w \in Workers,
           NEW f \in Oldest(batch[w] \ sent[w]), NEW e \in earlier[f]
    PROVE  /\ copies[e] > 0
           /\ e \in sent[w] \/ eventRow[e] = "published"
<1> USE DEF IInv
<1>1. f \in batch[w] /\ f \in Events /\ e \in Events /\ stamp[e] < stamp[f]
  BY DEF Oldest, TypeOK, OrderInv
<1>2. e \in batch[w] \/ eventRow[e] = "published"
  BY <1>1 DEF OrderInv
<1>3. e \notin batch[w] \ sent[w]
  BY <1>1 DEF Oldest, TypeOK
<1> QED
  BY <1>1, <1>2, <1>3 DEF BatchesAreOwn, GapClosed

LEMMA OrderStep ==
    ASSUME \A v, w \in Workers : v = w, IInv, OrderInv, [Next]_vars
    PROVE  OrderInv'
<1> USE DEF IInv
<1>1. ASSUME NEW x \in Events, BeginTransaction(x)
      PROVE  OrderInv'
  <2>1. /\ eventRow[x] = "absent" /\ copies[x] = 0 /\ copies' = copies
        /\ batch' = batch /\ sent' = sent
        /\ clock' = clock + 1
        /\ stamp'[x] = clock' /\ eventRow'[x] = "open" /\ earlier'[x] = Committed
        /\ \A e \in Events \ {x} :
              stamp'[e] = stamp[e] /\ eventRow'[e] = eventRow[e] /\ earlier'[e] = earlier[e]
    BY <1>1 DEF BeginTransaction, TypeOK, OrderInv
  <2>2. \A f \in Events : x \notin earlier[f]
    BY <2>1 DEF OrderInv
  <2>3. \A w \in Workers : x \notin batch[w] /\ x \notin sent[w]
    BY <2>1 DEF BatchesAreOwn
  <2>4. \A e \in Committed : e # x /\ e \in Events /\ stamp[e] < clock'
    BY <2>1 DEF Committed, TypeOK, OrderInv
  <2>5. \A f \in Events : \A e \in earlier'[f] :
          eventRow'[e] \in {"pending", "published"} /\ stamp'[e] < stamp'[f]
    <3> TAKE f \in Events
    <3> TAKE e \in earlier'[f]
    <3>1. CASE f = x
      BY <2>1, <2>4, <3>1 DEF Committed
    <3>2. CASE f # x
      BY <2>1, <2>2, <3>2 DEF OrderInv, TypeOK
    <3> QED
      BY <3>1, <3>2
  <2>6. \A e \in Events : stamp'[e] <= clock'
    BY <2>1 DEF OrderInv, TypeOK
  <2>7. CausesComeFirst'
    BY <2>1 DEF OrderInv, CausesComeFirst, TypeOK
  <2>8. \A w \in Workers : \A f \in batch[w] : f \in Events /\ f # x
    BY <2>3 DEF TypeOK
  <2>9. \A w \in Workers : \A f \in sent[w] : f \in Events /\ f # x
    BY <2>3 DEF TypeOK
  <2>10. /\ \A w \in Workers : \A f \in batch'[w] : \A e \in earlier'[f] :
              e \in batch'[w] \/ eventRow'[e] = "published"
         /\ \A w \in Workers : \A f \in sent'[w] : \A e \in earlier'[f] :
              e \in sent'[w] \/ eventRow'[e] = "published"
    BY <2>1, <2>2, <2>8, <2>9 DEF OrderInv, TypeOK
  <2>11. \A f \in Events : eventRow'[f] = "absent" => copies'[f] = 0 /\ earlier'[f] = {}
    BY <2>1 DEF OrderInv
  <2> QED
    BY <2>5, <2>6, <2>7, <2>10, <2>11 DEF OrderInv
<1>2. ASSUME NEW x \in Events, EndTransaction(x)
      PROVE  OrderInv'
  <2>1. /\ eventRow[x] = "open" /\ eventRow'[x] # "absent"
        /\ UNCHANGED <<stamp, earlier, batch, sent, copies, clock>>
        /\ \A e \in Events \ {x} : eventRow'[e] = eventRow[e]
    BY <1>2 DEF EndTransaction, TypeOK
  <2>2. \A f \in Events : x \notin earlier[f]
    BY <2>1 DEF OrderInv
  <2>3. \A w \in Workers : \A f \in batch[w] : f \in Events
    BY DEF TypeOK
  <2>4. \A w \in Workers : \A f \in sent[w] : f \in Events
    BY DEF TypeOK
  <2> QED
    BY <2>1, <2>2, <2>3, <2>4 DEF OrderInv, CausesComeFirst, TypeOK
<1>3. ASSUME NEW w \in Workers, SelectBatch(w)
      PROVE  OrderInv'
  <2> DEFINE free == {e \in Events : eventRow[e] = "pending" /\ e \notin Locked}
  <2>1. /\ batch' = [batch EXCEPT ![w] = FirstOf(free)]
        /\ batch[w] = {}
        /\ UNCHANGED <<eventRow, stamp, earlier, sent, copies, clock>>
    BY <1>3 DEF SelectBatch
  <2>2. free = {e \in Events : eventRow[e] = "pending"}
    BY <2>1 DEF Locked
  <2>3. \A v \in Workers : \A f \in batch'[v] : \A e \in earlier[f] :
          e \in batch'[v] \/ eventRow[e] = "published"
    <3> SUFFICES ASSUME NEW v \in Workers, NEW f \in batch'[v], NEW e \in earlier[f],
                        eventRow[e] # "published"
                 PROVE  e \in batch'[v]
      OBVIOUS
    <3>1. v = w /\ f \in FirstOf(free)
      BY <2>1 DEF TypeOK
    <3>2. f \in Events /\ e \in Events
      BY <3>1 DEF FirstOf, TypeOK
    <3>3. eventRow[e] = "pending" /\ stamp[e] < stamp[f]
      BY <3>2 DEF OrderInv
    <3>4. e \in free
      BY <2>2, <3>2, <3>3
    <3> HIDE DEF free
    <3>5. free \in SUBSET Events
      BY <2>2
    <3>6. e \in FirstOf(free)
      BY <3>1, <3>3, <3>4, <3>5, FirstOfIsOldestFirst DEF TypeOK
    <3> QED
      BY <2>1, <3>1, <3>6 DEF TypeOK
  <2> QED
    BY <2>1, <2>3 DEF OrderInv, CausesComeFirst
<1>4. ASSUME NEW w \in Workers, PublishNext(w)
      PROVE  OrderInv'
  <2> PICK f \in Oldest(batch[w] \ sent[w]) :
        /\ sent' = [sent EXCEPT ![w] = @ \cup {f}]
        /\ copies' = [copies EXCEPT ![f] = @ + 1]
        /\ UNCHANGED <<eventRow, stamp, earlier, batch, clock, failures>>
    BY <1>4 DEF PublishNext
  <2>1. f \in Events /\ eventRow[f] = "pending"
    BY DEF Oldest, TypeOK, BatchesAreOwn
  <2>2. \A e \in earlier[f] : copies[e] > 0 /\ (e \in sent[w] \/ eventRow[e] = "published")
    BY OldestHasItsCauses
  <2>3. /\ \A e \in Events : copies[e] > 0 => copies'[e] > 0
        /\ \A e \in Events : e # f => copies'[e] = copies[e]
    BY <2>1 DEF TypeOK
  <2>4. CausesComeFirst'
    BY <2>1, <2>2, <2>3 DEF OrderInv, CausesComeFirst, TypeOK
  <2>5. \A v \in Workers : \A g \in sent'[v] : \A e \in earlier[g] :
          e \in sent'[v] \/ eventRow[e] = "published"
    BY <2>2 DEF OrderInv, TypeOK
  <2> QED
    BY <2>1, <2>3, <2>4, <2>5 DEF OrderInv
<1>5. ASSUME NEW w \in Workers, CommitBatch(w)
      PROVE  OrderInv'
  <2>1. /\ \A e \in Events : eventRow'[e] = IF e \in batch[w] THEN "published" ELSE eventRow[e]
        /\ batch' = [batch EXCEPT ![w] = {}]
        /\ sent' = [sent EXCEPT ![w] = {}]
        /\ UNCHANGED <<stamp, earlier, copies, clock>>
    BY <1>5 DEF CommitBatch
  <2>2. \A v \in Workers : batch'[v] = {} /\ sent'[v] = {}
    BY <2>1 DEF TypeOK
  <2>3. \A e \in Events : eventRow[e] \in {"pending", "published"} => eventRow'[e] \in {"pending", "published"}
    BY <2>1
  <2>4. \A e \in Events : eventRow'[e] = "absent" => eventRow[e] = "absent"
    BY <2>1
  <2> QED
    BY <2>1, <2>2, <2>3, <2>4 DEF OrderInv, CausesComeFirst, TypeOK
<1>6. ASSUME NEW w \in Workers, FailBatch(w)
      PROVE  OrderInv'
  <2>1. /\ batch' = [batch EXCEPT ![w] = {}]
        /\ sent' = [sent EXCEPT ![w] = {}]
        /\ UNCHANGED <<eventRow, stamp, earlier, clock>>
    BY <1>6 DEF FailBatch
  <2>2. \A v \in Workers : batch'[v] = {} /\ sent'[v] = {}
    BY <2>1 DEF TypeOK
  <2>3. CASE UNCHANGED copies
    BY <2>1, <2>2, <2>3 DEF OrderInv, CausesComeFirst
  <2>4. CASE \E f \in Oldest(batch[w] \ sent[w]) : copies' = [copies EXCEPT ![f] = @ + 1]
    <3> PICK f \in Oldest(batch[w] \ sent[w]) : copies' = [copies EXCEPT ![f] = @ + 1]
      BY <2>4
    <3>1. f \in Events /\ eventRow[f] = "pending"
      BY DEF Oldest, TypeOK, BatchesAreOwn
    <3>2. \A e \in earlier[f] : copies[e] > 0
      BY OldestHasItsCauses
    <3>3. /\ \A e \in Events : copies[e] > 0 => copies'[e] > 0
          /\ \A e \in Events : e # f => copies'[e] = copies[e]
      BY <3>1 DEF TypeOK
    <3>4. CausesComeFirst'
      BY <2>1, <3>1, <3>2, <3>3 DEF OrderInv, CausesComeFirst, TypeOK
    <3> QED
      BY <2>1, <2>2, <3>1, <3>3, <3>4 DEF OrderInv
  <2> QED
    BY <1>6, <2>3, <2>4 DEF FailBatch
<1>7. CASE UNCHANGED vars
  BY <1>7 DEF vars, OrderInv, CausesComeFirst
<1> QED
  BY <1>1, <1>2, <1>3, <1>4, <1>5, <1>6, <1>7 DEF Next, Work

\* One worker never lets an effect overtake its cause, whatever batches fail:
\* the reason to run a single replica.
THEOREM CausalPublication ==
    ASSUME \A v, w \in Workers : v = w
    PROVE  Spec => []CausesComeFirst
<1>1. Init => OrderInv
  BY DEF Init, OrderInv, CausesComeFirst
<1>2. IInv /\ OrderInv /\ [Next]_vars => OrderInv'
  BY OrderStep
<1>3. OrderInv => CausesComeFirst
  BY DEF OrderInv
<1> QED
  BY <1>1, <1>2, <1>3, Invariance, PTL DEF Spec

-----------------------------------------------------------------------------
(* The module registry *)

\* What an administrative request is about to flush: never an operational
\* status, and a rotation resets the one it has read.
RequestIsAdministrative(q) ==
    /\ q.status \notin Operational
    /\ q.rotates => q.status = IF q.loaded.status \in Operational
                               THEN "registered" ELSE q.loaded.status

\* The inductive invariant.  The first part says that a row under FOR UPDATE
\* keeps what its reconciler saw; the second remembers how a request came to
\* be, which its flush, taken over other rows, can no longer tell.
RegistryInv ==
    /\ ReconciledAreExpired
    /\ \A a \in Admins : request[a] # None => RequestIsAdministrative(request[a])

\* What a step may do to a module's row, as OnlyHeartbeatsActivate has it.
ActivationStep ==
    \A m \in Modules :
         /\ modules'[m].status \in Operational /\ ~IsOperational(m) => beats'[m] > beats[m]
         /\ Stranded(m)' /\ ~Stranded(m) =>
              \E a \in Admins :
                 /\ request[a] # None /\ request'[a] = None
                 /\ request[a].module = m /\ request[a].rotates
                 /\ request[a].loaded.status \notin Operational

\* Before the first request: no lease, nothing held.
LEMMA RegistryInitHolds == RegistryInit => RegistryInv
BY RegistryAssumption
   DEF RegistryInit, RegistryInv, ReconciledAreExpired, RegistryTypeOK, ModuleRow, ModuleStatus, Held

\* session.get of either administrative request.
LEMMA LoadStep ==
    ASSUME RegistryInv, NEW a \in Admins, NEW m \in Modules,
           LoadForUpdate(a, m) \/ LoadForRotation(a, m)
    PROVE  RegistryInv' /\ ActivationStep
<1> USE DEF RegistryInv
<1> PICK status \in ModuleStatus, rotates \in BOOLEAN :
        /\ Load(a, m, status, rotates)
        /\ status \notin Operational
        /\ rotates => status = IF modules[m].status \in Operational
                               THEN "registered" ELSE modules[m].status
  BY DEF LoadForUpdate, LoadForRotation, IsOperational, ReconciledAreExpired, RegistryTypeOK,
         ModuleRow, ModuleStatus, Operational
<1> DEFINE q == [module |-> m, loaded |-> modules[m], status |-> status, rotates |-> rotates]
<1>1. q \in Request /\ q # None /\ RequestIsAdministrative(q)
  BY RegistryAssumption DEF ReconciledAreExpired, RegistryTypeOK, Request, RequestIsAdministrative
<1>2. request' = [request EXCEPT ![a] = q] /\ UNCHANGED <<modules, held, beats>>
  BY DEF Load
<1>3. requests' \in 0 .. MaxRequests
  BY RegistryAssumption DEF Load, ReconciledAreExpired, RegistryTypeOK
<1> HIDE DEF q
<1>4. RegistryTypeOK'
  BY <1>1, <1>2, <1>3 DEF ReconciledAreExpired, RegistryTypeOK
<1>5. ReconciledAreExpired'
  BY <1>2, <1>4 DEF ReconciledAreExpired, Held, Expired, IsOperational
<1>6. \A b \in Admins : request'[b] # None => RequestIsAdministrative(request'[b])
  BY <1>1, <1>2 DEF ReconciledAreExpired, RegistryTypeOK
<1>7. ActivationStep
  BY <1>2 DEF ActivationStep, Stranded, IsOperational
<1> QED
  BY <1>5, <1>6, <1>7

\* The flush of an administrative request over the row as it is now.
LEMMA FlushStep ==
    ASSUME RegistryInv, NEW a \in Admins, Flush(a)
    PROVE  RegistryInv' /\ ActivationStep
<1> USE DEF RegistryInv
<1> DEFINE q == request[a]
           current == modules[q.module]
           new == [status |-> WriteIfChanged(current.status, q.loaded.status, q.status),
                   lease |-> IF q.rotates
                             THEN WriteIfChanged(current.lease, q.loaded.lease, None)
                             ELSE current.lease,
                   credential |-> q.rotates \/ current.credential]
<1>1. /\ q \in Request /\ q # None /\ RequestIsAdministrative(q)
      /\ q.module \in Modules \ Held
      /\ modules' = [modules EXCEPT ![q.module] = new]
      /\ request' = [request EXCEPT ![a] = None]
      /\ UNCHANGED <<held, beats, requests>>
  BY DEF Flush, ReconciledAreExpired, RegistryTypeOK, Request
<1>2. current \in ModuleRow
  BY <1>1 DEF ReconciledAreExpired, RegistryTypeOK
<1>3. new \in ModuleRow
  BY <1>1, <1>2 DEF Request, ModuleRow, WriteIfChanged
<1>4. new.status \in Operational => current.status \in Operational /\ q.status = q.loaded.status
  BY <1>1 DEF WriteIfChanged, RequestIsAdministrative
<1>5. new.lease = None => q.rotates \/ current.lease = None
  OBVIOUS
<1> HIDE DEF q, current, new
<1>6. \A n \in Modules : modules'[n] = IF n = q.module THEN new ELSE modules[n]
  BY <1>1 DEF ReconciledAreExpired, RegistryTypeOK
<1>7. RegistryTypeOK'
  BY <1>1, <1>3 DEF ReconciledAreExpired, RegistryTypeOK
<1>8. ReconciledAreExpired'
  <2>1. \A n \in Held : n # q.module /\ n \in Modules
    BY <1>1 DEF Held, ReconciledAreExpired, RegistryTypeOK
  <2> QED
    BY <1>1, <1>6, <1>7, <2>1 DEF ReconciledAreExpired, Held, Expired, IsOperational
<1>9. \A b \in Admins : request'[b] # None => RequestIsAdministrative(request'[b])
  BY <1>1 DEF ReconciledAreExpired, RegistryTypeOK
<1>10. ActivationStep
  <2> SUFFICES ASSUME NEW n \in Modules
               PROVE  /\ modules'[n].status \in Operational /\ ~IsOperational(n) =>
                           beats'[n] > beats[n]
                      /\ Stranded(n)' /\ ~Stranded(n) =>
                           /\ q.module = n /\ q.rotates
                           /\ q.loaded.status \notin Operational
    BY <1>1 DEF ActivationStep, q, ReconciledAreExpired, RegistryTypeOK
  <2>1. CASE n # q.module
    BY <1>6, <2>1 DEF Stranded, IsOperational
  <2>2. CASE n = q.module
    BY <1>1, <1>4, <1>5, <1>6, <2>2
       DEF Stranded, IsOperational, current, RequestIsAdministrative
  <2> QED
    BY <2>1, <2>2
<1> QED
  BY <1>8, <1>9, <1>10

\* A heartbeat waits for the lock, so it never renews a row about to be
\* marked inactive.
LEMMA HeartbeatStep ==
    ASSUME RegistryInv, NEW m \in Modules, Heartbeat(m)
    PROVE  RegistryInv' /\ ActivationStep
<1> USE DEF RegistryInv
<1> PICK s \in Operational :
        modules' = [modules EXCEPT ![m].status = s, ![m].lease = LeaseDuration]
  BY DEF Heartbeat
<1>1. /\ \A n \in Modules : n # m => modules'[n] = modules[n]
      /\ modules'[m].status = s /\ modules'[m].lease = LeaseDuration
  BY DEF ReconciledAreExpired, RegistryTypeOK, ModuleRow
<1>1a. modules' \in [Modules -> ModuleRow]
  <2>1. s \in ModuleStatus /\ LeaseDuration \in 0 .. LeaseDuration \cup {None}
    BY RegistryAssumption DEF ModuleStatus, Operational
  <2>2. modules \in [Modules -> ModuleRow]
    BY DEF ReconciledAreExpired, RegistryTypeOK
  <2> QED
    BY <2>1, <2>2, Zenon DEF ModuleRow
<1>2. m \notin Held /\ UNCHANGED <<request, held, requests>>
  BY DEF Heartbeat
<1>3. beats' \in [Modules -> 0 .. MaxHeartbeats] /\ beats'[m] > beats[m]
  BY RegistryAssumption DEF Heartbeat, ReconciledAreExpired, RegistryTypeOK
<1>4. RegistryTypeOK'
  BY <1>1a, <1>2, <1>3 DEF ReconciledAreExpired, RegistryTypeOK
<1>5. ReconciledAreExpired'
  <2>1. \A n \in Held : n # m /\ n \in Modules
    BY <1>2 DEF Held, ReconciledAreExpired, RegistryTypeOK
  <2>2. Held' = Held /\ held' = held /\ requests' = requests /\ request' = request
    BY <1>2 DEF Held
  <2>3. \A n \in Held : Expired(n)' <=> Expired(n)
    BY <1>1, <2>1 DEF Expired, IsOperational
  <2> QED
    BY <1>4, <2>2, <2>3 DEF ReconciledAreExpired
<1>6. ActivationStep
  BY <1>1, <1>3, RegistryAssumption DEF ActivationStep, Stranded, IsOperational
<1> QED
  BY <1>2, <1>5, <1>6

\* FOR UPDATE SKIP LOCKED takes expired rows that nobody holds.
LEMMA SelectExpiredStep ==
    ASSUME RegistryInv, NEW r \in Reconcilers, SelectExpired(r)
    PROVE  RegistryInv' /\ ActivationStep
<1> USE DEF RegistryInv
<1> DEFINE S == {m \in Modules : Expired(m)} \ Held
<1>1. held' = [held EXCEPT ![r] = S] /\ UNCHANGED <<modules, request, beats, requests>>
  BY DEF SelectExpired, Select
<1>2. /\ held'[r] = S
      /\ \A s \in Reconcilers : s # r => held'[s] = held[s]
      /\ held' \in [Reconcilers -> SUBSET Modules]
  BY <1>1 DEF ReconciledAreExpired, RegistryTypeOK
<1>3. \A s \in Reconcilers : held[s] \subseteq Held
  BY DEF Held
<1>4. ReconciledAreExpired'
  <2>1. RegistryTypeOK'
    BY <1>1, <1>2 DEF ReconciledAreExpired, RegistryTypeOK
  <2>2. \A s, t \in Reconcilers : s # t => held'[s] \cap held'[t] = {}
    BY <1>2, <1>3 DEF ReconciledAreExpired
  <2>3. Held' \subseteq Held \cup S
    BY <1>2, <1>3 DEF Held
  <2>4. \A m \in Held \cup S : Expired(m)
    BY DEF ReconciledAreExpired
  <2> QED
    BY <1>1, <2>1, <2>2, <2>3, <2>4 DEF ReconciledAreExpired, Expired, IsOperational
<1>5. ActivationStep
  BY <1>1 DEF ActivationStep, Stranded, IsOperational
<1> QED
  BY <1>1, <1>4, <1>5

\* A cycle ends, by commit or by rollback.
LEMMA ReconcileStep ==
    ASSUME RegistryInv, NEW r \in Reconcilers, CommitExpired(r) \/ AbortReconciliation(r)
    PROVE  RegistryInv' /\ ActivationStep
<1> USE DEF RegistryInv
<1>1. held' = [held EXCEPT ![r] = {}] /\ UNCHANGED <<request, beats, requests>>
  BY DEF CommitExpired, AbortReconciliation
<1>2. \A m \in Modules : m \notin held[r] => modules'[m] = modules[m]
  BY DEF CommitExpired, AbortReconciliation, ReconciledAreExpired, RegistryTypeOK
<1>3. \A m \in held[r] : modules'[m] = modules[m] \/ modules'[m].status = "inactive"
  BY DEF CommitExpired, AbortReconciliation, ReconciledAreExpired, RegistryTypeOK, ModuleRow
<1>4. modules' \in [Modules -> ModuleRow]
  BY DEF CommitExpired, AbortReconciliation, ReconciledAreExpired, RegistryTypeOK, ModuleRow, ModuleStatus
<1>5. /\ held'[r] = {}
      /\ \A s \in Reconcilers : s # r => held'[s] = held[s]
      /\ held' \in [Reconcilers -> SUBSET Modules]
  BY <1>1 DEF ReconciledAreExpired, RegistryTypeOK
<1>6. ReconciledAreExpired'
  <2>1. RegistryTypeOK'
    BY <1>1, <1>4, <1>5 DEF ReconciledAreExpired, RegistryTypeOK
  <2>2. \A s, t \in Reconcilers : s # t => held'[s] \cap held'[t] = {}
    BY <1>5 DEF ReconciledAreExpired
  <2>3. \A m \in Held' : m \in Held /\ m \in Modules /\ m \notin held[r]
    BY <1>5 DEF Held, ReconciledAreExpired, RegistryTypeOK
  <2> QED
    BY <1>2, <2>1, <2>2, <2>3 DEF ReconciledAreExpired, Expired, IsOperational
<1>7. ActivationStep
  BY <1>2, <1>3 DEF ActivationStep, Stranded, IsOperational, Operational
<1> QED
  BY <1>1, <1>6, <1>7

\* Time runs leases down to zero and no further.
LEMMA TickStep ==
    ASSUME RegistryInv, Tick
    PROVE  RegistryInv' /\ ActivationStep
<1> USE DEF RegistryInv
<1>1. UNCHANGED <<request, held, beats, requests>>
  BY DEF Tick
<1>2. ASSUME NEW m \in Modules
      PROVE  /\ modules'[m] \in ModuleRow
             /\ modules'[m].status = modules[m].status
             /\ modules[m].lease = 0 => modules'[m].lease = 0
             /\ modules'[m].lease = None => modules[m].lease = None
  BY RegistryAssumption DEF Tick, ReconciledAreExpired, RegistryTypeOK, ModuleRow
<1>3. RegistryTypeOK'
  BY <1>1, <1>2 DEF Tick, ReconciledAreExpired, RegistryTypeOK
<1>4. Held \subseteq Modules
  BY DEF Held, ReconciledAreExpired, RegistryTypeOK
<1>5. ReconciledAreExpired'
  BY <1>1, <1>2, <1>3, <1>4 DEF ReconciledAreExpired, Held, Expired, IsOperational
<1>6. ActivationStep
  BY <1>2 DEF ActivationStep, Stranded, IsOperational
<1> QED
  BY <1>1, <1>5, <1>6

LEMMA RegistryStepHolds ==
    ASSUME RegistryInv, [RegistryNext]_registryVars
    PROVE  RegistryInv' /\ [ActivationStep]_registryVars
<1>1. CASE UNCHANGED registryVars
  BY <1>1 DEF registryVars, RegistryInv, ReconciledAreExpired, RegistryTypeOK, Held, Expired, IsOperational
<1> QED
  BY <1>1, LoadStep, FlushStep, HeartbeatStep, SelectExpiredStep, ReconcileStep, TickStep
     DEF RegistryNext, AdminRequest, Reconcile

\* The strengthening of both properties.
THEOREM RegistryInvariance ==
    RegistrySpec => []RegistryInv
BY RegistryInitHolds, RegistryStepHolds, PTL DEF RegistrySpec

\* Two reconcilers never hold one row, and a row held by reconcile_expired_modules
\* is operational with a lease run out until its cycle ends.
THEOREM ReconciliationIsSafe ==
    RegistrySpec => []ReconciledAreExpired
<1>1. RegistryInv => ReconciledAreExpired
  BY DEF RegistryInv
<1> QED
  BY <1>1, RegistryInvariance, PTL

\* Neither update_module nor a reconciler makes a module operational, and only
\* issue_module_credential over a heartbeat it has not seen leaves an
\* operational module without a lease.
THEOREM ActivationIsByHeartbeat ==
    RegistrySpec => OnlyHeartbeatsActivate
<1>1. RegistryInv /\ [RegistryNext]_registryVars => [ActivationStep]_registryVars
  BY RegistryStepHolds
<1>2. RegistrySpec => [][ActivationStep]_registryVars
  BY <1>1, RegistryInvariance, PTL DEF RegistrySpec
<1> QED
  BY <1>2 DEF OnlyHeartbeatsActivate, ActivationStep
-----------------------------------------------------------------------------
(* The catalogue                                                             *)

\* A resource was activated at its second version and archived at its third.
Level == [draft |-> 1, active |-> 2, archived |-> 3]

\* The cases of the suites among what a job was scheduled with.
CasesOf(refs) == UNION {catalog[ref.of].refs : ref \in {x \in refs : x.of \in Suites}}

CatalogTyped ==
    /\ catalog \in [Governed -> GovernedRow \cup {NotStored}]
    /\ \A r \in Governed : Stored(r) => catalog[r].version = Level[catalog[r].status]
JobsTyped ==
    /\ jobs \in [Jobs -> JobRow \cup {NotStored}] /\ runs \in [Jobs -> RunRow \cup {NotStored}]
    /\ \A j \in Jobs : jobs[j] # NotStored /\ jobs[j].status = "scheduled" => jobs[j].version = 1
ReadingTyped == reading \in [Requests -> ReadRow \cup {Idle}]

CatalogComposed == \A r \in Governed : Stored(r) => \A ref \in catalog[r].refs : WasActive(ref)
JobsComposed ==
    \A j \in Jobs : jobs[j] # NotStored =>
       /\ \A ref \in jobs[j].refs \cup jobs[j].cases : WasActive(ref)
       /\ jobs[j].cases = CasesOf(jobs[j].refs)
RunsScheduled ==
    \A j \in Jobs : runs[j] # NotStored =>
       /\ jobs[j] # NotStored /\ jobs[j].status = "dispatched"
       /\ runs[j].refs = jobs[j].refs /\ runs[j].cases = jobs[j].cases
ReadingComposed ==
    \A q \in Requests : reading[q] # Idle =>
       /\ \A ref \in reading[q].refs \cup reading[q].cases : WasActive(ref)
       /\ reading[q].name \in Jobs => reading[q].cases = CasesOf(reading[q].refs)
       /\ reading[q].name \in FaultExecutions \cup MutationExecutions =>
            \E ref : reading[q].refs = {ref}

CatalogInv ==
    /\ CatalogTyped /\ JobsTyped /\ ReadingTyped
    /\ CatalogComposed /\ JobsComposed /\ RunsScheduled /\ ReadingComposed

\* What a step does to the catalogue: rows stay, with what they are composed
\* of, and every change of status is one version.
Advances ==
    \A r \in Governed : Stored(r) =>
       /\ Stored(r)' /\ catalog'[r].refs = catalog[r].refs
       /\ catalog'[r].version \in {catalog[r].version, catalog[r].version + 1}
       /\ catalog'[r].status = catalog[r].status <=> catalog'[r].version = catalog[r].version

\* A row with the next status.
WithStatus(old, s) == [old EXCEPT !.status = s, !.version = @ + 1]
\* A change of status stores the status at the next version and keeps the
\* references.
LEMMA StatusRow ==
    ASSUME NEW S, NEW R, NEW old \in [status : S, version : Nat, refs : R], NEW s \in S
    PROVE  /\ WithStatus(old, s) \in [status : S, version : Nat, refs : R]
           /\ WithStatus(old, s).status = s /\ WithStatus(old, s).version = old.version + 1
           /\ WithStatus(old, s).refs = old.refs
<1> DEFINE new == [old EXCEPT !.status = s, !.version = @ + 1]
<1>1. old.version + 1 \in Nat
  OBVIOUS
<1>2. new.status = s
  OBVIOUS
<1>3. new.version = old.version + 1
  OBVIOUS
<1>4. new.refs = old.refs
  OBVIOUS
<1>5. new \in [status : S, version : Nat, refs : R]
  BY <1>1
<1> QED
  BY <1>2, <1>3, <1>4, <1>5 DEF WithStatus

\* A stored resource has the version of its status: active is version 2.
LEMMA Versions ==
    ASSUME CatalogTyped, NEW r \in Governed, Stored(r)
    PROVE  catalog[r] \in GovernedRow /\ catalog[r].version \in 1..3
           /\ catalog[r].status \in Statuses /\ catalog[r].refs \in SUBSET Refs
           /\ (catalog[r].status = "active" <=> catalog[r].version = 2)
<1>1. catalog[r] \in GovernedRow
  BY DEF CatalogTyped, Stored
<1> QED
  BY <1>1 DEF CatalogTyped, GovernedRow, Level, Statuses

\* What was activated stays so: no version is taken back.
LEMMA ActiveStays ==
    ASSUME CatalogTyped, CatalogTyped', Advances, NEW ref \in Refs, WasActive(ref)
    PROVE  WasActive(ref)'
<1> DEFINE r == ref.of
<1>1. r \in Governed /\ Stored(r) /\ ref.version = 2 /\ catalog[r].version >= 2
  BY DEF WasActive, Refs
<1>2. Stored(r)' /\ catalog'[r].version \in {catalog[r].version, catalog[r].version + 1}
  BY <1>1 DEF Advances
<1>3. catalog[r].version \in 1..3
  BY <1>1, Versions
<1> HIDE DEF r
<1>4. catalog'[r].version >= 2
  BY ONLY <1>1, <1>2, <1>3
<1> QED
  BY <1>1, <1>2, <1>4 DEF WasActive, r

\* The cases of suites that were activated no longer change.
LEMMA CasesStay ==
    ASSUME Advances, NEW refs \in SUBSET Refs, \A ref \in refs : WasActive(ref)
    PROVE  CasesOf(refs)' = CasesOf(refs)
<1>1. \A ref \in refs : catalog'[ref.of].refs = catalog[ref.of].refs
  BY DEF Advances, WasActive, Refs
<1> QED
  BY <1>1 DEF CasesOf

\* A change of one row.
LEMMA RowChange ==
    ASSUME CatalogTyped, NEW r \in Governed, NEW row \in GovernedRow,
           row.version = Level[row.status],
           catalog' = [catalog EXCEPT ![r] = row],
           Stored(r) => /\ row.refs = catalog[r].refs /\ row.version = catalog[r].version + 1
                        /\ row.status # catalog[r].status
    PROVE  CatalogTyped' /\ Advances
<1>1. row # NotStored
  BY CatalogAssumption
<1>2. catalog' \in [Governed -> GovernedRow \cup {NotStored}]
  BY DEF CatalogTyped
<1>3. catalog'[r] = row /\ \A s \in Governed : s # r => catalog'[s] = catalog[s]
  BY DEF CatalogTyped
<1>4. CatalogTyped'
  BY <1>1, <1>2, <1>3 DEF CatalogTyped, Stored
<1>5. ASSUME NEW s \in Governed, Stored(s)
      PROVE  /\ Stored(s)' /\ catalog'[s].refs = catalog[s].refs
             /\ catalog'[s].version \in {catalog[s].version, catalog[s].version + 1}
             /\ catalog'[s].status = catalog[s].status <=> catalog'[s].version = catalog[s].version
  <2>1. CASE s = r
    <3>1. catalog[r].version \in Nat
      BY <1>5, <2>1, Versions
    <3> QED
      BY <1>1, <1>3, <1>5, <2>1, <3>1 DEF Stored
  <2>2. CASE s # r
    BY <1>3, <1>5, <2>2 DEF Stored
  <2> QED
    BY <2>1, <2>2
<1> QED
  BY <1>4, <1>5 DEF Advances

\* A step that leaves the table alone keeps what is stored in it.
LEMMA NoRowChange ==
    ASSUME CatalogTyped, catalog' = catalog
    PROVE  CatalogTyped' /\ Advances /\ (CatalogComposed => CatalogComposed')
BY DEF CatalogTyped, Advances, Stored, CatalogComposed, WasActive

\* What was composed stays composed when the catalogue advances.
LEMMA ComposedStays ==
    ASSUME CatalogTyped, CatalogTyped', Advances, NEW refs \in SUBSET Refs, NEW cases \in SUBSET Refs,
           \A ref \in refs \cup cases : WasActive(ref)
    PROVE  (\A ref \in refs \cup cases : WasActive(ref)') /\ CasesOf(refs)' = CasesOf(refs)
<1>1. \A ref \in refs \cup cases : WasActive(ref)'
  BY ActiveStays
<1>2. CasesOf(refs)' = CasesOf(refs)
  BY CasesStay
<1> QED
  BY <1>1, <1>2

\* The jobs that a step leaves alone stay what they were.
LEMMA JobsStay ==
    ASSUME CatalogTyped, CatalogTyped', Advances, JobsTyped, JobsComposed, RunsScheduled,
           UNCHANGED <<jobs, runs>>
    PROVE  JobsTyped' /\ JobsComposed' /\ RunsScheduled'
<1>1. JobsTyped' /\ RunsScheduled'
  BY DEF JobsTyped, RunsScheduled
<1>2. ASSUME NEW j \in Jobs, jobs[j] # NotStored
      PROVE  /\ \A ref \in jobs'[j].refs \cup jobs'[j].cases : WasActive(ref)'
             /\ jobs'[j].cases = CasesOf(jobs[j].refs)'
  <2>1. PICK refs, cases : refs = jobs[j].refs /\ cases = jobs[j].cases
    OBVIOUS
  <2>2. refs \in SUBSET Refs /\ cases \in SUBSET Refs
    BY <1>2, <2>1 DEF JobsTyped, JobRow
  <2>3. (\A ref \in refs \cup cases : WasActive(ref)) /\ cases = CasesOf(refs)
    BY <1>2, <2>1 DEF JobsComposed
  <2>4. (\A ref \in refs \cup cases : WasActive(ref)') /\ CasesOf(refs)' = CasesOf(refs)
    BY <2>2, <2>3, ComposedStays
  <2>5. jobs'[j].refs = refs /\ jobs'[j].cases = cases
    BY <2>1
  <2> QED
    BY <2>3, <2>4, <2>5
<1>3. JobsComposed'
  BY <1>2 DEF JobsComposed
<1> QED
  BY <1>1, <1>3

\* So do the requests that a step leaves alone.
OneReading(r) ==
    /\ r \in ReadRow
    /\ \A ref \in r.refs \cup r.cases : WasActive(ref)
    /\ r.name \in Jobs => r.cases = CasesOf(r.refs)
    /\ r.name \in FaultExecutions \cup MutationExecutions => \E ref : r.refs = {ref}

\* The invariant of the requests in flight, one request at a time.
LEMMA ReadingIs ==
    /\ ReadingTyped /\ ReadingComposed
         <=> /\ reading \in [Requests -> ReadRow \cup {Idle}]
             /\ \A q \in Requests : reading[q] # Idle => OneReading(reading[q])
    /\ (ReadingTyped /\ ReadingComposed)'
         <=> /\ reading' \in [Requests -> ReadRow \cup {Idle}]
             /\ \A q \in Requests : reading'[q] # Idle => OneReading(reading[q])'
BY DEF ReadingTyped, ReadingComposed, OneReading

\* What a request has read stays sound while the catalogue advances.
LEMMA ReadingStays ==
    ASSUME CatalogTyped, CatalogTyped', Advances, NEW r, OneReading(r)
    PROVE  OneReading(r)'
<1>1. PICK refs, cases : refs = r.refs /\ cases = r.cases
  OBVIOUS
<1>2. refs \in SUBSET Refs /\ cases \in SUBSET Refs
  BY <1>1 DEF OneReading, ReadRow, ReadingRow
<1>3. \A ref \in refs \cup cases : WasActive(ref)
  BY <1>1 DEF OneReading
<1>4. (\A ref \in refs \cup cases : WasActive(ref)') /\ CasesOf(refs)' = CasesOf(refs)
  BY <1>2, <1>3, ComposedStays
<1> QED
  BY <1>1, <1>4 DEF OneReading

\* A step puts one request to what it has read now, or to nothing.
LEMMA OneReads ==
    ASSUME CatalogTyped, CatalogTyped', Advances, ReadingTyped, ReadingComposed,
           NEW q \in Requests, NEW r, r = Idle \/ OneReading(r)',
           reading' = [reading EXCEPT ![q] = r]
    PROVE  ReadingTyped' /\ ReadingComposed'
<1>1. reading \in [Requests -> ReadRow \cup {Idle}]
      /\ \A p \in Requests : reading[p] # Idle => OneReading(reading[p])
  BY ReadingIs
<1>2. r \in ReadRow \cup {Idle}
  BY DEF OneReading
<1>3. reading' \in [Requests -> ReadRow \cup {Idle}]
  BY <1>1, <1>2
<1>4. reading'[q] = r /\ \A p \in Requests : p # q => reading'[p] = reading[p]
  BY <1>1
<1>5. ASSUME NEW p \in Requests, reading'[p] # Idle PROVE OneReading(reading[p])'
  <2>1. CASE p = q
    <3>1. PICK s : s = reading'[p]
      OBVIOUS
    <3>2. s = r /\ OneReading(s)'
      BY <1>4, <1>5, <2>1, <3>1
    <3> QED
      BY <3>1, <3>2 DEF OneReading
  <2>2. CASE p # q
    <3>1. PICK s : s = reading[p]
      OBVIOUS
    <3>2. s = reading'[p] /\ s # Idle
      BY <1>4, <1>5, <2>2, <3>1
    <3>3. OneReading(s)
      BY <1>1, <3>1, <3>2
    <3>4. OneReading(s)'
      BY <3>3, ReadingStays
    <3> QED
      BY <3>2, <3>4 DEF OneReading
  <2> QED
    BY <2>1, <2>2
<1> QED
  BY <1>3, <1>5, ReadingIs

\* A step that leaves the requests in flight alone keeps what they have read.
LEMMA NoneReads ==
    ASSUME CatalogTyped, CatalogTyped', Advances, ReadingTyped, ReadingComposed, reading' = reading
    PROVE  ReadingTyped' /\ ReadingComposed'
<1>1. reading \in [Requests -> ReadRow \cup {Idle}]
      /\ \A p \in Requests : reading[p] # Idle => OneReading(reading[p])
  BY ReadingIs
<1>2. ASSUME NEW p \in Requests, reading'[p] # Idle PROVE OneReading(reading[p])'
  <2>1. PICK s : s = reading[p]
    OBVIOUS
  <2>2. OneReading(s)
    BY <1>1, <1>2, <2>1
  <2>3. OneReading(s)'
    BY <2>2, ReadingStays
  <2> QED
    BY <2>1, <2>3 DEF OneReading
<1> QED
  BY <1>1, <1>2, ReadingIs

\* One row changes, to one that is composed of active versions.
LEMMA RowComposed ==
    ASSUME CatalogTyped, CatalogComposed, NEW r \in Governed, NEW row \in GovernedRow,
           row.version = Level[row.status],
           catalog' = [catalog EXCEPT ![r] = row],
           \A ref \in row.refs : WasActive(ref),
           Stored(r) => /\ row.refs = catalog[r].refs /\ row.version = catalog[r].version + 1
                        /\ row.status # catalog[r].status
    PROVE  CatalogTyped' /\ Advances /\ CatalogComposed'
<1>1. CatalogTyped' /\ Advances
  BY RowChange
<1>2. catalog'[r] = row /\ \A s \in Governed : s # r => catalog'[s] = catalog[s]
  BY DEF CatalogTyped
<1>3. ASSUME NEW s \in Governed, Stored(s)', NEW ref \in catalog'[s].refs PROVE WasActive(ref)'
  <2>1. PICK x : x = ref
    OBVIOUS
  <2>2. x \in Refs
    BY <1>1, <1>3, <2>1 DEF CatalogTyped, Stored, GovernedRow
  <2>3. WasActive(x)
    <3>1. CASE s = r
      BY <1>2, <1>3, <2>1, <3>1
    <3>2. CASE s # r
      BY <1>2, <1>3, <2>1, <3>2 DEF CatalogComposed, Stored
    <3> QED
      BY <3>1, <3>2
  <2> QED
    BY <1>1, <2>1, <2>2, <2>3, ActiveStays
<1> QED
  BY <1>1, <1>3 DEF CatalogComposed

\* A step that stores one row, first or next version, keeps the catalogue.
LEMMA RowStep ==
    ASSUME CatalogInv, NEW r \in Governed, NEW row \in GovernedRow,
           row.version = Level[row.status],
           catalog' = [catalog EXCEPT ![r] = row],
           \A ref \in row.refs : WasActive(ref),
           Stored(r) => /\ row.refs = catalog[r].refs /\ row.version = catalog[r].version + 1
                        /\ row.status # catalog[r].status,
           UNCHANGED <<jobs, runs, reading>>
    PROVE  CatalogInv' /\ Advances
<1>1. CatalogTyped' /\ Advances /\ CatalogComposed'
  BY RowComposed DEF CatalogInv
<1>2. JobsTyped' /\ JobsComposed' /\ RunsScheduled'
  BY <1>1, JobsStay DEF CatalogInv
<1>3. ReadingTyped' /\ ReadingComposed'
  BY <1>1, NoneReads DEF CatalogInv
<1> QED
  BY <1>1, <1>2, <1>3 DEF CatalogInv

\* A request reads, and nothing else changes.
LEMMA ReadStep ==
    ASSUME CatalogInv, NEW q \in Requests, NEW r, r = Idle \/ OneReading(r),
           reading' = [reading EXCEPT ![q] = r], UNCHANGED <<catalog, jobs, runs>>
    PROVE  CatalogInv' /\ Advances
<1>1. CatalogTyped' /\ Advances /\ CatalogComposed'
  BY NoRowChange DEF CatalogInv
<1>2. JobsTyped' /\ JobsComposed' /\ RunsScheduled'
  BY <1>1, JobsStay DEF CatalogInv
<1>3. r = Idle \/ OneReading(r)'
  BY <1>1, ReadingStays DEF CatalogInv
<1>4. ReadingTyped' /\ ReadingComposed'
  BY <1>1, <1>3, OneReads DEF CatalogInv
<1> QED
  BY <1>1, <1>2, <1>4 DEF CatalogInv

\* Creating a resource stores a draft that is composed of nothing.
LEMMA CreateStep ==
    ASSUME CatalogInv, NEW r \in Governed, Create(r)
    PROVE  CatalogInv' /\ Advances
<1> DEFINE row == NewRow({})
<1>1. row \in GovernedRow /\ row.version = Level[row.status] /\ row.refs = {}
  BY DEF NewRow, GovernedRow, Statuses, Level
<1>2. ~Stored(r) /\ catalog' = [catalog EXCEPT ![r] = row] /\ UNCHANGED <<jobs, runs, reading>>
  BY DEF Create
<1> HIDE DEF row
<1> QED
  BY <1>1, <1>2, RowStep

\* _change_status moves one resource along its transitions, one version up.
LEMMA ChangeStatusStep ==
    ASSUME CatalogInv, NEW r \in Governed, NEW status \in Statuses, NEW expected,
           ChangeStatus(r, status, expected)
    PROVE  CatalogInv' /\ Advances
<1> DEFINE old == catalog[r]
           row == WithStatus(old, status)
<1>1. /\ Stored(r) /\ old.status # status /\ status \in Transitions[old.status]
      /\ UNCHANGED <<jobs, runs, reading>>
      /\ catalog' = [catalog EXCEPT ![r].status = status, ![r].version = @ + 1]
  BY DEF ChangeStatus
<1>2. /\ old \in GovernedRow /\ old.version = Level[old.status] /\ old.status \in Statuses
      /\ catalog \in [Governed -> GovernedRow \cup {NotStored}]
      /\ \A ref \in old.refs : WasActive(ref)
  BY <1>1, Versions DEF CatalogInv, CatalogTyped, CatalogComposed
<1>3. catalog' = [catalog EXCEPT ![r] = row]
  BY <1>1, <1>2 DEF WithStatus
<1> HIDE DEF old
<1>4. /\ row.status = status /\ row.version = old.version + 1 /\ row.refs = old.refs
      /\ row \in [status : Statuses, version : Nat, refs : SUBSET Refs]
  <2> DEFINE R == SUBSET Refs
  <2>1. old \in [status : Statuses, version : Nat, refs : R]
    BY ONLY <1>2 DEF GovernedRow
  <2> HIDE DEF R
  <2>2. /\ row.status = status /\ row.version = old.version + 1 /\ row.refs = old.refs
        /\ row \in [status : Statuses, version : Nat, refs : R]
    BY ONLY <2>1, status \in Statuses, StatusRow
  <2> QED
    BY ONLY <2>2 DEF R
<1> HIDE DEF row
<1>5. Level[status] = Level[old.status] + 1 /\ Level[status] \in 1..3 /\ Level[old.status] \in Nat
  BY <1>1, <1>2 DEF Transitions, Level, Statuses
<1>6. row \in GovernedRow
  <2>1. row.version \in 1..3
    BY ONLY <1>2, <1>4, <1>5
  <2> QED
    BY ONLY <1>4, <2>1 DEF GovernedRow
<1> HIDE DEF row
<1> QED
  BY <1>1, <1>2, <1>3, <1>4, <1>5, <1>6, RowStep DEF old

\* What may happen to the resources R.
LEMMA GovernStep ==
    ASSUME CatalogInv, NEW R \in SUBSET Governed, Govern(R)
    PROVE  CatalogInv' /\ Advances
<1>1. CASE \E r \in R : CreateDefinition(r) \/ CreateEnvironmentProfile(r) \/ CreateFaultCampaign(r)
  BY <1>1, CreateStep DEF CreateDefinition, CreateEnvironmentProfile, CreateFaultCampaign
<1>2. CASE \E r \in R, status \in Statuses, expected \in 1..2 : ChangeStatus(r, status, expected)
  BY <1>2, ChangeStatusStep
<1> QED
  BY <1>1, <1>2 DEF Govern, UpdateCatalogStatus, UpdateProfileStatus, UpdateFaultCampaignStatus,
     UpdateMutationCampaignStatus

\* The present version of an active resource is one at which it was active.
LEMMA RefIsActive ==
    ASSUME CatalogTyped, NEW r \in Governed, IsActive(r)
    PROVE  RefTo(r) \in Refs /\ WasActive(RefTo(r)) /\ RefTo(r).of = r
<1>1. Stored(r) /\ catalog[r].status = "active" /\ catalog[r].version = 2
  BY Versions DEF IsActive
<1> QED
  BY <1>1 DEF RefTo, Refs, WasActive

\* A request for a suite reads definitions that are active.
LEMMA ReadDefinitionsStep ==
    ASSUME CatalogInv, NEW q \in Requests, NEW s \in Suites, NEW ds \in SUBSET Definitions,
           ReadDefinitions(q, s, ds)
    PROVE  CatalogInv' /\ Advances
<1> DEFINE refs == {RefTo(d) : d \in ds}
           r == Reading(s, refs, {})
<1>1. refs \in SUBSET Refs /\ \A ref \in refs : WasActive(ref)
  BY RefIsActive DEF ReadDefinitions, CatalogInv, Governed
<1>2. reading' = [reading EXCEPT ![q] = r] /\ UNCHANGED <<catalog, jobs, runs>>
  BY DEF ReadDefinitions, Reads
<1> HIDE DEF refs
<1>3. /\ r.name = s /\ r.refs = refs /\ r.cases = {}
      /\ r = [name |-> s, refs |-> refs, cases |-> {}]
  BY DEF Reading
<1>4. s \notin Jobs /\ s \notin FaultExecutions \cup MutationExecutions
  BY CatalogAssumption, ExecutionAssumption DEF Composed
<1>5. r \in ReadRow
  BY <1>1, <1>3 DEF ReadRow, ReadingRow, Composed
<1> HIDE DEF r
<1>6. OneReading(r)
  BY <1>1, <1>3, <1>4, <1>5 DEF OneReading
<1> QED
  BY <1>2, <1>6, ReadStep

\* A request that reads one active resource.
LEMMA ReadOneStep ==
    ASSUME CatalogInv, NEW q \in Requests, NEW c \in Governed, NEW name, IsActive(c),
           name \in Composed \cup Jobs \cup FaultExecutions \cup MutationExecutions,
           name \in Jobs => c \notin Suites,
           Reads(q, name, {RefTo(c)}, {})
    PROVE  CatalogInv' /\ Advances
<1> DEFINE r == Reading(name, {RefTo(c)}, {})
<1>1. RefTo(c) \in Refs /\ WasActive(RefTo(c)) /\ RefTo(c).of = c
  BY RefIsActive DEF CatalogInv
<1>2. reading' = [reading EXCEPT ![q] = r] /\ UNCHANGED <<catalog, jobs, runs>>
  BY DEF Reads
<1>3. /\ r.name = name /\ r.refs = {RefTo(c)} /\ r.cases = {}
      /\ r = [name |-> name, refs |-> {RefTo(c)}, cases |-> {}]
  BY DEF Reading
<1>4. name \in Jobs => CasesOf({RefTo(c)}) = {}
  BY <1>1 DEF CasesOf
<1>5. r \in ReadRow
  BY <1>1, <1>3 DEF ReadRow, ReadingRow
<1> HIDE DEF r
<1>6. OneReading(r)
  BY <1>1, <1>3, <1>4, <1>5 DEF OneReading
<1> QED
  BY <1>2, <1>6, ReadStep

\* A request for a mutation campaign reads a suite that is active.
LEMMA ReadSuiteForCampaignStep ==
    ASSUME CatalogInv, NEW q \in Requests, NEW c \in MutationCampaigns, NEW s \in Suites,
           ReadSuiteForCampaign(q, c, s)
    PROVE  CatalogInv' /\ Advances
<1>1. c \in Composed /\ c \notin Jobs /\ s \in Governed
  BY CatalogAssumption DEF Composed, Governed
<1> QED
  BY <1>1, ReadOneStep DEF ReadSuiteForCampaign

\* A request for a job first reads the environment profile it names, if any.
LEMMA ReadProfileStep ==
    ASSUME CatalogInv, NEW q \in Requests, NEW j \in Jobs, NEW ps \in SUBSET Profiles, ReadProfile(q, j, ps)
    PROVE  CatalogInv' /\ Advances
<1> DEFINE refs == {RefTo(p) : p \in ps}
           r == Reading(j, refs, {})
<1>1. ASSUME NEW p \in ps PROVE RefTo(p) \in Refs /\ WasActive(RefTo(p)) /\ RefTo(p).of \in Profiles
  <2>1. p \in Governed /\ IsActive(p)
    BY DEF ReadProfile, Governed
  <2> QED
    BY <2>1, RefIsActive DEF CatalogInv
<1>2. \A ref \in refs : ref \in Refs /\ WasActive(ref) /\ ref.of \in Profiles
  BY <1>1
<1>3. reading' = [reading EXCEPT ![q] = r] /\ UNCHANGED <<catalog, jobs, runs>>
  BY DEF ReadProfile, Reads
<1> HIDE DEF refs
<1>4. r.name = j /\ r.refs = refs /\ r.cases = {} /\ r = [name |-> j, refs |-> refs, cases |-> {}]
  BY DEF Reading
<1>5. \A ref \in refs : ref.of \notin Suites
  BY <1>2, CatalogAssumption
<1>6. CasesOf(refs) = {}
  BY <1>5 DEF CasesOf
<1>7. r \in ReadRow
  BY <1>2, <1>4 DEF ReadRow, ReadingRow
<1> HIDE DEF r
<1>8. OneReading(r)
  <2>1. j \notin FaultExecutions \cup MutationExecutions
    BY ExecutionAssumption
  <2> QED
    BY <1>2, <1>4, <1>6, <1>7, <2>1 DEF OneReading
<1> QED
  BY <1>3, <1>8, ReadStep

\* ... then the suite, with the cases it is composed of.
LEMMA ReadSuiteForJobStep ==
    ASSUME CatalogInv, NEW q \in Requests, NEW s \in Suites, ReadSuiteForJob(q, s)
    PROVE  CatalogInv' /\ Advances
<1> DEFINE old == reading[q]
           refs == old.refs \cup {RefTo(s)}
           cases == catalog[s].refs
           r == Reading(old.name, refs, cases)
<1>1. /\ old # Idle /\ old.name \in Jobs /\ IsActive(s)
      /\ \A ref \in old.refs : ref.of \notin Suites
      /\ reading' = [reading EXCEPT ![q] = r] /\ UNCHANGED <<catalog, jobs, runs>>
  BY DEF ReadSuiteForJob, Reads
<1>2. OneReading(old)
  BY <1>1, ReadingIs DEF CatalogInv
<1>3. s \in Governed /\ Stored(s)
  BY <1>1 DEF Governed, IsActive
<1>4. RefTo(s) \in Refs /\ WasActive(RefTo(s)) /\ RefTo(s).of = s
  BY <1>1, <1>3, RefIsActive DEF CatalogInv
<1>5. cases \in SUBSET Refs /\ \A ref \in cases : WasActive(ref)
  BY <1>3, Versions DEF CatalogInv, CatalogComposed
<1>6. old.refs \in SUBSET Refs /\ \A ref \in old.refs : WasActive(ref)
  BY <1>2 DEF OneReading, ReadRow, ReadingRow
<1>7. CasesOf(refs) = cases
  <2>1. {x \in refs : x.of \in Suites} = {RefTo(s)}
    BY <1>1, <1>4
  <2> QED
    BY <1>4, <2>1 DEF CasesOf
<1>8. /\ r.name = old.name /\ r.refs = refs /\ r.cases = cases
      /\ r = [name |-> old.name, refs |-> refs, cases |-> cases]
  BY DEF Reading
<1>9. old.name \notin FaultExecutions \cup MutationExecutions
  BY <1>1, ExecutionAssumption
<1>10. refs \in SUBSET Refs /\ \A ref \in refs : WasActive(ref)
  BY <1>4, <1>6
<1>11. OneReading(r)
  <2> HIDE DEF refs, cases, old, r
  <2>1. r \in ReadRow
    BY <1>1, <1>5, <1>8, <1>10 DEF ReadRow, ReadingRow
  <2> QED
    BY <1>5, <1>7, <1>8, <1>9, <1>10, <2>1 DEF OneReading
<1> HIDE DEF r
<1> QED
  BY <1>1, <1>11, ReadStep

\* A request that fails leaves nothing.
LEMMA AbandonStep ==
    ASSUME CatalogInv, NEW q \in Requests, Abandon(q)
    PROVE  CatalogInv' /\ Advances
BY ReadStep DEF Abandon

\* Storing what was composed keeps it of versions that were active.
LEMMA PersistStep ==
    ASSUME CatalogInv, NEW q \in Requests, Persist(q)
    PROVE  CatalogInv' /\ Advances
<1> DEFINE r == reading[q]
           row == NewRow(r.refs)
<1>1. /\ r # Idle /\ r.name \in Suites \cup MutationCampaigns
      /\ catalog' = IF Stored(r.name) THEN catalog ELSE [catalog EXCEPT ![r.name] = row]
      /\ reading' = [reading EXCEPT ![q] = Idle] /\ UNCHANGED <<jobs, runs>>
  BY DEF Persist
<1>2. OneReading(r)
  BY <1>1, ReadingIs DEF CatalogInv
<1>3. r.refs \in SUBSET Refs /\ \A ref \in r.refs : WasActive(ref)
  BY <1>2 DEF OneReading, ReadRow, ReadingRow
<1>4. row \in GovernedRow /\ row.version = Level[row.status] /\ row.refs = r.refs
  BY <1>3 DEF NewRow, GovernedRow, Statuses, Level
<1>5. r.name \in Governed
  BY <1>1 DEF Governed
<1>6. CatalogTyped' /\ Advances /\ CatalogComposed'
  <2>1. CASE Stored(r.name)
    BY <1>1, <2>1, NoRowChange DEF CatalogInv
  <2>2. CASE ~Stored(r.name)
    <3> HIDE DEF row
    <3> QED
      BY <1>1, <1>3, <1>4, <1>5, <2>2, RowComposed DEF CatalogInv
  <2> QED
    BY <2>1, <2>2
<1>7. JobsTyped' /\ JobsComposed' /\ RunsScheduled'
  BY <1>1, <1>6, JobsStay DEF CatalogInv
<1>8. ReadingTyped' /\ ReadingComposed'
  BY <1>1, <1>6, OneReads DEF CatalogInv
<1> QED
  BY <1>6, <1>7, <1>8 DEF CatalogInv

\* A command that stores a job leaves the catalogue alone.
LEMMA JobStep ==
    ASSUME CatalogInv, catalog' = catalog, JobsTyped', JobsComposed', RunsScheduled',
           \/ reading' = reading
           \/ \E q \in Requests : reading' = [reading EXCEPT ![q] = Idle]
    PROVE  CatalogInv' /\ Advances
<1>1. CatalogTyped' /\ Advances /\ CatalogComposed'
  BY NoRowChange DEF CatalogInv
<1>2. ReadingTyped' /\ ReadingComposed'
  BY <1>1, OneReads, NoneReads DEF CatalogInv
<1> QED
  BY <1>1, <1>2 DEF CatalogInv

\* A scheduled job copies the references and cases its request has read.
LEMMA CreateTestJobStep ==
    ASSUME CatalogInv, NEW q \in Requests, CreateTestJob(q)
    PROVE  CatalogInv' /\ Advances
<1> DEFINE r == reading[q]
           j == r.name
           row == [status |-> "scheduled", version |-> 1, refs |-> r.refs, cases |-> r.cases]
<1>1. /\ r # Idle /\ j \in Jobs
      /\ jobs' = IF jobs[j] # NotStored THEN jobs ELSE [jobs EXCEPT ![j] = row]
      /\ reading' = [reading EXCEPT ![q] = Idle] /\ UNCHANGED <<catalog, runs>>
  BY DEF CreateTestJob
<1>2. OneReading(r)
  BY <1>1, ReadingIs DEF CatalogInv
<1>3. /\ r.refs \in SUBSET Refs /\ r.cases \in SUBSET Refs
      /\ \A ref \in r.refs \cup r.cases : WasActive(ref)
      /\ r.cases = CasesOf(r.refs)
  BY <1>1, <1>2 DEF OneReading, ReadRow, ReadingRow
<1>4. row \in JobRow /\ row # NotStored
  BY <1>3, CatalogAssumption DEF JobRow
<1>5. CASE jobs[j] # NotStored
  <2>1. UNCHANGED <<jobs, runs, catalog>>
    BY <1>1, <1>5
  <2>2. CatalogTyped' /\ Advances
    BY <2>1, NoRowChange DEF CatalogInv
  <2>3. JobsTyped' /\ JobsComposed' /\ RunsScheduled'
    BY <2>1, <2>2, JobsStay DEF CatalogInv
  <2> QED
    BY <1>1, <2>1, <2>3, JobStep
<1>6. CASE jobs[j] = NotStored
  <2>1. jobs \in [Jobs -> JobRow \cup {NotStored}]
    BY DEF CatalogInv, JobsTyped
  <2>2. PICK c, new : c = j /\ new = row
    OBVIOUS
  <2> HIDE DEF row
  <2>3. jobs' = [jobs EXCEPT ![c] = new] /\ c \in Jobs /\ new \in JobRow /\ jobs[c] = NotStored
    BY <1>1, <1>4, <1>6, <2>2
  <2>4. jobs'[c] = new /\ \A i \in Jobs : i # c => jobs'[i] = jobs[i]
    BY ONLY <2>1, <2>3
  <2>5. jobs' \in [Jobs -> JobRow \cup {NotStored}]
    BY ONLY <2>1, <2>3
  <2>6. new.version = 1 /\ new.status = "scheduled" /\ new.refs = r.refs /\ new.cases = r.cases
    BY <2>2 DEF row
  <2> HIDE DEF r
  <2>7. JobsTyped'
    BY <1>1, <2>4, <2>5, <2>6 DEF JobsTyped, CatalogInv
  <2>8. JobsComposed'
    <3>1. ASSUME NEW i \in Jobs, jobs'[i] # NotStored
          PROVE  /\ \A ref \in jobs'[i].refs \cup jobs'[i].cases : WasActive(ref)'
                 /\ jobs'[i].cases = CasesOf(jobs[i].refs)'
      <4>1. \A ref : WasActive(ref)' <=> WasActive(ref)
        BY <1>1 DEF WasActive, Stored
      <4>2. \A refs : CasesOf(refs)' = CasesOf(refs)
        BY <1>1 DEF CasesOf
      <4>3. CasesOf(jobs[i].refs)' = CasesOf(jobs'[i].refs)
        BY <1>1 DEF CasesOf
      <4>4. CASE i = c
        <5>1. jobs'[i] = new
          BY <2>4, <4>4
        <5> QED
          BY ONLY <1>3, <2>6, <4>1, <4>3, <5>1
      <4>5. CASE i # c
        <5>1. jobs'[i] = jobs[i]
          BY <2>4, <4>5
        <5>2. /\ \A ref \in jobs[i].refs \cup jobs[i].cases : WasActive(ref)
              /\ jobs[i].cases = CasesOf(jobs[i].refs)
          BY <3>1, <5>1 DEF CatalogInv, JobsComposed
        <5> QED
          BY ONLY <4>1, <4>3, <5>1, <5>2
      <4> QED
        BY <4>4, <4>5
    <3> QED
      BY <3>1 DEF JobsComposed
  <2>9. RunsScheduled'
    <3>1. \A i \in Jobs : runs'[i] # NotStored => i # c
      BY <1>1, <2>3 DEF CatalogInv, RunsScheduled
    <3> QED
      BY <1>1, <2>4, <3>1 DEF CatalogInv, RunsScheduled
  <2> QED
    BY <1>1, <2>7, <2>8, <2>9, JobStep
<1> QED
  BY <1>5, <1>6

\* A job changes its status once.
LEMMA JobChanges ==
    ASSUME CatalogInv, NEW j \in Jobs, jobs[j] # NotStored, jobs[j].status = "scheduled",
           NEW s \in {"dispatched", "cancelled"},
           jobs' = [jobs EXCEPT ![j].status = s, ![j].version = @ + 1],
           catalog' = catalog
    PROVE  /\ jobs' \in [Jobs -> JobRow \cup {NotStored}]
           /\ \A i \in Jobs : i # j => jobs'[i] = jobs[i]
           /\ jobs'[j] # NotStored /\ jobs'[j].status = s
           /\ jobs'[j].refs = jobs[j].refs /\ jobs'[j].cases = jobs[j].cases
           /\ JobsComposed'
<1> DEFINE old == jobs[j]
           new == [old EXCEPT !.status = s, !.version = @ + 1]
           R == SUBSET Refs
           S == {"scheduled", "dispatched", "cancelled"}
<1>1. /\ old \in JobRow /\ old.version = 1 /\ jobs \in [Jobs -> JobRow \cup {NotStored}]
  BY DEF CatalogInv, JobsTyped
<1>2. jobs' = [jobs EXCEPT ![j] = new]
  BY <1>1
<1>3. /\ new \in JobRow /\ new.status = s /\ new.refs = old.refs /\ new.cases = old.cases
  <2>1. old \in [status : S, version : 1..2, refs : R, cases : R]
    BY ONLY <1>1 DEF JobRow
  <2> HIDE DEF R, S, old
  <2>2. s \in S
    BY DEF S
  <2>3. new.status = s
    BY ONLY <2>1, <2>2
  <2>4. new.refs = old.refs
    BY ONLY <2>1, <2>2
  <2>5. new.cases = old.cases
    BY ONLY <2>1, <2>2
  <2>6. new \in [status : S, version : 1..2, refs : R, cases : R]
    <3> DEFINE V == 1..2
    <3>1. old.version + 1 \in V
      BY ONLY <1>1
    <3>2. old \in [status : S, version : V, refs : R, cases : R]
      BY ONLY <2>1
    <3> HIDE DEF V
    <3>3. new \in [status : S, version : V, refs : R, cases : R]
      BY ONLY <2>2, <3>1, <3>2
    <3> QED
      BY ONLY <3>3 DEF V
  <2> QED
    BY ONLY <2>3, <2>4, <2>5, <2>6 DEF R, S, JobRow
<1> HIDE DEF new
<1>4. jobs'[j] = new /\ \A i \in Jobs : i # j => jobs'[i] = jobs[i]
  BY ONLY <1>1, <1>2
<1>5. jobs' \in [Jobs -> JobRow \cup {NotStored}]
  BY ONLY <1>1, <1>2, <1>3
<1>6. new # NotStored
  BY <1>3, CatalogAssumption
<1>7. ASSUME NEW i \in Jobs, jobs'[i] # NotStored
      PROVE  /\ \A ref \in jobs'[i].refs \cup jobs'[i].cases : WasActive(ref)'
             /\ jobs'[i].cases = CasesOf(jobs[i].refs)'
  <2>1. \A ref : WasActive(ref)' <=> WasActive(ref)
    BY DEF WasActive, Stored
  <2>2. CasesOf(jobs[i].refs)' = CasesOf(jobs'[i].refs)
    BY DEF CasesOf
  <2>3. jobs'[i].refs = jobs[i].refs /\ jobs'[i].cases = jobs[i].cases /\ jobs[i] # NotStored
    BY <1>3, <1>4, <1>7
  <2>4. /\ \A ref \in jobs[i].refs \cup jobs[i].cases : WasActive(ref)
        /\ jobs[i].cases = CasesOf(jobs[i].refs)
    BY <2>3 DEF CatalogInv, JobsComposed
  <2> QED
    BY ONLY <2>1, <2>2, <2>3, <2>4
<1>8. JobsComposed'
  BY <1>7 DEF JobsComposed
<1> QED
  BY <1>3, <1>4, <1>5, <1>6, <1>8

\* Dispatching a job copies its references and cases to the run.
LEMMA DispatchJobStep ==
    ASSUME CatalogInv, NEW j \in Jobs, DispatchJob(j)
    PROVE  CatalogInv' /\ Advances
<1> DEFINE row == [refs |-> jobs[j].refs, cases |-> jobs[j].cases]
<1>1. /\ jobs[j] # NotStored /\ jobs[j].status = "scheduled"
      /\ runs' = [runs EXCEPT ![j] = row]
      /\ jobs' = [jobs EXCEPT ![j].status = "dispatched", ![j].version = @ + 1]
      /\ UNCHANGED <<catalog, reading>>
  BY DEF DispatchJob
<1>2. /\ jobs' \in [Jobs -> JobRow \cup {NotStored}]
      /\ \A i \in Jobs : i # j => jobs'[i] = jobs[i]
      /\ jobs'[j] # NotStored /\ jobs'[j].status = "dispatched"
      /\ jobs'[j].refs = jobs[j].refs /\ jobs'[j].cases = jobs[j].cases
      /\ JobsComposed'
  BY <1>1, JobChanges
<1>3. row \in RunRow
  BY <1>1 DEF CatalogInv, JobsTyped, JobRow, RunRow
<1>4. /\ row.refs = jobs[j].refs /\ row.cases = jobs[j].cases
  OBVIOUS
<1> HIDE DEF row
<1>5. runs \in [Jobs -> RunRow \cup {NotStored}]
  BY DEF CatalogInv, JobsTyped
<1>6. /\ runs' \in [Jobs -> RunRow \cup {NotStored}]
      /\ runs'[j] = row /\ \A i \in Jobs : i # j => runs'[i] = runs[i]
  BY <1>1, <1>3, <1>5
<1>7. JobsTyped'
  <2>1. \A i \in Jobs : jobs'[i] # NotStored /\ jobs'[i].status = "scheduled" => jobs'[i].version = 1
    BY <1>2 DEF CatalogInv, JobsTyped
  <2> QED
    BY <1>2, <1>6, <2>1 DEF JobsTyped
<1>8. RunsScheduled'
  BY <1>2, <1>4, <1>6 DEF CatalogInv, RunsScheduled
<1> QED
  BY <1>1, <1>2, <1>7, <1>8, JobStep

\* Cancelling a job changes its status and version only.
LEMMA CancelTestJobStep ==
    ASSUME CatalogInv, NEW j \in Jobs, CancelTestJob(j)
    PROVE  CatalogInv' /\ Advances
<1>1. /\ jobs[j] # NotStored /\ jobs[j].status = "scheduled"
      /\ jobs' = [jobs EXCEPT ![j].status = "cancelled", ![j].version = @ + 1]
      /\ UNCHANGED <<catalog, runs, reading>>
  BY DEF CancelTestJob
<1>2. /\ jobs' \in [Jobs -> JobRow \cup {NotStored}]
      /\ \A i \in Jobs : i # j => jobs'[i] = jobs[i]
      /\ jobs'[j] # NotStored /\ jobs'[j].status = "cancelled"
      /\ JobsComposed'
  BY <1>1, JobChanges
<1>3. JobsTyped'
  BY <1>1, <1>2 DEF CatalogInv, JobsTyped
<1>4. RunsScheduled'
  <2>1. runs[j] = NotStored
    BY <1>1 DEF CatalogInv, RunsScheduled
  <2> QED
    BY <1>1, <1>2, <2>1 DEF CatalogInv, RunsScheduled
<1> QED
  BY <1>1, <1>2, <1>3, <1>4, JobStep

\* Every step of a request that composes keeps the catalogue.
LEMMA ComposeStep ==
    ASSUME CatalogInv, NEW q \in Requests, Compose(q)
    PROVE  CatalogInv' /\ Advances
BY ReadDefinitionsStep, ReadSuiteForCampaignStep, PersistStep, AbandonStep DEF Compose

\* Every step of a request that schedules keeps the catalogue.
LEMMA ScheduleStep ==
    ASSUME CatalogInv, NEW q \in Requests, Schedule(q)
    PROVE  CatalogInv' /\ Advances
BY ReadProfileStep, ReadSuiteForJobStep, CreateTestJobStep, DispatchJobStep, CancelTestJobStep
   DEF Schedule

\* A step of another part keeps the catalogue.
LEMMA CatalogStays ==
    ASSUME CatalogInv, UNCHANGED catalogVars
    PROVE  CatalogInv' /\ Advances
<1>1. catalog' = catalog /\ UNCHANGED <<jobs, runs>> /\ reading' = reading
  BY DEF catalogVars
<1>2. CatalogTyped' /\ Advances
  BY <1>1, NoRowChange DEF CatalogInv
<1>3. JobsTyped' /\ JobsComposed' /\ RunsScheduled'
  BY <1>1, <1>2, JobsStay DEF CatalogInv
<1> QED
  BY <1>1, <1>3, JobStep

\* The catalogue's invariant implies what the runs check of it.
LEMMA CatalogHolds ==
    ASSUME CatalogInv
    PROVE  CatalogTypeOK /\ CompositionsAreOfActiveVersions /\ RunsAreWhatWasScheduled
<1>1. CatalogTypeOK
  BY DEF CatalogInv, CatalogTyped, JobsTyped, CatalogTypeOK
<1>2. CompositionsAreOfActiveVersions
  BY DEF CatalogInv, CatalogComposed, JobsComposed, CompositionsAreOfActiveVersions
<1>3. RunsAreWhatWasScheduled
  BY DEF CatalogInv, JobsComposed, RunsScheduled, RunsAreWhatWasScheduled, CasesOf
<1> QED
  BY <1>1, <1>2, <1>3

\* An empty catalogue satisfies its invariant.
LEMMA CatalogStarts == CatalogInit => CatalogInv
<1> SUFFICES ASSUME CatalogInit PROVE CatalogInv
  OBVIOUS
<1>1. /\ \A r \in Governed : ~Stored(r)
      /\ \A j \in Jobs : jobs[j] = NotStored /\ runs[j] = NotStored
      /\ \A q \in Requests : reading[q] = Idle
  BY DEF CatalogInit, Stored
<1>2. CatalogTyped /\ JobsTyped /\ ReadingTyped
  BY <1>1 DEF CatalogInit, CatalogTyped, JobsTyped, ReadingTyped
<1> QED
  BY <1>1, <1>2 DEF CatalogInv, CatalogComposed, JobsComposed, RunsScheduled, ReadingComposed

\* Every set of natural numbers has a least element.
LEMMA LeastNatural ==
    ASSUME NEW C \in SUBSET Nat, C # {}
    PROVE  \E n \in C : \A m \in C : n <= m
<1>1. PICK n \in C : \A m \in C : ~(<<m, n>> \in OpToRel(<, Nat))
  BY NatLessThanWellFounded, WFMin
<1>2. \A m \in C : ~(m < n)
  BY <1>1 DEF OpToRel
<1>3. ASSUME NEW m \in C PROVE n <= m
  <2>1. n \in Nat /\ m \in Nat /\ ~(m < n)
    BY <1>2
  <2> QED
    BY ONLY <2>1
<1> QED
  BY <1>3

\* The lesser of two numbers.
LEMMA MinOfTwo ==
    ASSUME NEW a \in Int, NEW b \in Int
    PROVE  Min({a, b}) = IF a <= b THEN a ELSE b
BY DEF Min

\* Every family of subsets of a finite set has a minimal member.
LEMMA MinimalSubset ==
    ASSUME NEW S, IsFiniteSet(S), NEW C \in SUBSET SUBSET S, C # {}
    PROVE  \E T \in C : \A U \in C : U \subseteq T => U = T
<1> DEFINE Sizes == {Cardinality(T) : T \in C}
<1>1. \A T \in C : IsFiniteSet(T) /\ Cardinality(T) \in Nat
  BY FS_Subset, FS_CardinalityType
<1>2. Sizes \subseteq Nat /\ Sizes # {}
  BY <1>1
<1>3. PICK n \in Sizes : \A m \in Sizes : ~(<<m, n>> \in OpToRel(<, Nat))
  <2> HIDE DEF Sizes
  <2> QED
    BY ONLY <1>2, NatLessThanWellFounded, WFMin
<1>4. \A m \in Sizes : ~(m < n)
  BY <1>2, <1>3 DEF OpToRel
<1>5. PICK T \in C : Cardinality(T) = n
  BY <1>3
<1>6. ASSUME NEW U \in C, U \subseteq T
      PROVE  U = T
  <2>1. ~(Cardinality(U) < Cardinality(T)) /\ Cardinality(U) \in Nat /\ Cardinality(T) \in Nat
    BY <1>1, <1>4, <1>5
  <2>2. Cardinality(U) <= Cardinality(T) /\ (Cardinality(U) = Cardinality(T) => T = U)
    BY ONLY <1>1, <1>6, FS_Subset
  <2> QED
    BY <2>1, <2>2
<1> QED
  BY <1>5, <1>6

Pick(s) == CHOOSE x \in s : TRUE

\* The function that MapThenFoldSet recurses with.
Sums(f, T, g) ==
    g = [s \in SUBSET T |-> IF s = {} THEN 0 ELSE f[Pick(s)] + g[s \ {Pick(s)}]]

SumOn(f, T) == (CHOOSE g : Sums(f, T, g))[T]

\* The recursive functions over two finite sets agree on the subsets of both.
LEMMA SumsAgree ==
    ASSUME NEW f, NEW T, IsFiniteSet(T), NEW U, NEW g, NEW h, Sums(f, T, g), Sums(f, U, h)
    PROVE  \A s \in SUBSET T : s \in SUBSET U => g[s] = h[s]
<1> DEFINE C == {s \in SUBSET T : s \in SUBSET U /\ g[s] # h[s]}
<1>1. SUFFICES ASSUME C # {} PROVE FALSE
  OBVIOUS
<1>2. PICK s \in C : \A u \in C : u \subseteq s => u = s
  <2> HIDE DEF C
  <2>1. C \in SUBSET SUBSET T
    BY DEF C
  <2> QED
    BY ONLY <1>1, <2>1, IsFiniteSet(T), MinimalSubset
<1>3. CASE s = {}
  BY <1>2, <1>3 DEF Sums
<1>4. CASE s # {}
  <2>1. Pick(s) \in s
    BY <1>4 DEF Pick
  <2>2. s \ {Pick(s)} \notin C
    BY <1>2, <2>1
  <2>3. g[s \ {Pick(s)}] = h[s \ {Pick(s)}]
    BY <1>2, <2>2
  <2>4. /\ g[s] = f[Pick(s)] + g[s \ {Pick(s)}]
        /\ h[s] = f[Pick(s)] + h[s \ {Pick(s)}]
    BY <1>2, <1>4 DEF Sums
  <2> QED
    BY <1>2, <2>3, <2>4
<1> QED
  BY <1>3, <1>4

\* The recursive function of a finite set exists.
LEMMA SumsExist ==
    ASSUME NEW f, NEW S, IsFiniteSet(S)
    PROVE  \E g : Sums(f, S, g)
<1> DEFINE C == {T \in SUBSET S : ~ \E g : Sums(f, T, g)}
           W(T) == CHOOSE g : Sums(f, T, g)
<1>1. SUFFICES ASSUME C # {} PROVE FALSE
  OBVIOUS
<1>2. PICK T \in C : \A U \in C : U \subseteq T => U = T
  <2> HIDE DEF C
  <2>1. C \in SUBSET SUBSET S
    BY DEF C
  <2> QED
    BY ONLY <1>1, <2>1, IsFiniteSet(S), MinimalSubset
<1>3. \A U \in SUBSET T : U # T => Sums(f, U, W(U)) /\ IsFiniteSet(U)
  <2> TAKE U \in SUBSET T
  <2> HAVE U # T
  <2>1. \E g : Sums(f, U, g)
    BY <1>2
  <2>2. IsFiniteSet(U)
    BY <1>2, FS_Subset
  <2> QED
    BY ONLY <2>1, <2>2
<1> DEFINE h == [s \in SUBSET T |-> IF s = {} THEN 0
                                    ELSE f[Pick(s)] + SumOn(f, s \ {Pick(s)})]
<1>4. \A s \in SUBSET T : s # {} => Pick(s) \in s /\ s \ {Pick(s)} \in SUBSET T /\ s \ {Pick(s)} # T
  BY DEF Pick
<1>5. \A s \in SUBSET T : s # T => h[s] = SumOn(f, s)
  <2> TAKE s \in SUBSET T
  <2> HAVE s # T
  <2>1. Sums(f, s, W(s)) /\ IsFiniteSet(s)
    BY <1>3
  <2>2. CASE s = {}
    BY <2>1, <2>2 DEF Sums, SumOn
  <2>3. CASE s # {}
    <3> DEFINE u == s \ {Pick(s)}
    <3>1. Sums(f, u, W(u)) /\ u \subseteq s
      BY <1>3, <1>4, <2>3
    <3>2. W(s)[u] = W(u)[u]
      BY ONLY <2>1, <3>1, SumsAgree
    <3>3. W(s)[s] = f[Pick(s)] + W(s)[u]
      BY ONLY <2>1, <2>3 DEF Sums
    <3>4. SumOn(f, s) = W(s)[s] /\ SumOn(f, u) = W(u)[u]
      BY DEF SumOn
    <3>5. h[s] = f[Pick(s)] + SumOn(f, u)
      BY <2>3
    <3> QED
      BY ONLY <3>2, <3>3, <3>4, <3>5
  <2> QED
    BY <2>2, <2>3
<1>6. \A s \in SUBSET T : s # {} => h[s \ {Pick(s)}] = SumOn(f, s \ {Pick(s)})
  <2> HIDE DEF h
  <2> QED
    BY ONLY <1>4, <1>5
<1>7. Sums(f, T, h)
  BY <1>6 DEF Sums
<1> QED
  BY <1>2, <1>7

\* What MapThenSumSet computes: nothing for no element, and one element more
\* adds its summand, whichever element is chosen first.
LEMMA SumEmpty == ASSUME NEW f PROVE SumOn(f, {}) = 0
<1>1. Sums(f, {}, CHOOSE g : Sums(f, {}, g))
  BY SumsExist, FS_EmptySet
<1> QED
  BY <1>1 DEF Sums, SumOn

\* The sum over a set that is not empty is that of one member and the rest.
LEMMA SumUnfolds ==
    ASSUME NEW f, NEW T, IsFiniteSet(T), T # {}
    PROVE  /\ Pick(T) \in T
           /\ SumOn(f, T) = f[Pick(T)] + SumOn(f, T \ {Pick(T)})
<1> DEFINE u == T \ {Pick(T)}
           W(s) == CHOOSE g : Sums(f, s, g)
<1>1. Pick(T) \in T /\ IsFiniteSet(u) /\ u \in SUBSET T
  BY FS_Subset DEF Pick
<1>2. Sums(f, T, W(T)) /\ Sums(f, u, W(u))
  BY <1>1, SumsExist
<1>3. W(T)[u] = W(u)[u]
  <2>1. u \in SUBSET u
    OBVIOUS
  <2> HIDE DEF u, W
  <2> QED
    BY ONLY <1>1, <1>2, <2>1, IsFiniteSet(T), SumsAgree
<1>4. W(T)[T] = f[Pick(T)] + W(T)[u]
  BY ONLY <1>2, T # {} DEF Sums
<1> QED
  BY <1>1, <1>3, <1>4 DEF SumOn

\* Every solution of the recursive equation over a finite set gives its sum.
LEMMA SumIsAny ==
    ASSUME NEW f, NEW S, IsFiniteSet(S), NEW w, Sums(f, S, w)
    PROVE  w[S] = SumOn(f, S)
<1> DEFINE v == CHOOSE g : Sums(f, S, g)
<1>1. Sums(f, S, v)
  BY SumsExist
<1>2. S \in SUBSET S
  OBVIOUS
<1>3. w[S] = v[S]
  <2> HIDE DEF v
  <2> QED
    BY ONLY <1>1, <1>2, IsFiniteSet(S), Sums(f, S, w), SumsAgree
<1> QED
  BY <1>3 DEF SumOn

\* A sum of integers is an integer.
LEMMA SumIsInt ==
    ASSUME NEW f, NEW S, IsFiniteSet(S), \A x \in S : f[x] \in Int
    PROVE  \A T \in SUBSET S : SumOn(f, T) \in Int
<1> DEFINE C == {T \in SUBSET S : SumOn(f, T) \notin Int}
<1>1. SUFFICES ASSUME C # {} PROVE FALSE
  OBVIOUS
<1>2. PICK T \in C : \A U \in C : U \subseteq T => U = T
  <2> HIDE DEF C
  <2>1. C \in SUBSET SUBSET S
    BY DEF C
  <2> QED
    BY ONLY <1>1, <2>1, IsFiniteSet(S), MinimalSubset
<1>3. T # {}
  <2>1. SumOn(f, {}) \in Int
    BY SumEmpty
  <2> QED
    BY <1>2, <2>1
<1>4. T \in SUBSET S /\ IsFiniteSet(T)
  BY <1>2, FS_Subset
<1>5. Pick(T) \in T /\ SumOn(f, T) = f[Pick(T)] + SumOn(f, T \ {Pick(T)})
  BY ONLY <1>3, <1>4, SumUnfolds
<1>6. T \ {Pick(T)} \notin C
  BY <1>2, <1>5
<1>7. SumOn(f, T \ {Pick(T)}) \in Int
  BY <1>4, <1>6
<1>8. f[Pick(T)] \in Int
  BY <1>4, <1>5
<1>9. SumOn(f, T) \in Int
  BY ONLY <1>5, <1>7, <1>8
<1> QED
  BY <1>2, <1>9

\* Any member of the set may be the one that is taken from the sum.
LEMMA SumAdds ==
    ASSUME NEW f, NEW S, IsFiniteSet(S), \A x \in S : f[x] \in Int
    PROVE  \A T \in SUBSET S : \A x \in T : SumOn(f, T) = f[x] + SumOn(f, T \ {x})
<1> DEFINE C == {T \in SUBSET S : \E x \in T : SumOn(f, T) # f[x] + SumOn(f, T \ {x})}
<1>1. SUFFICES ASSUME C # {} PROVE FALSE
  OBVIOUS
<1>2. PICK T \in C : \A U \in C : U \subseteq T => U = T
  <2> HIDE DEF C
  <2>1. C \in SUBSET SUBSET S
    BY DEF C
  <2> QED
    BY ONLY <1>1, <2>1, IsFiniteSet(S), MinimalSubset
<1>3. PICK x \in T : SumOn(f, T) # f[x] + SumOn(f, T \ {x})
  BY <1>2
<1>4. T \in SUBSET S /\ IsFiniteSet(T)
  BY <1>2, FS_Subset
<1> DEFINE p == Pick(T)
<1>5. p \in T /\ SumOn(f, T) = f[p] + SumOn(f, T \ {p})
  BY ONLY <1>3, <1>4, SumUnfolds
<1>6. x # p
  BY <1>3, <1>5
<1> DEFINE u == T \ {p}
           v == T \ {x}
           w == T \ {p, x}
<1>7. /\ x \in u /\ u \ {x} = w /\ u \in SUBSET S /\ u \notin C
      /\ p \in v /\ v \ {p} = w /\ v \in SUBSET S /\ v \notin C
      /\ w \in SUBSET S
  BY <1>2, <1>3, <1>4, <1>5, <1>6
<1>8. SumOn(f, u) = f[x] + SumOn(f, w) /\ SumOn(f, v) = f[p] + SumOn(f, w)
  <2> HIDE DEF u, v, w, p
  <2> QED
    BY <1>7
<1>9. SumOn(f, w) \in Int /\ f[x] \in Int /\ f[p] \in Int
  <2> HIDE DEF w, p
  <2>1. SumOn(f, w) \in Int
    BY ONLY <1>7, SumIsInt, IsFiniteSet(S), \A y \in S : f[y] \in Int
  <2> QED
    BY <1>3, <1>4, <1>5, <2>1
<1> QED
  BY ONLY <1>3, <1>5, <1>8, <1>9

\* Summands that agree have the same sum.
LEMMA SumAgrees ==
    ASSUME NEW f, NEW g, NEW S, IsFiniteSet(S), \A x \in S : f[x] = g[x]
    PROVE  \A T \in SUBSET S : SumOn(f, T) = SumOn(g, T)
<1> DEFINE C == {T \in SUBSET S : SumOn(f, T) # SumOn(g, T)}
<1>1. SUFFICES ASSUME C # {} PROVE FALSE
  OBVIOUS
<1>2. PICK T \in C : \A U \in C : U \subseteq T => U = T
  <2> HIDE DEF C
  <2>1. C \in SUBSET SUBSET S
    BY DEF C
  <2> QED
    BY ONLY <1>1, <2>1, IsFiniteSet(S), MinimalSubset
<1>3. T # {}
  BY <1>2, SumEmpty
<1>4. T \in SUBSET S /\ IsFiniteSet(T)
  BY <1>2, FS_Subset
<1>5. /\ Pick(T) \in T
      /\ SumOn(f, T) = f[Pick(T)] + SumOn(f, T \ {Pick(T)})
      /\ SumOn(g, T) = g[Pick(T)] + SumOn(g, T \ {Pick(T)})
  BY ONLY <1>3, <1>4, SumUnfolds
<1>6. T \ {Pick(T)} \notin C
  BY <1>2, <1>5
<1> QED
  BY <1>2, <1>4, <1>5, <1>6

\* What a floor division yields, without division.
LEMMA DivisionBounds ==
    ASSUME NEW a \in Nat, NEW p \in Nat \ {0}, NEW k \in Nat
    PROVE  a \div p \in Nat /\ (k <= a \div p <=> k * p <= a)
<1> DEFINE d == a \div p
<1>1. d \in Nat /\ d * p <= a /\ a < d * p + p
  <2>1. a \div p \in Nat
    OBVIOUS
  <2>2. (a \div p) * p <= a /\ a < (a \div p) * p + p
    OBVIOUS
  <2> QED
    BY <2>1, <2>2
<1> HIDE DEF d
<1>2. ASSUME k <= d PROVE k * p <= a
  <2>1. (d - k) * p >= 0 /\ d * p = k * p + (d - k) * p
    BY ONLY <1>1, <1>2, k \in Nat, p \in Nat \ {0}
  <2> QED
    BY ONLY <1>1, <2>1, k \in Nat, p \in Nat \ {0}, a \in Nat
<1>3. ASSUME ~(k <= d) PROVE ~(k * p <= a)
  <2>1. (k - d - 1) * p >= 0 /\ k * p = d * p + p + (k - d - 1) * p
    BY ONLY <1>1, <1>3, k \in Nat, p \in Nat \ {0}
  <2> QED
    BY ONLY <1>1, <2>1, k \in Nat, p \in Nat \ {0}, a \in Nat
<1> QED
  BY <1>1, <1>2, <1>3 DEF d

\* The changes of the results of an execution, one by one.
ChangesOf(results) == [s \in Steps |-> results[s].version - 1]

\* Changes is the sum of the versions that the results have above their
\* first.
LEMMA ChangesAre == ASSUME NEW results PROVE Changes(results) = SumOn(ChangesOf(results), Steps)
<1> DEFINE f == ChangesOf(results)
           w == CHOOSE w : w = [s \in SUBSET Steps |->
                   IF s = {} THEN 0 ELSE results[Pick(s)].version - 1 + w[s \ {Pick(s)}]]
           v == CHOOSE v : Sums(f, Steps, v)
<1>0. IsFiniteSet(Steps)
  BY RequiredAreSteps
<1>1. Changes(results) = w[Steps]
  BY ONLY DEF Changes, MapThenSumSet, MapThenFoldSet, Pick
<1>2. Sums(f, Steps, v)
  BY <1>0, SumsExist
<1>3. \A s \in SUBSET Steps : s # {} => f[Pick(s)] = results[Pick(s)].version - 1
  BY DEF ChangesOf, Pick
<1>4. v = [s \in SUBSET Steps |-> IF s = {} THEN 0 ELSE results[Pick(s)].version - 1 + v[s \ {Pick(s)}]]
  <2> HIDE DEF v, f
  <2> QED
    BY ONLY <1>2, <1>3 DEF Sums
<1>5. w = [s \in SUBSET Steps |-> IF s = {} THEN 0 ELSE results[Pick(s)].version - 1 + w[s \ {Pick(s)}]]
  <2> HIDE DEF v, f
  <2> QED
    BY ONLY <1>4
<1>6. Sums(f, Steps, w)
  <2> HIDE DEF w, f
  <2> QED
    BY ONLY <1>3, <1>5 DEF Sums
<1> HIDE DEF w, f
<1>7. w[Steps] = SumOn(f, Steps)
  BY ONLY <1>0, <1>6, SumIsAny
<1> QED
  BY <1>1, <1>7 DEF f

\* Results are typed, whatever their statuses are called.
Results(S) == [Steps -> [status : S, version : 1..5]]

\* The results never have a negative number of changes.
LEMMA ChangesAreNatural ==
    ASSUME NEW S, NEW results \in Results(S)
    PROVE  Changes(results) \in Nat
<1> DEFINE f == ChangesOf(results)
           C == {T \in SUBSET Steps : SumOn(f, T) \notin Nat}
<1>0. IsFiniteSet(Steps)
  BY RequiredAreSteps
<1>1. \A s \in Steps : f[s] \in Nat
  BY DEF ChangesOf, Results
<1>2. ASSUME C # {} PROVE FALSE
  <2>1. PICK T \in C : \A U \in C : U \subseteq T => U = T
    <3> HIDE DEF C
    <3>1. C \in SUBSET SUBSET Steps
      BY DEF C
    <3> QED
      BY ONLY <1>0, <1>2, <3>1, MinimalSubset
  <2>2. T # {}
    <3>1. SumOn(f, {}) \in Nat
      BY SumEmpty
    <3> QED
      BY <2>1, <3>1
  <2>3. T \in SUBSET Steps /\ IsFiniteSet(T) /\ SumOn(f, T) \notin Nat
    BY <1>0, <2>1, FS_Subset
  <2> HIDE DEF f
  <2>4. Pick(T) \in T /\ SumOn(f, T) = f[Pick(T)] + SumOn(f, T \ {Pick(T)})
    BY ONLY <2>2, <2>3, SumUnfolds
  <2>5. T \ {Pick(T)} \notin C
    BY <2>1, <2>4
  <2>6. SumOn(f, T \ {Pick(T)}) \in Nat
    BY <2>3, <2>5
  <2>7. f[Pick(T)] \in Nat
    BY <1>1, <2>3, <2>4
  <2>8. SumOn(f, T) \in Nat
    BY ONLY <2>4, <2>6, <2>7
  <2> QED
    BY <2>3, <2>8
<1>3. SumOn(f, Steps) \in Nat
  BY <1>2
<1> QED
  BY <1>3, ChangesAre

\* A result whose version grows by one adds one change.
LEMMA ChangesGrow ==
    ASSUME NEW S, NEW results \in Results(S), NEW new \in Results(S), NEW s \in Steps,
           new[s].version = results[s].version + 1,
           \A x \in Steps : x # s => new[x] = results[x]
    PROVE  Changes(new) = Changes(results) + 1
<1> DEFINE f == ChangesOf(results)
           g == ChangesOf(new)
           T == Steps \ {s}
<1>0. IsFiniteSet(Steps) /\ Steps \in SUBSET Steps /\ IsFiniteSet(T) /\ T \in SUBSET Steps /\ T \in SUBSET T
  BY RequiredAreSteps, FS_Subset
<1>1. (\A x \in Steps : f[x] \in Int) /\ (\A x \in Steps : g[x] \in Int)
  BY DEF ChangesOf, Results
<1>2. g[s] = f[s] + 1
  BY DEF ChangesOf, Results
<1>3. \A x \in T : f[x] = g[x]
  BY DEF ChangesOf
<1>4. SumOn(f, Steps) = f[s] + SumOn(f, T) /\ SumOn(g, Steps) = g[s] + SumOn(g, T)
  <2> HIDE DEF f, g
  <2> QED
    BY ONLY <1>0, <1>1, s \in Steps, SumAdds
<1>5. SumOn(f, T) = SumOn(g, T)
  <2> HIDE DEF f, g
  <2> QED
    BY ONLY <1>0, <1>3, SumAgrees
<1>6. SumOn(f, T) \in Int
  <2> HIDE DEF f, g
  <2> QED
    BY ONLY <1>0, <1>1, SumIsInt
<1>7. Changes(results) = SumOn(f, Steps) /\ Changes(new) = SumOn(g, Steps)
  BY ChangesAre
<1>8. f[s] \in Int
  BY <1>1
<1> QED
  <2> HIDE DEF f, g
  <2> QED
    BY ONLY <1>2, <1>4, <1>5, <1>6, <1>7, <1>8

\* The pending results are no change.
LEMMA NoChanges == Changes(Pending) = 0
<1> DEFINE f == ChangesOf(Pending)
           C == {T \in SUBSET Steps : SumOn(f, T) # 0}
<1>0. IsFiniteSet(Steps)
  BY RequiredAreSteps
<1>1. \A s \in Steps : f[s] = 0
  BY DEF ChangesOf, Pending
<1>2. ASSUME C # {} PROVE FALSE
  <2>1. PICK T \in C : \A U \in C : U \subseteq T => U = T
    <3> HIDE DEF C
    <3>1. C \in SUBSET SUBSET Steps
      BY DEF C
    <3> QED
      BY ONLY <1>0, <1>2, <3>1, MinimalSubset
  <2>2. T # {}
    BY <2>1, SumEmpty
  <2>3. T \in SUBSET Steps /\ IsFiniteSet(T) /\ SumOn(f, T) # 0
    BY <1>0, <2>1, FS_Subset
  <2> HIDE DEF f
  <2>4. Pick(T) \in T /\ SumOn(f, T) = f[Pick(T)] + SumOn(f, T \ {Pick(T)})
    BY ONLY <2>2, <2>3, SumUnfolds
  <2>5. T \ {Pick(T)} \notin C
    BY <2>1, <2>4
  <2>6. SumOn(f, T \ {Pick(T)}) = 0
    BY <2>3, <2>5
  <2>7. f[Pick(T)] = 0
    BY <1>1, <2>3, <2>4
  <2> QED
    BY ONLY <2>3, <2>4, <2>6, <2>7
<1>3. SumOn(f, Steps) = 0
  BY <1>2
<1> QED
  BY <1>3, ChangesAre

-----------------------------------------------------------------------------
(* Counting results                                                          *)

\* A campaign has finitely many steps, 500 at most and one at least.
LEMMA StepsCount ==
    /\ IsFiniteSet(Steps) /\ Cardinality(Steps) \in Nat /\ Cardinality(Steps) \in 1..500 /\ Steps # {}
<1>1. IsFiniteSet(Steps) /\ Cardinality(Steps) \in 1..500
  BY RequiredAreSteps
<1>2. Cardinality(Steps) \in Nat
  BY <1>1, FS_CardinalityType
<1>3. Cardinality({}) = 0 /\ 0 \notin 1..500
  BY FS_EmptySet
<1>4. Steps # {}
  BY ONLY <1>1, <1>3
<1> QED
  BY <1>1, <1>2, <1>4

\* The results in some statuses are counted, and all of them are all steps.
LEMMA ThoseCount ==
    ASSUME NEW results, NEW statuses
    PROVE  /\ IsFiniteSet(Those(results, statuses)) /\ Those(results, statuses) \in SUBSET Steps
           /\ Cardinality(Those(results, statuses)) \in 0..Cardinality(Steps)
           /\ (Cardinality(Those(results, statuses)) = Cardinality(Steps) <=> Those(results, statuses) = Steps)
           /\ (Cardinality(Those(results, statuses)) = 0 <=> Those(results, statuses) = {})
<1> DEFINE T == Those(results, statuses)
<1>1. T \in SUBSET Steps
  BY DEF Those
<1> HIDE DEF T
<1>2. IsFiniteSet(T) /\ Cardinality(T) <= Cardinality(Steps) /\ (Cardinality(T) = Cardinality(Steps) => Steps = T)
  BY <1>1, StepsCount, FS_Subset
<1>3. Cardinality(T) \in Nat /\ (Cardinality(T) = 0 <=> T = {})
  BY <1>2, FS_CardinalityType, FS_EmptySet
<1>4. Cardinality(T) \in 0..Cardinality(Steps)
  BY ONLY <1>2, <1>3, StepsCount
<1> QED
  BY <1>1, <1>2, <1>3, <1>4 DEF T

\* Every step has one of the statuses when those that have it are all steps.
LEMMA AllThose ==
    ASSUME NEW results, NEW statuses
    PROVE  Those(results, statuses) = Steps <=> \A s \in Steps : results[s].status \in statuses
BY DEF Those

\* One result changes.
LEMMA OneResult ==
    ASSUME NEW S, NEW results \in Results(S), NEW s \in Steps, NEW status \in S,
           results[s].version + 1 \in 1..5
    PROVE  LET new == [results EXCEPT ![s] = [status |-> status, version |-> @.version + 1]] IN
           /\ new \in Results(S)
           /\ new[s].status = status /\ new[s].version = results[s].version + 1
           /\ \A x \in Steps : x # s => new[x] = results[x]
<1> DEFINE one == [status |-> status, version |-> results[s].version + 1]
           new == [results EXCEPT ![s] = [status |-> status, version |-> @.version + 1]]
<1>1. one \in [status : S, version : 1..5] /\ one.status = status /\ one.version = results[s].version + 1
  OBVIOUS
<1>2. new = [results EXCEPT ![s] = one]
  OBVIOUS
<1> HIDE DEF one, new
<1>3. new \in Results(S) /\ new[s] = one /\ \A x \in Steps : x # s => new[x] = results[x]
  BY <1>1, <1>2 DEF Results
<1> QED
  BY <1>1, <1>3 DEF new

-----------------------------------------------------------------------------
(* Executions of fault campaigns                                             *)

\* Versions at which a step may be in a status: it never goes back.
StepVersions ==
    [pending |-> {1}, injecting |-> {2}, injected |-> {3}, recovering |-> {4},
     recovered |-> {5}, skipped |-> {2}, failed |-> 3..5]

BadSteps == {"failed", "skipped"}
StepStatuses == DOMAIN StepTransitions

FaultRowOK(row) ==
    LET ended == Those(row.results, TerminalSteps) IN
    /\ row \in FaultRow
    /\ \A s \in Steps : row.results[s].version \in StepVersions[row.results[s].status]
    /\ StatusIsOf(row, TerminalSteps, BadSteps)
    /\ row.version = 1 + Changes(row.results) + (IF row.status = "cancelled" THEN 1 ELSE 0)
    /\ (row.progress = 100) <=> (ended = Steps)
    /\ row.progress < 100 => row.progress * Cardinality(Steps) <= Cardinality(ended) * 100

\* The results a new execution starts with.
LEMMA PendingIs ==
    /\ Pending \in Results(StepStatuses) /\ Pending \in Results(DOMAIN ResultTransitions)
    /\ \A s \in Steps : Pending[s].status = "pending" /\ Pending[s].version = 1
    /\ Those(Pending, TerminalSteps) = {} /\ Those(Pending, TerminalResults) = {}
    /\ Those(Pending, {"killed"}) = {} /\ Those(Pending, {"survived"}) = {}
BY DEF Pending, Results, StepStatuses, StepTransitions, ResultTransitions, Those, TerminalSteps,
   TerminalResults

\* A new fault execution agrees with its results.
LEMMA NewFaultRow ==
    ASSUME NEW ref \in Refs
    PROVE  FaultRowOK([campaign |-> ref, status |-> "queued", progress |-> 0, version |-> 1,
                       results |-> Pending])
<1> DEFINE row == [campaign |-> ref, status |-> "queued", progress |-> 0, version |-> 1,
                   results |-> Pending]
<1>1. /\ row.campaign = ref /\ row.status = "queued" /\ row.progress = 0 /\ row.version = 1
      /\ row.results = Pending
  OBVIOUS
<1>2. row \in FaultRow
  BY PendingIs DEF FaultRow, ExecutionStatuses, ResultRows, Results, StepStatuses
<1> HIDE DEF row
<1>3. \A s \in Steps : row.results[s].version \in StepVersions[row.results[s].status]
  BY <1>1, PendingIs DEF StepVersions
<1>4. StatusIsOf(row, TerminalSteps, BadSteps)
  BY <1>1 DEF StatusIsOf
<1>5. row.version = 1 + Changes(row.results) + (IF row.status = "cancelled" THEN 1 ELSE 0)
  BY <1>1, NoChanges
<1>6. Those(row.results, TerminalSteps) = {} /\ {} # Steps /\ Cardinality(Those(row.results, TerminalSteps)) = 0
  BY <1>1, PendingIs, StepsCount, FS_EmptySet
<1>7. row.progress * Cardinality(Steps) <= Cardinality(Those(row.results, TerminalSteps)) * 100
  <2>1. 0 * Cardinality(Steps) <= 0 * 100
    BY StepsCount
  <2> QED
    BY <1>1, <1>6, <2>1
<1>8. FaultRowOK(row)
  BY <1>1, <1>2, <1>3, <1>4, <1>5, <1>6, <1>7 DEF FaultRowOK
<1> QED
  BY <1>8 DEF row

\* What a changed row is.
LEMMA FaultRowChanges ==
    ASSUME NEW C, NEW S, NEW P, NEW V, NEW R,
           NEW row \in [campaign : C, status : S, progress : P, version : V, results : R],
           NEW c \in P, NEW st \in S, NEW v \in V, NEW r \in R
    PROVE  LET new == [row EXCEPT !.results = r, !.progress = c, !.status = st, !.version = v] IN
           /\ new \in [campaign : C, status : S, progress : P, version : V, results : R]
           /\ new.campaign = row.campaign /\ new.status = st /\ new.progress = c /\ new.version = v
           /\ new.results = r
<1> DEFINE new == [row EXCEPT !.results = r, !.progress = c, !.status = st, !.version = v]
<1>1. new \in [campaign : C, status : S, progress : P, version : V, results : R]
  OBVIOUS
<1>2. new.campaign = row.campaign /\ new.status = st
  OBVIOUS
<1>3. new.progress = c /\ new.version = v
  OBVIOUS
<1>4. new.results = r
  OBVIOUS
<1> QED
  BY <1>1, <1>2, <1>3, <1>4

\* The share of the ended steps, in percent, below the whole.
LEMMA ProgressIs ==
    ASSUME NEW n \in Nat \ {0}, NEW c \in Nat
    PROVE  LET p == Min({99, (c * 100) \div n}) IN p \in 0..99 /\ p * n <= c * 100
<1> DEFINE d == (c * 100) \div n
           p == Min({99, d})
<1>1. c * 100 \in Nat
  OBVIOUS
<1>2. \A k \in Nat : d \in Nat /\ (k <= d <=> k * n <= c * 100)
  BY <1>1, DivisionBounds
<1> HIDE DEF d
<1>3. d \in Nat
  BY <1>2
<1>4. p = IF 99 <= d THEN 99 ELSE d
  BY <1>3, MinOfTwo
<1> HIDE DEF p
<1>5. p \in 0..99 /\ p \in Nat /\ p <= d
  BY ONLY <1>3, <1>4
<1>6. p * n <= c * 100
  BY <1>2, <1>5
<1> QED
  BY <1>5, <1>6 DEF p, d

\* A report on a step, with the refreshed aggregate, keeps a fault execution
\* sound.
LEMMA FaultReportKeeps ==
    ASSUME NEW row, FaultRowOK(row), NEW s \in Steps, NEW status \in StepStatuses, NEW expected,
           Report(row, s, status, expected, StepTransitions)
    PROVE  /\ FaultRowOK(RefreshFaultAggregate(row, Reported(row, s, status)))
           /\ RefreshFaultAggregate(row, Reported(row, s, status)).campaign = row.campaign
<1> DEFINE old == row.results
           new == Reported(row, s, status)
           n == Cardinality(Steps)
           c == Cardinality(Those(new, TerminalSteps))
           progress == IF c = n THEN 100 ELSE Min({99, (c * 100) \div n})
           verdict == IF c = n THEN Verdict(new, BadSteps) ELSE Started(row.status)
           fresh == RefreshFaultAggregate(row, new)
<1>1. /\ row \in FaultRow /\ row.status \in {"queued", "running"}
      /\ status \in StepTransitions[old[s].status] /\ old \in Results(StepStatuses)
      /\ row.version = 1 + Changes(old) /\ row.version \in Nat
      /\ \A x \in Steps : old[x].version \in StepVersions[old[x].status]
  <2>1. row \in FaultRow /\ \A x \in Steps : old[x].version \in StepVersions[old[x].status]
    BY DEF FaultRowOK
  <2>2. /\ row.status \in ExecutionStatuses /\ row.status \notin Finished /\ row.version \in Nat
        /\ old \in Results(StepStatuses)
    BY <2>1 DEF FaultRow, Report, ResultRows, Results, StepStatuses
  <2>3. row.status \in {"queued", "running"}
    BY <2>2 DEF ExecutionStatuses, Finished
  <2>4. row.version = 1 + Changes(old)
    <3>1. Changes(old) \in Nat
      BY <2>2, ChangesAreNatural
    <3>2. row.version = 1 + Changes(old) + 0
      BY <2>3 DEF FaultRowOK
    <3> QED
      BY <3>1, <3>2
  <2> QED
    BY <2>1, <2>2, <2>3, <2>4 DEF Report
<1>2. /\ old[s].version \in 1..5 /\ old[s].status \in StepStatuses
      /\ old[s].version \in StepVersions[old[s].status]
  BY <1>1 DEF Results
<1>3. old[s].version + 1 \in StepVersions[status] /\ old[s].version + 1 \in 1..5 /\ status # "pending"
  BY <1>1, <1>2 DEF StepVersions, StepTransitions, StepStatuses
<1>4. /\ new \in Results(StepStatuses)
      /\ new[s].status = status /\ new[s].version = old[s].version + 1
      /\ \A x \in Steps : x # s => new[x] = old[x]
  BY <1>1, <1>3, OneResult DEF Reported
<1> HIDE DEF old, new
<1>5. \A x \in Steps : new[x].version \in StepVersions[new[x].status]
  BY <1>1, <1>3, <1>4
<1>6. Changes(new) = Changes(old) + 1 /\ Changes(old) \in Nat /\ Changes(new) \in Nat
  BY <1>1, <1>4, ChangesGrow, ChangesAreNatural
<1>7. new # Pending
  BY <1>3, <1>4, PendingIs
<1>8. c \in 0..n /\ (c = n <=> Those(new, TerminalSteps) = Steps) /\ n \in Nat \ {0} /\ c \in Nat
  BY ThoseCount, StepsCount
<1>9. /\ progress \in 0..100 /\ (progress = 100 <=> c = n)
      /\ progress < 100 => progress * n <= c * 100
  <2> HIDE DEF c, n
  <2>1. Min({99, (c * 100) \div n}) \in 0..99 /\ Min({99, (c * 100) \div n}) * n <= c * 100
    BY <1>8, ProgressIs
  <2> QED
    BY <2>1
<1>10. /\ verdict \in {"passed", "failed", "running"}
       /\ c # n => verdict = "running"
       /\ c = n => verdict = IF \E x \in Required : new[x].status \in BadSteps THEN "failed" ELSE "passed"
  BY <1>1 DEF Verdict, Started
<1>11. fresh = [row EXCEPT !.results = new, !.progress = progress, !.status = verdict,
                           !.version = row.version + 1]
  BY <1>1 DEF RefreshFaultAggregate, FaultRow, BadSteps
<1>12. /\ fresh \in FaultRow /\ fresh.campaign = row.campaign /\ fresh.results = new
       /\ fresh.progress = progress /\ fresh.status = verdict /\ fresh.version = row.version + 1
  <2> DEFINE P == 0..100
             V == Nat
             R == ResultRows(DOMAIN StepTransitions)
             w == row.version + 1
  <2>1. progress \in P /\ verdict \in ExecutionStatuses /\ w \in V /\ new \in R
    BY <1>1, <1>4, <1>9, <1>10 DEF ExecutionStatuses, Finished, ResultRows, Results, StepStatuses
  <2>2. row \in [campaign : Refs, status : ExecutionStatuses, progress : P, version : V, results : R]
    BY <1>1 DEF FaultRow
  <2>3. fresh = [row EXCEPT !.results = new, !.progress = progress, !.status = verdict, !.version = w]
    BY <1>11
  <2> HIDE DEF P, V, R, w, progress, verdict, fresh
  <2>4. /\ fresh \in [campaign : Refs, status : ExecutionStatuses, progress : P, version : V, results : R]
        /\ fresh.campaign = row.campaign /\ fresh.status = verdict /\ fresh.progress = progress
        /\ fresh.version = w /\ fresh.results = new
    BY ONLY <2>1, <2>2, <2>3, FaultRowChanges
  <2> QED
    BY <2>4 DEF FaultRow, P, V, R, w
<1> HIDE DEF fresh, verdict, progress
<1>13. StatusIsOf(fresh, TerminalSteps, BadSteps)
  <2>1. Those(new, TerminalSteps) = Steps <=> \A x \in Steps : new[x].status \in TerminalSteps
    BY AllThose
  <2>2. CASE c = n
    BY <1>8, <1>10, <1>12, <2>1, <2>2 DEF StatusIsOf
  <2>3. CASE c # n
    BY <1>7, <1>8, <1>10, <1>12, <2>1, <2>3 DEF StatusIsOf
  <2> QED
    BY <2>2, <2>3
<1>14. fresh.version = 1 + Changes(new) + (IF fresh.status = "cancelled" THEN 1 ELSE 0)
  BY <1>1, <1>6, <1>10, <1>12
<1>15. FaultRowOK(fresh)
  BY <1>5, <1>8, <1>9, <1>12, <1>13, <1>14 DEF FaultRowOK
<1> QED
  BY <1>12, <1>15 DEF fresh, new

\* Cancelling an unfinished fault execution keeps it sound.
LEMMA FaultCancelKeeps ==
    ASSUME NEW row, FaultRowOK(row), row.status \notin Finished
    PROVE  LET new == [row EXCEPT !.status = "cancelled", !.version = @ + 1]
           IN  FaultRowOK(new) /\ new.campaign = row.campaign
<1> DEFINE new == [row EXCEPT !.status = "cancelled", !.version = @ + 1]
<1>1. /\ row \in FaultRow /\ row.status \in {"queued", "running"} /\ row.version \in Nat
      /\ row.version = 1 + Changes(row.results) /\ StatusIsOf(row, TerminalSteps, BadSteps)
  <2>1. row \in FaultRow /\ StatusIsOf(row, TerminalSteps, BadSteps)
    BY DEF FaultRowOK
  <2>2. /\ row.status \in ExecutionStatuses /\ row.version \in Nat /\ row.results \in Results(StepStatuses)
    BY <2>1 DEF FaultRow, ResultRows, Results, StepStatuses
  <2>3. row.status \in {"queued", "running"}
    BY <2>2 DEF ExecutionStatuses, Finished
  <2>4. row.version = 1 + Changes(row.results) + 0 /\ Changes(row.results) \in Nat
    BY <2>2, <2>3, ChangesAreNatural DEF FaultRowOK
  <2> QED
    BY <2>1, <2>2, <2>3, <2>4
<1>2. /\ new \in FaultRow /\ new.campaign = row.campaign /\ new.results = row.results
      /\ new.progress = row.progress /\ new.status = "cancelled" /\ new.version = row.version + 1
  <2> DEFINE P == 0..100
             V == Nat
             R == ResultRows(DOMAIN StepTransitions)
             w == row.version + 1
             p == row.progress
             r == row.results
  <2>1. "cancelled" \in ExecutionStatuses /\ w \in V
    BY <1>1 DEF ExecutionStatuses, Finished
  <2>2. row \in [campaign : Refs, status : ExecutionStatuses, progress : P, version : V, results : R]
    BY <1>1 DEF FaultRow
  <2> HIDE DEF P, V, R
  <2>3. p \in P /\ r \in R
    BY <2>2
  <2>4. new = [row EXCEPT !.results = r, !.progress = p, !.status = "cancelled", !.version = w]
    BY <2>2
  <2> HIDE DEF w, new, p, r
  <2>5. /\ new \in [campaign : Refs, status : ExecutionStatuses, progress : P, version : V, results : R]
        /\ new.campaign = row.campaign /\ new.status = "cancelled" /\ new.progress = p
        /\ new.version = w /\ new.results = r
    BY ONLY <2>1, <2>2, <2>3, <2>4, FaultRowChanges
  <2> QED
    BY <2>5 DEF FaultRow, P, V, R, w, p, r
<1> HIDE DEF new
<1>3. \E s \in Steps : row.results[s].status \notin TerminalSteps
  <2>1. CASE row.status = "queued"
    <3>1. row.results = Pending
      BY <1>1, <2>1 DEF StatusIsOf
    <3> QED
      BY <3>1, PendingIs, StepsCount DEF TerminalSteps
  <2>2. CASE row.status = "running"
    BY <1>1, <2>2 DEF StatusIsOf
  <2> QED
    BY <1>1, <2>1, <2>2
<1>4. StatusIsOf(new, TerminalSteps, BadSteps)
  BY <1>2, <1>3 DEF StatusIsOf
<1>5. Changes(row.results) \in Nat
  <2>1. row.results \in Results(StepStatuses)
    BY <1>1 DEF FaultRow, ResultRows, Results, StepStatuses
  <2> QED
    BY <2>1, ChangesAreNatural
<1>6. new.version = 1 + Changes(new.results) + (IF new.status = "cancelled" THEN 1 ELSE 0)
  BY <1>1, <1>2, <1>5
<1>7. FaultRowOK(new)
  BY <1>2, <1>4, <1>6 DEF FaultRowOK
<1> QED
  BY <1>2, <1>7 DEF new

-----------------------------------------------------------------------------
(* Executions of mutation campaigns                                          *)

\* Versions at which a result may be in a status.
ResultVersions ==
    [pending |-> {1}, running |-> {2}, skipped |-> {2, 3}, killed |-> {3}, survived |-> {3}, error |-> {3}]

BadResults == {"survived", "error", "skipped"}
ResultStatuses == DOMAIN ResultTransitions

\* What the aggregate counts.
Counts(row) ==
    /\ row.completed = Cardinality(Those(row.results, TerminalResults))
    /\ row.killed = Cardinality(Those(row.results, {"killed"}))
    /\ row.survived = Cardinality(Those(row.results, {"survived"}))
    /\ row.score = IF row.completed = Cardinality(Steps) THEN Score(row.killed, row.survived) ELSE NoScore

MutationRowOK(row) ==
    /\ row \in MutationRow /\ row.status # "cancelled"
    /\ \A s \in Steps : row.results[s].version \in ResultVersions[row.results[s].status]
    /\ StatusIsOf(row, TerminalResults, BadResults)
    /\ row.version = 1 + Changes(row.results)
    /\ Counts(row)

\* The killed and the survived are some of the steps, and disjoint.
LEMMA Counted ==
    ASSUME NEW results
    PROVE  LET k == Cardinality(Those(results, {"killed"}))
               s == Cardinality(Those(results, {"survived"}))
               counted == Those(results, {"killed", "survived"})
           IN  /\ k \in Nat /\ s \in Nat /\ k + s = Cardinality(counted) /\ k + s \in 0..Cardinality(Steps)
               /\ (k + s = 0 <=> counted = {})
<1> DEFINE K == Those(results, {"killed"})
           S == Those(results, {"survived"})
           counted == Those(results, {"killed", "survived"})
<1>1. K \cup S = counted /\ K \cap S = {}
  BY DEF Those
<1>2. /\ IsFiniteSet(K) /\ Cardinality(K) \in 0..Cardinality(Steps)
      /\ IsFiniteSet(S) /\ Cardinality(S) \in 0..Cardinality(Steps)
      /\ IsFiniteSet(counted) /\ Cardinality(counted) \in 0..Cardinality(Steps)
      /\ (Cardinality(counted) = 0 <=> counted = {})
  BY ThoseCount
<1> HIDE DEF K, S, counted
<1>3. Cardinality(K \cup S) = Cardinality(K) + Cardinality(S) - Cardinality(K \cap S)
  BY ONLY <1>2, FS_Union
<1>4. Cardinality(K \cap S) = 0
  BY <1>1, FS_EmptySet
<1>5. Cardinality(K) \in Nat /\ Cardinality(S) \in Nat
  BY <1>2, FS_CardinalityType
<1>6. Cardinality(K) + Cardinality(S) = Cardinality(counted)
  <2>1. Cardinality(counted) = Cardinality(K) + Cardinality(S) - Cardinality(K \cap S)
    BY <1>1, <1>3
  <2> QED
    BY ONLY <1>4, <1>5, <2>1
<1> QED
  BY <1>2, <1>5, <1>6 DEF K, S, counted

\* The score in millionths, of at most five hundred results.
LEMMA ScoreIs ==
    ASSUME NEW k \in Nat, NEW s \in Nat, k + s <= 500, k + s # 0
    PROVE  /\ Score(k, s) \in Nat /\ Score(k, s) # NoScore /\ Score(k, s) <= 1000000
           /\ Score(k, s) = 1000000 <=> s = 0
<1> DEFINE a == 2 * k * 1000000 + k + s
           p == 2 * (k + s)
           d == a \div p
<1>1. a \in Nat /\ p \in Nat \ {0}
  OBVIOUS
<1>2. \A x \in Nat : d \in Nat /\ (x <= d <=> x * p <= a)
  BY <1>1, DivisionBounds
<1>3. Score(k, s) = d
  BY DEF Score
<1> HIDE DEF d
<1>4. d \in Nat /\ (1000000 <= d <=> 1000000 * p <= a) /\ (1000001 <= d <=> 1000001 * p <= a)
  BY <1>2
<1>5. ~(1000001 * p <= a)
  OBVIOUS
<1>6. 1000000 * p <= a <=> s = 0
  OBVIOUS
<1>7. d \in Nat /\ d <= 1000000 /\ (d = 1000000 <=> s = 0)
  <2> HIDE DEF a, p
  <2> QED
    BY ONLY <1>4, <1>5, <1>6
<1>8. NoScore \notin Nat
  BY RequiredAreSteps
<1> QED
  BY <1>3, <1>7, <1>8

\* The score is a number or there is none.
LEMMA ScoreTyped ==
    ASSUME NEW k \in Nat, NEW s \in Nat, k + s \in 0..Cardinality(Steps)
    PROVE  Score(k, s) \in Nat \cup {NoScore}
<1>1. CASE k + s = 0
  BY <1>1 DEF Score
<1>2. CASE k + s # 0
  <2>1. k + s <= 500
    BY StepsCount
  <2> QED
    BY <1>2, <2>1, ScoreIs
<1> QED
  BY <1>1, <1>2

\* A new mutation execution agrees with its results.
LEMMA NewMutationRow ==
    ASSUME NEW ref \in Refs
    PROVE  MutationRowOK([campaign |-> ref, status |-> "queued", completed |-> 0, killed |-> 0,
                          survived |-> 0, score |-> NoScore, version |-> 1, results |-> Pending])
<1> DEFINE row == [campaign |-> ref, status |-> "queued", completed |-> 0, killed |-> 0,
                   survived |-> 0, score |-> NoScore, version |-> 1, results |-> Pending]
<1>1. /\ row.campaign = ref /\ row.status = "queued" /\ row.completed = 0 /\ row.killed = 0
      /\ row.survived = 0 /\ row.score = NoScore /\ row.version = 1 /\ row.results = Pending
  OBVIOUS
<1>2. row \in MutationRow
  <2>1. 0 \in 0..Cardinality(Steps) /\ 1 \in Nat
    BY StepsCount
  <2>2. Pending \in ResultRows(DOMAIN ResultTransitions) /\ "queued" \in ExecutionStatuses
    BY PendingIs DEF ResultRows, Results, ExecutionStatuses
  <2> QED
    BY <2>1, <2>2 DEF MutationRow
<1> HIDE DEF row
<1>3. \A s \in Steps : row.results[s].version \in ResultVersions[row.results[s].status]
  BY <1>1, PendingIs DEF ResultVersions
<1>4. StatusIsOf(row, TerminalResults, BadResults)
  BY <1>1 DEF StatusIsOf
<1>5. row.version = 1 + Changes(row.results)
  BY <1>1, NoChanges
<1>6. Counts(row)
  <2>1. Cardinality({}) = 0 /\ Cardinality(Steps) # 0
    BY FS_EmptySet, StepsCount
  <2> QED
    BY <1>1, <2>1, PendingIs DEF Counts
<1>7. MutationRowOK(row)
  BY <1>1, <1>2, <1>3, <1>4, <1>5, <1>6 DEF MutationRowOK
<1> QED
  BY <1>7 DEF row

\* The record that a refresh of the aggregate stores.
LEMMA MutationRowChanges ==
    ASSUME NEW C, NEW S, NEW P, NEW Q, NEW V, NEW R,
           NEW row \in [campaign : C, status : S, completed : P, killed : P, survived : P,
                        score : Q, version : V, results : R],
           NEW st \in S, NEW c \in P, NEW k \in P, NEW s \in P, NEW q \in Q, NEW v \in V, NEW r \in R
    PROVE  LET new == [row EXCEPT !.results = r, !.completed = c, !.killed = k, !.survived = s,
                                  !.score = q, !.status = st, !.version = v] IN
           /\ new \in [campaign : C, status : S, completed : P, killed : P, survived : P,
                       score : Q, version : V, results : R]
           /\ new.campaign = row.campaign /\ new.status = st /\ new.completed = c /\ new.killed = k
           /\ new.survived = s /\ new.score = q /\ new.version = v /\ new.results = r
<1> DEFINE new == [row EXCEPT !.results = r, !.completed = c, !.killed = k, !.survived = s,
                              !.score = q, !.status = st, !.version = v]
<1>1. new \in [campaign : C, status : S, completed : P, killed : P, survived : P,
               score : Q, version : V, results : R]
  OBVIOUS
<1>2. new.campaign = row.campaign /\ new.status = st
  OBVIOUS
<1>3. new.completed = c /\ new.killed = k
  OBVIOUS
<1>4. new.survived = s /\ new.score = q
  OBVIOUS
<1>5. new.version = v /\ new.results = r
  OBVIOUS
<1> QED
  BY <1>1, <1>2, <1>3, <1>4, <1>5

\* A report on a mutant, with the refreshed aggregate, keeps a mutation
\* execution sound.
LEMMA MutationReportKeeps ==
    ASSUME NEW row, MutationRowOK(row), NEW s \in Steps, NEW status \in ResultStatuses, NEW expected,
           Report(row, s, status, expected, ResultTransitions)
    PROVE  /\ MutationRowOK(RefreshMutationAggregate(row, Reported(row, s, status)))
           /\ RefreshMutationAggregate(row, Reported(row, s, status)).campaign = row.campaign
<1> DEFINE old == row.results
           new == Reported(row, s, status)
           n == Cardinality(Steps)
           c == Cardinality(Those(new, TerminalResults))
           k == Cardinality(Those(new, {"killed"}))
           v == Cardinality(Those(new, {"survived"}))
           score == IF c = n THEN Score(k, v) ELSE row.score
           verdict == IF c = n THEN Verdict(new, BadResults) ELSE Started(row.status)
           fresh == RefreshMutationAggregate(row, new)
<1>1. /\ row \in MutationRow /\ row.status \in {"queued", "running"}
      /\ status \in ResultTransitions[old[s].status] /\ old \in Results(ResultStatuses)
      /\ row.version = 1 + Changes(old) /\ row.version \in Nat
      /\ \A x \in Steps : old[x].version \in ResultVersions[old[x].status]
  <2>1. row \in MutationRow /\ \A x \in Steps : old[x].version \in ResultVersions[old[x].status]
    BY DEF MutationRowOK
  <2>2. /\ row.status \in ExecutionStatuses /\ row.status \notin Finished /\ row.version \in Nat
        /\ old \in Results(ResultStatuses)
    BY <2>1 DEF MutationRow, Report, ResultRows, Results, ResultStatuses
  <2>3. row.status \in {"queued", "running"}
    BY <2>2 DEF ExecutionStatuses, Finished
  <2> QED
    BY <2>1, <2>2, <2>3 DEF Report, MutationRowOK
<1>2. /\ old[s].version \in 1..5 /\ old[s].status \in ResultStatuses
      /\ old[s].version \in ResultVersions[old[s].status]
  BY <1>1 DEF Results
<1>3. old[s].version + 1 \in ResultVersions[status] /\ old[s].version + 1 \in 1..5 /\ status # "pending"
  BY <1>1, <1>2 DEF ResultVersions, ResultTransitions, ResultStatuses
<1>4. /\ new \in Results(ResultStatuses)
      /\ new[s].status = status /\ new[s].version = old[s].version + 1
      /\ \A x \in Steps : x # s => new[x] = old[x]
  BY <1>1, <1>3, OneResult DEF Reported
<1>5. row.score = NoScore
  <2>1. Counts(row) /\ StatusIsOf(row, TerminalResults, BadResults)
    BY DEF MutationRowOK
  <2>2. \E x \in Steps : old[x].status \notin TerminalResults
    <3>1. CASE row.status = "queued"
      <4>1. old = Pending
        BY <2>1, <3>1 DEF StatusIsOf
      <4> QED
        BY <4>1, PendingIs, StepsCount DEF TerminalResults
    <3>2. CASE row.status = "running"
      BY <2>1, <3>2 DEF StatusIsOf
    <3> QED
      BY <1>1, <3>1, <3>2
  <2>3. Cardinality(Those(old, TerminalResults)) # n
    BY <2>2, AllThose, ThoseCount
  <2> QED
    BY <2>1, <2>3 DEF Counts
<1> HIDE DEF old, new
<1>6. \A x \in Steps : new[x].version \in ResultVersions[new[x].status]
  BY <1>1, <1>3, <1>4
<1>7. Changes(new) = Changes(old) + 1 /\ Changes(old) \in Nat
  BY <1>1, <1>4, ChangesGrow, ChangesAreNatural
<1>8. new # Pending
  BY <1>3, <1>4, PendingIs
<1>9. /\ c \in 0..n /\ (c = n <=> Those(new, TerminalResults) = Steps)
      /\ k \in 0..n /\ v \in 0..n
  BY ThoseCount
<1>10. score \in Nat \cup {NoScore} /\ score = IF c = n THEN Score(k, v) ELSE NoScore
  <2>1. k \in Nat /\ v \in Nat /\ k + v \in 0..n
    BY Counted
  <2> HIDE DEF k, v
  <2>2. Score(k, v) \in Nat \cup {NoScore}
    BY <2>1, ScoreTyped
  <2> QED
    BY <1>5, <2>2
<1>11. /\ verdict \in {"passed", "failed", "running"}
       /\ c # n => verdict = "running"
       /\ c = n => verdict = IF \E x \in Required : new[x].status \in BadResults THEN "failed" ELSE "passed"
  BY <1>1 DEF Verdict, Started
<1>12. fresh = [row EXCEPT !.results = new, !.completed = c, !.killed = k, !.survived = v,
                           !.score = score, !.status = verdict, !.version = row.version + 1]
  BY <1>1 DEF RefreshMutationAggregate, MutationRow, BadResults
<1>13. /\ fresh \in MutationRow /\ fresh.campaign = row.campaign /\ fresh.results = new
       /\ fresh.completed = c /\ fresh.killed = k /\ fresh.survived = v /\ fresh.score = score
       /\ fresh.status = verdict /\ fresh.version = row.version + 1
  <2> DEFINE P == 0..n
             Q == Nat \cup {NoScore}
             V == Nat
             R == ResultRows(DOMAIN ResultTransitions)
             w == row.version + 1
  <2>1. verdict \in ExecutionStatuses /\ w \in V /\ new \in R /\ c \in P /\ k \in P /\ v \in P /\ score \in Q
    BY <1>1, <1>4, <1>9, <1>10, <1>11 DEF ExecutionStatuses, Finished, ResultRows, Results, ResultStatuses
  <2>2. row \in [campaign : Refs, status : ExecutionStatuses, completed : P, killed : P, survived : P,
                 score : Q, version : V, results : R]
    BY <1>1 DEF MutationRow
  <2>3. fresh = [row EXCEPT !.results = new, !.completed = c, !.killed = k, !.survived = v,
                            !.score = score, !.status = verdict, !.version = w]
    BY <1>12
  <2> HIDE DEF P, Q, V, R, w, c, k, v, score, verdict, fresh
  <2>4. /\ fresh \in [campaign : Refs, status : ExecutionStatuses, completed : P, killed : P, survived : P,
                      score : Q, version : V, results : R]
        /\ fresh.campaign = row.campaign /\ fresh.status = verdict /\ fresh.completed = c
        /\ fresh.killed = k /\ fresh.survived = v /\ fresh.score = score
        /\ fresh.version = w /\ fresh.results = new
    BY ONLY <2>1, <2>2, <2>3, MutationRowChanges
  <2> QED
    BY <2>4 DEF MutationRow, P, Q, V, R, w
<1> HIDE DEF fresh, verdict, score
<1>14. StatusIsOf(fresh, TerminalResults, BadResults)
  <2>1. Those(new, TerminalResults) = Steps <=> \A x \in Steps : new[x].status \in TerminalResults
    BY AllThose
  <2>2. CASE c = n
    BY <1>9, <1>11, <1>13, <2>1, <2>2 DEF StatusIsOf
  <2>3. CASE c # n
    BY <1>8, <1>9, <1>11, <1>13, <2>1, <2>3 DEF StatusIsOf
  <2> QED
    BY <2>2, <2>3
<1>15. fresh.version = 1 + Changes(new)
  BY <1>1, <1>7, <1>13
<1>16. Counts(fresh)
  BY <1>10, <1>13 DEF Counts
<1>17. fresh.status # "cancelled"
  BY <1>11, <1>13
<1>18. MutationRowOK(fresh)
  BY <1>6, <1>13, <1>14, <1>15, <1>16, <1>17 DEF MutationRowOK
<1> QED
  BY <1>13, <1>18 DEF fresh, new

\* What the aggregate of an execution says of its results.
LEMMA MutationRowSays ==
    ASSUME NEW row, MutationRowOK(row)
    PROVE  LET counted == Those(row.results, {"killed", "survived"}) IN
           /\ row.killed + row.survived = Cardinality(counted)
           /\ (row.score # NoScore) <=> (row.completed = Cardinality(Steps) /\ counted # {})
           /\ row.score # NoScore => row.score <= 1000000 /\ ((row.score = 1000000) <=> (row.survived = 0))
<1> DEFINE k == row.killed
           s == row.survived
           counted == Those(row.results, {"killed", "survived"})
<1>1. Counts(row)
  BY DEF MutationRowOK
<1>2. k \in Nat /\ s \in Nat /\ k + s = Cardinality(counted) /\ k + s \in 0..Cardinality(Steps)
      /\ (k + s = 0 <=> counted = {})
  BY <1>1, Counted DEF Counts
<1>3. k + s <= 500
  BY <1>2, StepsCount
<1>4. row.score = IF row.completed = Cardinality(Steps) THEN Score(k, s) ELSE NoScore
  BY <1>1 DEF Counts
<1> HIDE DEF k, s, counted
<1>5. CASE k + s = 0
  <2>1. row.score = NoScore
    BY <1>4, <1>5 DEF Score
  <2> QED
    BY <1>2, <1>5, <2>1 DEF k, s, counted
<1>6. CASE k + s # 0
  <2>1. /\ Score(k, s) # NoScore /\ Score(k, s) <= 1000000 /\ (Score(k, s) = 1000000 <=> s = 0)
    BY <1>2, <1>3, <1>6, ScoreIs
  <2> QED
    BY <1>2, <1>4, <1>6, <2>1 DEF k, s, counted
<1> QED
  BY <1>5, <1>6

-----------------------------------------------------------------------------
(* The executions and the coverage                                           *)

FaultInv ==
    /\ faultRuns \in [FaultExecutions -> FaultRow \cup {NotStored}]
    /\ \A e \in FaultExecutions : faultRuns[e] # NotStored =>
         FaultRowOK(faultRuns[e]) /\ WasActive(faultRuns[e].campaign)
MutationInv ==
    /\ mutationRuns \in [MutationExecutions -> MutationRow \cup {NotStored}]
    /\ \A e \in MutationExecutions : mutationRuns[e] # NotStored =>
         MutationRowOK(mutationRuns[e]) /\ WasActive(mutationRuns[e].campaign)
CoverageInv ==
    /\ coverage \in [Requirements -> CoverageRow \cup {NotStored}]
    /\ \A r \in Requirements : coverage[r] # NotStored =>
         /\ \A d \in coverage[r].definitions : Stored(d)
         /\ coverage[r].status = CoverageStatus(coverage[r].definitions, coverage[r].evidence)

ExecutionInv == FaultInv /\ MutationInv /\ CoverageInv

\* A finished execution keeps its outcome and its results.
FaultsStand ==
    \A e \in FaultExecutions :
       faultRuns[e] # NotStored /\ faultRuns[e].status \in Finished => faultRuns'[e] = faultRuns[e]
MutationsStand ==
    \A e \in MutationExecutions :
       mutationRuns[e] # NotStored /\ mutationRuns[e].status \in Finished => mutationRuns'[e] = mutationRuns[e]

ExecutionKeeps == CatalogInv' /\ Advances /\ ExecutionInv' /\ FaultsStand /\ MutationsStand

\* What a step leaves alone stays sound while the catalogue advances.
LEMMA FaultsStay ==
    ASSUME CatalogInv, CatalogInv', Advances, FaultInv, faultRuns' = faultRuns
    PROVE  FaultInv' /\ FaultsStand
<1>1. ASSUME NEW e \in FaultExecutions, faultRuns'[e] # NotStored
      PROVE  FaultRowOK(faultRuns[e])' /\ WasActive(faultRuns[e].campaign)'
  <2>1. PICK row : row = faultRuns[e]
    OBVIOUS
  <2>2. FaultRowOK(row) /\ WasActive(row.campaign) /\ row # NotStored
    BY <1>1, <2>1 DEF FaultInv
  <2>3. PICK c : c = row.campaign
    OBVIOUS
  <2>4. c \in Refs
    BY <2>2, <2>3 DEF FaultRowOK, FaultRow
  <2>5. WasActive(c)'
    BY <2>2, <2>3, <2>4, ActiveStays DEF CatalogInv
  <2>6. row = faultRuns'[e] /\ FaultRowOK(row)'
    BY <2>1, <2>2 DEF FaultRowOK
  <2> QED
    BY <2>3, <2>5, <2>6
<1>2. FaultInv'
  BY <1>1 DEF FaultInv
<1> QED
  BY <1>2 DEF FaultsStand

\* Mutation executions that a step leaves alone stay sound.
LEMMA MutationsStay ==
    ASSUME CatalogInv, CatalogInv', Advances, MutationInv, mutationRuns' = mutationRuns
    PROVE  MutationInv' /\ MutationsStand
<1>1. ASSUME NEW e \in MutationExecutions, mutationRuns'[e] # NotStored
      PROVE  MutationRowOK(mutationRuns[e])' /\ WasActive(mutationRuns[e].campaign)'
  <2>1. PICK row : row = mutationRuns[e]
    OBVIOUS
  <2>2. MutationRowOK(row) /\ WasActive(row.campaign) /\ row # NotStored
    BY <1>1, <2>1 DEF MutationInv
  <2>3. PICK c : c = row.campaign
    OBVIOUS
  <2>4. c \in Refs
    BY <2>2, <2>3 DEF MutationRowOK, MutationRow
  <2>5. WasActive(c)'
    BY <2>2, <2>3, <2>4, ActiveStays DEF CatalogInv
  <2>6. row = mutationRuns'[e] /\ MutationRowOK(row)'
    BY <2>1, <2>2 DEF MutationRowOK
  <2> QED
    BY <2>3, <2>5, <2>6
<1>2. MutationInv'
  BY <1>1 DEF MutationInv
<1> QED
  BY <1>2 DEF MutationsStand

\* Coverage rows that a step leaves alone stay sound.
LEMMA CoverageStays ==
    ASSUME CatalogInv, Advances, CoverageInv, coverage' = coverage
    PROVE  CoverageInv'
<1>1. \A r \in Requirements : coverage[r] # NotStored =>
         \A d \in coverage[r].definitions : d \in Governed
  BY DEF CoverageInv, CoverageRow, Governed
<1> QED
  BY <1>1 DEF CoverageInv, Advances

\* A step of another part keeps the executions.
LEMMA ExecutionsStay ==
    ASSUME CatalogInv, CatalogInv', Advances, ExecutionInv, UNCHANGED executionVars
    PROVE  ExecutionKeeps
BY FaultsStay, MutationsStay, CoverageStays DEF executionVars, ExecutionInv, ExecutionKeeps

\* One fault execution is stored, or changes before it is finished.
LEMMA FaultRowStep ==
    ASSUME CatalogInv, CatalogInv', Advances, ExecutionInv, UNCHANGED <<mutationRuns, coverage>>,
           NEW e \in FaultExecutions, NEW row, FaultRowOK(row), WasActive(row.campaign),
           faultRuns' = [faultRuns EXCEPT ![e] = row],
           faultRuns[e] = NotStored \/ faultRuns[e].status \notin Finished
    PROVE  ExecutionKeeps
<1>1. row \in FaultRow /\ row.campaign \in Refs
  BY DEF FaultRowOK, FaultRow
<1>2. /\ faultRuns' \in [FaultExecutions -> FaultRow \cup {NotStored}]
      /\ faultRuns'[e] = row /\ \A x \in FaultExecutions : x # e => faultRuns'[x] = faultRuns[x]
  BY <1>1 DEF ExecutionInv, FaultInv
<1>3. ASSUME NEW x \in FaultExecutions, faultRuns'[x] # NotStored
      PROVE  FaultRowOK(faultRuns[x])' /\ WasActive(faultRuns[x].campaign)'
  <2>1. PICK r : r = faultRuns'[x]
    OBVIOUS
  <2>2. FaultRowOK(r) /\ WasActive(r.campaign)
    <3>1. CASE x = e
      BY <1>2, <2>1, <3>1
    <3>2. CASE x # e
      BY <1>2, <1>3, <2>1, <3>2 DEF ExecutionInv, FaultInv
    <3> QED
      BY <3>1, <3>2
  <2>3. PICK c : c = r.campaign
    OBVIOUS
  <2>4. c \in Refs
    BY <2>2, <2>3 DEF FaultRowOK, FaultRow
  <2>5. WasActive(c)'
    BY <2>2, <2>3, <2>4, ActiveStays DEF CatalogInv
  <2>6. FaultRowOK(r)'
    BY <2>2 DEF FaultRowOK
  <2> QED
    BY <2>1, <2>3, <2>5, <2>6
<1>4. FaultInv'
  BY <1>2, <1>3 DEF FaultInv
<1>5. FaultsStand
  BY <1>2 DEF FaultsStand
<1>6. MutationInv' /\ MutationsStand /\ CoverageInv'
  BY MutationsStay, CoverageStays DEF ExecutionInv
<1> QED
  BY <1>4, <1>5, <1>6 DEF ExecutionInv, ExecutionKeeps

\* One mutation execution is stored, or changes before it is finished.
LEMMA MutationRowStep ==
    ASSUME CatalogInv, CatalogInv', Advances, ExecutionInv, UNCHANGED <<faultRuns, coverage>>,
           NEW e \in MutationExecutions, NEW row, MutationRowOK(row), WasActive(row.campaign),
           mutationRuns' = [mutationRuns EXCEPT ![e] = row],
           mutationRuns[e] = NotStored \/ mutationRuns[e].status \notin Finished
    PROVE  ExecutionKeeps
<1>1. row \in MutationRow /\ row.campaign \in Refs
  BY DEF MutationRowOK, MutationRow
<1>2. /\ mutationRuns' \in [MutationExecutions -> MutationRow \cup {NotStored}]
      /\ mutationRuns'[e] = row /\ \A x \in MutationExecutions : x # e => mutationRuns'[x] = mutationRuns[x]
  BY <1>1 DEF ExecutionInv, MutationInv
<1>3. ASSUME NEW x \in MutationExecutions, mutationRuns'[x] # NotStored
      PROVE  MutationRowOK(mutationRuns[x])' /\ WasActive(mutationRuns[x].campaign)'
  <2>1. PICK r : r = mutationRuns'[x]
    OBVIOUS
  <2>2. MutationRowOK(r) /\ WasActive(r.campaign)
    <3>1. CASE x = e
      BY <1>2, <2>1, <3>1
    <3>2. CASE x # e
      BY <1>2, <1>3, <2>1, <3>2 DEF ExecutionInv, MutationInv
    <3> QED
      BY <3>1, <3>2
  <2>3. PICK c : c = r.campaign
    OBVIOUS
  <2>4. c \in Refs
    BY <2>2, <2>3 DEF MutationRowOK, MutationRow
  <2>5. WasActive(c)'
    BY <2>2, <2>3, <2>4, ActiveStays DEF CatalogInv
  <2>6. MutationRowOK(r)'
    BY <2>2 DEF MutationRowOK
  <2> QED
    BY <2>1, <2>3, <2>5, <2>6
<1>4. MutationInv'
  BY <1>2, <1>3 DEF MutationInv
<1>5. MutationsStand
  BY <1>2 DEF MutationsStand
<1>6. FaultInv' /\ FaultsStand /\ CoverageInv'
  BY FaultsStay, CoverageStays DEF ExecutionInv
<1> QED
  BY <1>4, <1>5, <1>6 DEF ExecutionInv, ExecutionKeeps

-----------------------------------------------------------------------------
(* The steps of the executions                                               *)

\* A request reads the campaign of an execution.
LEMMA ReadsCampaignStep ==
    ASSUME CatalogInv, ExecutionInv, NEW q \in Requests, NEW c \in Governed,
           NEW e \in FaultExecutions \cup MutationExecutions, ReadsCampaign(q, e, c)
    PROVE  ExecutionKeeps
<1>1. e \notin Jobs
  BY ExecutionAssumption
<1>2. CatalogInv' /\ Advances
  BY <1>1, ReadOneStep DEF ReadsCampaign
<1> QED
  BY <1>2, ExecutionsStay DEF ReadsCampaign

\* The insert of an execution: the one version its request has read.
LEMMA WhatWasRead ==
    ASSUME CatalogInv, NEW q \in Requests, reading[q] # Idle,
           reading[q].name \in FaultExecutions \cup MutationExecutions,
           reading' = [reading EXCEPT ![q] = Idle], UNCHANGED <<catalog, jobs, runs>>
    PROVE  /\ CatalogInv' /\ Advances
           /\ (CHOOSE ref \in reading[q].refs : TRUE) \in Refs
           /\ WasActive(CHOOSE ref \in reading[q].refs : TRUE)
<1>1. CatalogInv' /\ Advances
  BY ReadStep
<1>2. PICK r : r = reading[q]
  OBVIOUS
<1>3. OneReading(r)
  BY <1>2, ReadingIs DEF CatalogInv
<1>4. r.refs \in SUBSET Refs /\ (\A ref \in r.refs : WasActive(ref)) /\ \E ref : r.refs = {ref}
  BY <1>2, <1>3 DEF OneReading, ReadRow, ReadingRow
<1>5. (CHOOSE ref \in r.refs : TRUE) \in r.refs
  BY <1>4
<1> QED
  BY <1>1, <1>2, <1>4, <1>5

\* A fault execution is created for the campaign version its request has
\* read.
LEMMA CreateFaultExecutionStep ==
    ASSUME CatalogInv, ExecutionInv, NEW q \in Requests, CreateFaultExecution(q)
    PROVE  ExecutionKeeps
<1> DEFINE r == reading[q]
           ref == CHOOSE x \in r.refs : TRUE
           row == [campaign |-> ref, status |-> "queued", progress |-> 0, version |-> 1,
                   results |-> Pending]
<1>1. /\ r # Idle /\ r.name \in FaultExecutions /\ UNCHANGED <<catalog, jobs, runs, mutationRuns, coverage>>
      /\ reading' = [reading EXCEPT ![q] = Idle]
      /\ faultRuns' = IF faultRuns[r.name] # NotStored THEN faultRuns ELSE [faultRuns EXCEPT ![r.name] = row]
  BY DEF CreateFaultExecution
<1>2. CatalogInv' /\ Advances /\ ref \in Refs /\ WasActive(ref)
  BY <1>1, WhatWasRead
<1>3. FaultRowOK(row) /\ row.campaign = ref
  <2> HIDE DEF ref
  <2> QED
    BY <1>2, NewFaultRow
<1>4. CASE faultRuns[r.name] # NotStored
  BY <1>1, <1>2, <1>4, ExecutionsStay DEF executionVars
<1>5. CASE faultRuns[r.name] = NotStored
  <2> HIDE DEF row, ref
  <2> QED
    BY <1>1, <1>2, <1>3, <1>5, FaultRowStep
<1> QED
  BY <1>4, <1>5

\* A mutation execution is created for the campaign version its request has
\* read.
LEMMA CreateMutationExecutionStep ==
    ASSUME CatalogInv, ExecutionInv, NEW q \in Requests, CreateMutationExecution(q)
    PROVE  ExecutionKeeps
<1> DEFINE r == reading[q]
           ref == CHOOSE x \in r.refs : TRUE
           row == [campaign |-> ref, status |-> "queued", completed |-> 0, killed |-> 0, survived |-> 0,
                   score |-> NoScore, version |-> 1, results |-> Pending]
<1>1. /\ r # Idle /\ r.name \in MutationExecutions /\ UNCHANGED <<catalog, jobs, runs, faultRuns, coverage>>
      /\ reading' = [reading EXCEPT ![q] = Idle]
      /\ mutationRuns' = IF mutationRuns[r.name] # NotStored THEN mutationRuns
                         ELSE [mutationRuns EXCEPT ![r.name] = row]
  BY DEF CreateMutationExecution
<1>2. CatalogInv' /\ Advances /\ ref \in Refs /\ WasActive(ref)
  BY <1>1, WhatWasRead
<1>3. MutationRowOK(row) /\ row.campaign = ref
  <2> HIDE DEF ref
  <2> QED
    BY <1>2, NewMutationRow
<1>4. CASE mutationRuns[r.name] # NotStored
  BY <1>1, <1>2, <1>4, ExecutionsStay DEF executionVars
<1>5. CASE mutationRuns[r.name] = NotStored
  <2> HIDE DEF row, ref
  <2> QED
    BY <1>1, <1>2, <1>3, <1>5, MutationRowStep
<1> QED
  BY <1>4, <1>5

\* Reporting a step's result keeps the fault executions.
LEMMA UpdateStepResultStep ==
    ASSUME CatalogInv, ExecutionInv, NEW e \in FaultExecutions, NEW s \in Steps, NEW expected,
           NEW status \in DOMAIN StepTransitions, UpdateStepResult(e, s, status, expected)
    PROVE  ExecutionKeeps
<1> DEFINE old == faultRuns[e]
           row == RefreshFaultAggregate(old, Reported(old, s, status))
<1>1. /\ old # NotStored /\ Report(old, s, status, expected, StepTransitions)
      /\ UNCHANGED catalogVars /\ UNCHANGED <<mutationRuns, coverage>>
      /\ faultRuns' = [faultRuns EXCEPT ![e] = row]
  BY DEF UpdateStepResult, ExecutionInv, FaultInv
<1>2. FaultRowOK(old) /\ WasActive(old.campaign)
  BY <1>1 DEF ExecutionInv, FaultInv
<1>3. FaultRowOK(row) /\ row.campaign = old.campaign
  BY <1>1, <1>2, FaultReportKeeps DEF StepStatuses
<1>4. CatalogInv' /\ Advances
  BY <1>1, CatalogStays
<1>5. old.status \notin Finished
  BY <1>1 DEF Report
<1> HIDE DEF row
<1> QED
  BY <1>1, <1>2, <1>3, <1>4, <1>5, FaultRowStep

\* Reporting a mutant's result keeps the mutation executions.
LEMMA UpdateMutantResultStep ==
    ASSUME CatalogInv, ExecutionInv, NEW e \in MutationExecutions, NEW s \in Steps, NEW expected,
           NEW status \in DOMAIN ResultTransitions, UpdateMutantResult(e, s, status, expected)
    PROVE  ExecutionKeeps
<1> DEFINE old == mutationRuns[e]
           row == RefreshMutationAggregate(old, Reported(old, s, status))
<1>1. /\ old # NotStored /\ Report(old, s, status, expected, ResultTransitions)
      /\ UNCHANGED catalogVars /\ UNCHANGED <<faultRuns, coverage>>
      /\ mutationRuns' = [mutationRuns EXCEPT ![e] = row]
  BY DEF UpdateMutantResult, ExecutionInv, MutationInv
<1>2. MutationRowOK(old) /\ WasActive(old.campaign)
  BY <1>1 DEF ExecutionInv, MutationInv
<1>3. MutationRowOK(row) /\ row.campaign = old.campaign
  BY <1>1, <1>2, MutationReportKeeps DEF ResultStatuses
<1>4. CatalogInv' /\ Advances
  BY <1>1, CatalogStays
<1>5. old.status \notin Finished
  BY <1>1 DEF Report
<1> HIDE DEF row
<1> QED
  BY <1>1, <1>2, <1>3, <1>4, <1>5, MutationRowStep

\* Cancelling keeps the fault executions.
LEMMA CancelFaultExecutionStep ==
    ASSUME CatalogInv, ExecutionInv, NEW e \in FaultExecutions, NEW expected,
           CancelFaultExecution(e, expected)
    PROVE  ExecutionKeeps
<1> DEFINE old == faultRuns[e]
           row == [old EXCEPT !.status = "cancelled", !.version = @ + 1]
<1>1. /\ old # NotStored /\ old.status \notin Finished
      /\ UNCHANGED catalogVars /\ UNCHANGED <<mutationRuns, coverage>>
      /\ faultRuns' = [faultRuns EXCEPT ![e].status = "cancelled", ![e].version = @ + 1]
  BY DEF CancelFaultExecution
<1>2. FaultRowOK(old) /\ WasActive(old.campaign)
  BY <1>1 DEF ExecutionInv, FaultInv
<1>3. faultRuns' = [faultRuns EXCEPT ![e] = row]
  BY <1>1 DEF ExecutionInv, FaultInv
<1> HIDE DEF old
<1>4. FaultRowOK(row) /\ row.campaign = old.campaign
  BY ONLY <1>1, <1>2, FaultCancelKeeps
<1>5. CatalogInv' /\ Advances
  BY <1>1, CatalogStays
<1> HIDE DEF row
<1> QED
  BY <1>1, <1>2, <1>3, <1>4, <1>5, FaultRowStep DEF old

\* Storing a requirement's coverage keeps the coverage derived.
LEMMA UpsertCoverageStep ==
    ASSUME CatalogInv, ExecutionInv, NEW r \in Requirements, NEW ds \in SUBSET Definitions,
           NEW evidence \in BOOLEAN, NEW expected \in 0..MaxCoverageVersion,
           UpsertCoverage(r, ds, evidence, expected)
    PROVE  ExecutionKeeps
<1> DEFINE Mapped(v) == [definitions |-> ds, evidence |-> evidence, version |-> v,
                         status |-> CoverageStatus(ds, evidence)]
           V == 1..MaxCoverageVersion
<1>1. /\ \A d \in ds : Stored(d)
      /\ UNCHANGED catalogVars /\ UNCHANGED <<faultRuns, mutationRuns>>
      /\ \/ coverage' = [coverage EXCEPT ![r] = Mapped(1)]
         \/ expected < MaxCoverageVersion /\ coverage' = [coverage EXCEPT ![r] = Mapped(expected + 1)]
  BY DEF UpsertCoverage
<1>2. 1 \in V /\ (expected < MaxCoverageVersion => expected + 1 \in V)
  BY RequiredAreSteps
<1>3. PICK v \in V : coverage' = [coverage EXCEPT ![r] = Mapped(v)]
  BY <1>1, <1>2
<1> HIDE DEF V
<1>4. PICK row : row = Mapped(v)
  OBVIOUS
<1>5. /\ row.definitions = ds /\ row.evidence = evidence /\ row.status = CoverageStatus(ds, evidence)
      /\ row \in CoverageRow
  <2>1. CoverageStatus(ds, evidence) \in {"covered", "partial", "gap"}
    BY DEF CoverageStatus
  <2> QED
    BY <1>4, <2>1 DEF CoverageRow, V
<1>6. coverage' = [coverage EXCEPT ![r] = row]
  BY <1>3, <1>4
<1>7. /\ coverage' \in [Requirements -> CoverageRow \cup {NotStored}]
      /\ coverage'[r] = row /\ \A x \in Requirements : x # r => coverage'[x] = coverage[x]
  BY <1>5, <1>6 DEF ExecutionInv, CoverageInv
<1>8. CatalogInv' /\ Advances /\ catalog' = catalog
  BY <1>1, CatalogStays DEF catalogVars
<1>9. ASSUME NEW x \in Requirements, coverage'[x] # NotStored
      PROVE  /\ \A d \in coverage'[x].definitions : Stored(d)'
             /\ coverage'[x].status = CoverageStatus(coverage'[x].definitions, coverage'[x].evidence)
  <2>1. CASE x = r
    BY <1>1, <1>5, <1>7, <1>8, <2>1 DEF Stored
  <2>2. CASE x # r
    BY <1>7, <1>8, <1>9, <2>2 DEF ExecutionInv, CoverageInv, Stored
  <2> QED
    BY <2>1, <2>2
<1>10. CoverageInv'
  BY <1>7, <1>9 DEF CoverageInv, CoverageStatus
<1>11. FaultInv' /\ FaultsStand /\ MutationInv' /\ MutationsStand
  BY <1>1, <1>8, FaultsStay, MutationsStay DEF ExecutionInv
<1> QED
  BY <1>8, <1>10, <1>11 DEF ExecutionInv, ExecutionKeeps

-----------------------------------------------------------------------------
(* The kinds of work, and what the invariant says                            *)

\* Every step of the fault executions keeps them.
LEMMA FaultStepKeeps ==
    ASSUME CatalogInv, ExecutionInv, NEW q \in Requests, FaultStep(q)
    PROVE  ExecutionKeeps
<1>1. CASE \E e \in FaultExecutions, c \in FaultCampaigns : ReadFaultCampaign(q, e, c)
  BY <1>1, ReadsCampaignStep DEF ReadFaultCampaign, Governed
<1>2. CASE CreateFaultExecution(q)
  BY <1>2, CreateFaultExecutionStep
<1>3. CASE \E e \in FaultExecutions, s \in Steps, expected \in 1..5 :
             \E status \in DOMAIN StepTransitions : UpdateStepResult(e, s, status, expected)
  BY <1>3, UpdateStepResultStep
<1>4. CASE \E e \in FaultExecutions, expected \in 1..10 : CancelFaultExecution(e, expected)
  BY <1>4, CancelFaultExecutionStep
<1> QED
  BY <1>1, <1>2, <1>3, <1>4 DEF FaultStep

\* Every step of the mutation executions keeps them.
LEMMA MutationStepKeeps ==
    ASSUME CatalogInv, ExecutionInv, NEW q \in Requests, MutationStep(q)
    PROVE  ExecutionKeeps
<1>1. CASE \E e \in MutationExecutions, c \in MutationCampaigns : ReadMutationCampaign(q, e, c)
  BY <1>1, ReadsCampaignStep DEF ReadMutationCampaign, Governed
<1>2. CASE CreateMutationExecution(q)
  BY <1>2, CreateMutationExecutionStep
<1>3. CASE \E e \in MutationExecutions, s \in Steps, expected \in 1..5 :
             \E status \in DOMAIN ResultTransitions : UpdateMutantResult(e, s, status, expected)
  BY <1>3, UpdateMutantResultStep
<1> QED
  BY <1>1, <1>2, <1>3 DEF MutationStep

\* Every step of the coverage keeps the executions.
LEMMA CoverageStepKeeps ==
    ASSUME CatalogInv, ExecutionInv, CoverageStep
    PROVE  ExecutionKeeps
BY UpsertCoverageStep DEF CoverageStep

\* Governing the catalogue keeps the executions.
LEMMA GovernKeeps ==
    ASSUME CatalogInv, ExecutionInv, NEW R, Govern(R \cap Governed), UNCHANGED executionVars
    PROVE  ExecutionKeeps
BY GovernStep, ExecutionsStay

\* Only resources are governed.
LEMMA OnlyGoverned == ASSUME NEW R, Govern(R) PROVE Govern(R \cap Governed)
BY DEF Govern, Governed, UpdateCatalogStatus, UpdateProfileStatus, UpdateFaultCampaignStatus,
   UpdateMutationCampaignStatus

\* No execution satisfies the executions' invariant.
LEMMA ExecutionsAreStarted == ASSUME ExecutionInit PROVE ExecutionInv
<1>1. FaultInv
  BY DEF ExecutionInit, FaultInv
<1>2. MutationInv
  BY DEF ExecutionInit, MutationInv
<1>3. CoverageInv
  BY DEF ExecutionInit, CoverageInv
<1> QED
  BY <1>1, <1>2, <1>3 DEF ExecutionInv

\* The executions' invariant implies what the runs check of them.
LEMMA ExecutionInvHolds ==
    ASSUME ExecutionInv
    PROVE  ExecutionTypeOK /\ AggregatesAreDerived /\ ExecutionsAreOfActiveVersions
<1>1. ExecutionTypeOK
  BY DEF ExecutionInv, FaultInv, MutationInv, CoverageInv, ExecutionTypeOK
<1>2. ExecutionsAreOfActiveVersions
  BY DEF ExecutionInv, FaultInv, MutationInv, ExecutionsAreOfActiveVersions
<1>3. ASSUME NEW e \in FaultExecutions, faultRuns[e] # NotStored
      PROVE  LET row == faultRuns[e]
                 ended == Those(row.results, TerminalSteps)
             IN /\ StatusIsOf(row, TerminalSteps, {"failed", "skipped"})
                /\ row.version = 1 + Changes(row.results) + (IF row.status = "cancelled" THEN 1 ELSE 0)
                /\ (row.progress = 100) <=> (ended = Steps)
                /\ row.progress < 100 => row.progress * Cardinality(Steps) <= Cardinality(ended) * 100
  BY <1>3 DEF ExecutionInv, FaultInv, FaultRowOK, BadSteps
<1>4. ASSUME NEW e \in MutationExecutions, mutationRuns[e] # NotStored
      PROVE  LET row == mutationRuns[e]
                 counted == Those(row.results, {"killed", "survived"})
             IN /\ StatusIsOf(row, TerminalResults, {"survived", "error", "skipped"})
                /\ row.version = 1 + Changes(row.results)
                /\ row.killed + row.survived = Cardinality(counted)
                /\ (row.score # NoScore) <=> (row.completed = Cardinality(Steps) /\ counted # {})
                /\ row.score # NoScore => row.score <= 1000000 /\ ((row.score = 1000000) <=> (row.survived = 0))
  <2>1. MutationRowOK(mutationRuns[e])
    BY <1>4 DEF ExecutionInv, MutationInv
  <2> QED
    BY <2>1, MutationRowSays DEF MutationRowOK, BadResults
<1>5. ASSUME NEW r \in Requirements, coverage[r] # NotStored
      PROVE  /\ \A d \in coverage[r].definitions : Stored(d)
             /\ (coverage[r].status = "covered") <=> (coverage[r].definitions # {} /\ coverage[r].evidence)
             /\ (coverage[r].status = "gap") <=> (coverage[r].definitions = {} /\ ~coverage[r].evidence)
  <2>1. PICK ds, evidence, status : /\ ds = coverage[r].definitions /\ evidence = coverage[r].evidence
                                    /\ status = coverage[r].status
    OBVIOUS
  <2>2. evidence \in BOOLEAN /\ (\A d \in ds : Stored(d)) /\ status = CoverageStatus(ds, evidence)
    BY <1>5, <2>1 DEF ExecutionInv, CoverageInv, CoverageRow
  <2>3. /\ (status = "covered") <=> (ds # {} /\ evidence)
        /\ (status = "gap") <=> (ds = {} /\ ~evidence)
    BY <2>2 DEF CoverageStatus
  <2> QED
    BY <2>1, <2>2, <2>3
<1>6. AggregatesAreDerived
  BY <1>3, <1>4, <1>5 DEF AggregatesAreDerived
<1> QED
  BY <1>1, <1>2, <1>6

-----------------------------------------------------------------------------
(* The requests of the AI engine and their attempts                          *)

RequestsInv ==
    /\ aiRequests \in [AiRequests -> RequestRow \cup {NotStored}]
    /\ \A r \in AiRequests : Known(aiRequests[r]) =>
         /\ aiRequests[r].attempts = 0 <=> aiRequests[r].status = "queued"
         /\ aiRequests[r].class = "restricted" => aiRequests[r].policy = "local_only"

\* What a stored request keeps, whatever is done with it.
RequestsKept ==
    \A r \in AiRequests : Known(aiRequests[r]) =>
       /\ Known(aiRequests'[r]) /\ aiRequests'[r].owner = aiRequests[r].owner
       /\ aiRequests'[r].evidence = aiRequests[r].evidence
       /\ aiRequests[r].status = "succeeded" => aiRequests'[r] = aiRequests[r]

Its(r) == {x \in Attempts : Known(attempts[x]) /\ attempts[x].request = r}

\* The attempts of one request.
History(r) ==
    LET row == aiRequests[r] IN
    /\ IsFiniteSet(Its(r)) /\ {attempts[x].attempt : x \in Its(r)} = 1..row.attempts
    /\ Cardinality(Its(r)) = row.attempts
    /\ \A x \in Its(r) : IF attempts[x].attempt = row.attempts
                         THEN attempts[x].status = row.status
                         ELSE attempts[x].status = "failed"
    /\ row.class = "restricted" => \A x \in Its(r) : attempts[x].kind = "local"

AttemptsInv ==
    /\ attempts \in [Attempts -> AttemptRow \cup {NotStored}]
    /\ \A x \in Attempts : Known(attempts[x]) => Known(aiRequests[attempts[x].request])
    /\ \A r \in AiRequests : Known(aiRequests[r]) => History(r)

AttemptsKept == \A x \in Attempts : Known(attempts[x]) => attempts'[x] = attempts[x]

\* Requests and attempts that a step leaves alone.
LEMMA RequestsStay ==
    ASSUME RequestsInv, AttemptsInv, UNCHANGED <<aiRequests, attempts>>
    PROVE  RequestsInv' /\ AttemptsInv' /\ RequestsKept /\ AttemptsKept
<1>1. RequestsInv' /\ RequestsKept /\ AttemptsKept
  BY DEF RequestsInv, RequestsKept, AttemptsKept
<1>2. \A r \in AiRequests : History(r) <=> History(r)'
  BY DEF History, Its
<1>3. AttemptsInv'
  BY <1>2 DEF AttemptsInv
<1> QED
  BY <1>1, <1>3

\* One new request.
LEMMA CreateRequestStep ==
    ASSUME RequestsInv, AttemptsInv, NEW r \in AiRequests, NEW task \in Tasks, NEW owner \in Users,
           NEW policy \in Policies, NEW class \in Classes, NEW evidence \in SUBSET Evidence,
           CreateRequest(r, task, owner, policy, class, evidence)
    PROVE  RequestsInv' /\ AttemptsInv' /\ RequestsKept /\ AttemptsKept
<1> DEFINE row == [task |-> task, owner |-> owner, policy |-> policy, class |-> class,
                   evidence |-> evidence, status |-> "queued", attempts |-> 0]
<1>1. /\ ~Known(aiRequests[r]) /\ (class = "restricted" => policy = "local_only")
      /\ aiRequests' = [aiRequests EXCEPT ![r] = row] /\ attempts' = attempts
  BY DEF CreateRequest
<1>2. /\ row.attempts = 0 /\ row.status = "queued" /\ row.class = class /\ row.policy = policy
      /\ row \in RequestRow
  BY AiAssumption DEF RequestRow
<1> HIDE DEF row
<1>3. /\ aiRequests' \in [AiRequests -> RequestRow \cup {NotStored}]
      /\ aiRequests'[r] = row /\ \A q \in AiRequests : q # r => aiRequests'[q] = aiRequests[q]
  BY <1>1, <1>2 DEF RequestsInv
<1>4. RequestsInv'
  BY <1>1, <1>2, <1>3 DEF RequestsInv
<1>5. RequestsKept /\ AttemptsKept
  BY <1>1, <1>3 DEF RequestsKept, AttemptsKept
<1>6. \A x \in Attempts : Known(attempts'[x]) => Known(aiRequests'[attempts'[x].request])
  <2>1. \A x \in Attempts : Known(attempts[x]) => attempts[x].request \in AiRequests
    BY DEF AttemptsInv, AttemptRow, Known
  <2> QED
    BY <1>1, <1>5, <2>1 DEF AttemptsInv, RequestsKept
<1>7. ASSUME NEW q \in AiRequests, Known(aiRequests'[q]) PROVE History(q)'
  <2>1. Its(q)' = Its(q)
    BY <1>1 DEF Its
  <2>2. CASE q = r
    <3>1. Its(q) = {}
      BY <1>1, <2>2 DEF Its, AttemptsInv
    <3>2. {attempts[x].attempt : x \in {}} = {} /\ 1..0 = {} /\ IsFiniteSet({}) /\ Cardinality({}) = 0
      BY FS_EmptySet
    <3> QED
      BY <1>1, <1>2, <1>3, <2>1, <2>2, <3>1, <3>2 DEF History
  <2>3. CASE q # r
    <3>1. History(q) /\ aiRequests'[q] = aiRequests[q]
      BY <1>3, <1>7, <2>3 DEF AttemptsInv
    <3> QED
      BY <1>1, <2>1, <3>1 DEF History
  <2> QED
    BY <2>2, <2>3
<1>8. AttemptsInv'
  BY <1>1, <1>6, <1>7 DEF AttemptsInv
<1> QED
  BY <1>4, <1>5, <1>8

\* A set that is numbered without a gap, and one more.
LEMMA OneMore ==
    ASSUME NEW S, IsFiniteSet(S), NEW n \in Nat, Cardinality(S) = n, NEW x, x \notin S
    PROVE  IsFiniteSet(S \cup {x}) /\ Cardinality(S \cup {x}) = n + 1
           /\ 1..(n + 1) = (1..n) \cup {n + 1}
BY FS_AddElement

\* One more attempt of one request.
LEMMA ExecuteRequestStep ==
    ASSUME RequestsInv, AttemptsInv, NEW x \in Attempts, NEW r \in AiRequests,
           NEW kind \in {"local", "external"}, NEW outcome \in {"succeeded", "failed"},
           NEW cited \in SUBSET Evidence, ExecuteRequest(x, r, kind, outcome, cited)
    PROVE  RequestsInv' /\ AttemptsInv' /\ RequestsKept /\ AttemptsKept
<1> DEFINE old == aiRequests[r]
           n == old.attempts
           row == [old EXCEPT !.status = outcome, !.attempts = @ + 1]
           one == [request |-> r, attempt |-> n + 1, status |-> outcome, kind |-> kind,
                   citations |-> cited]
<1>1. /\ ~Known(attempts[x]) /\ Known(old) /\ old.status \notin {"succeeded", "running"}
      /\ n < MaxAttempts /\ kind \in Adapters
      /\ kind = "external" => old.policy = "external_allowed" /\ old.class # "restricted"
      /\ aiRequests' = [aiRequests EXCEPT ![r].status = outcome, ![r].attempts = @ + 1]
      /\ attempts' = [attempts EXCEPT ![x] = one]
  BY DEF ExecuteRequest
<1>2. old \in RequestRow /\ n \in 0..MaxAttempts /\ n \in Nat /\ MaxAttempts \in Nat
      /\ n + 1 \in 0..MaxAttempts /\ n + 1 \in 1..MaxAttempts /\ n + 1 # 0
  <2>1. old \in RequestRow
    BY <1>1 DEF RequestsInv, Known
  <2>2. n \in 0..MaxAttempts /\ MaxAttempts \in Nat
    BY <2>1, AiAssumption DEF RequestRow
  <2> QED
    BY <1>1, <2>1, <2>2
<1>3. aiRequests' = [aiRequests EXCEPT ![r] = row]
  BY <1>1 DEF RequestsInv
<1> HIDE DEF old
<1>4. /\ row.status = outcome /\ row.attempts = n + 1 /\ row.class = old.class /\ row.policy = old.policy
      /\ row.owner = old.owner /\ row.evidence = old.evidence
  BY <1>2 DEF RequestRow
<1>5. row \in RequestRow
  <2> DEFINE A == 0..MaxAttempts
             E == SUBSET Evidence
             w == n + 1
  <2>1. old \in [task : Tasks, owner : Users, policy : Policies, class : Classes, evidence : E,
                 status : {"queued", "succeeded", "failed"}, attempts : A] /\ w \in A
    BY <1>2 DEF RequestRow
  <2>2. row = [old EXCEPT !.status = outcome, !.attempts = w]
    BY <2>1
  <2> HIDE DEF A, E, w, row
  <2>3. row \in [task : Tasks, owner : Users, policy : Policies, class : Classes, evidence : E,
                 status : {"queued", "succeeded", "failed"}, attempts : A]
    BY <2>1, <2>2
  <2> QED
    BY <2>3 DEF RequestRow, A, E
<1>6. /\ one.request = r /\ one.attempt = n + 1 /\ one.status = outcome /\ one.kind = kind
      /\ one \in AttemptRow
  <2>1. cited \in SUBSET Evidence
    OBVIOUS
  <2>2. one = [request |-> r, attempt |-> n + 1, status |-> outcome, kind |-> kind, citations |-> cited]
    OBVIOUS
  <2>3. /\ one.request = r /\ one.attempt = n + 1 /\ one.status = outcome /\ one.kind = kind
        /\ one.citations = cited
    BY <2>2
  <2>4. kind \in Adapters /\ n + 1 \in 1..MaxAttempts /\ outcome \in {"succeeded", "failed"}
    BY <1>1, <1>2
  <2> HIDE DEF n, one
  <2>5. one \in AttemptRow
    BY <2>1, <2>2, <2>4 DEF AttemptRow
  <2> QED
    BY <2>3, <2>5
<1> HIDE DEF row, one
<1>7. /\ aiRequests' \in [AiRequests -> RequestRow \cup {NotStored}]
      /\ aiRequests'[r] = row /\ \A q \in AiRequests : q # r => aiRequests'[q] = aiRequests[q]
  BY <1>3, <1>5 DEF RequestsInv
<1>8. /\ attempts' \in [Attempts -> AttemptRow \cup {NotStored}]
      /\ attempts'[x] = one /\ \A y \in Attempts : y # x => attempts'[y] = attempts[y]
  BY <1>1, <1>6 DEF AttemptsInv
<1>9. Known(row) /\ Known(one)
  BY <1>5, <1>6, AiAssumption DEF Known
<1>10. RequestsInv'
  <2>1. ASSUME NEW q \in AiRequests, Known(aiRequests'[q])
        PROVE  /\ aiRequests'[q].attempts = 0 <=> aiRequests'[q].status = "queued"
               /\ aiRequests'[q].class = "restricted" => aiRequests'[q].policy = "local_only"
    <3>1. CASE q = r
      BY <1>1, <1>2, <1>4, <1>7, <3>1 DEF RequestsInv, old
    <3>2. CASE q # r
      BY <1>7, <2>1, <3>2 DEF RequestsInv
    <3> QED
      BY <3>1, <3>2
  <2> QED
    BY <1>7, <2>1 DEF RequestsInv
<1>11. RequestsKept
  BY <1>1, <1>4, <1>7, <1>9 DEF RequestsKept, old
<1>12. AttemptsKept
  BY <1>1, <1>8 DEF AttemptsKept
<1>13. \A y \in Attempts : Known(attempts'[y]) => Known(aiRequests'[attempts'[y].request])
  <2>1. \A y \in Attempts : Known(attempts[y]) => attempts[y].request \in AiRequests
    BY DEF AttemptsInv, AttemptRow, Known
  <2> QED
    BY <1>6, <1>7, <1>8, <1>9, <1>11, <2>1 DEF AttemptsInv, RequestsKept
<1>14. ASSUME NEW q \in AiRequests, Known(aiRequests'[q]) PROVE History(q)'
  <2>1. CASE q # r
    <3>1. Its(q)' = Its(q) /\ x \notin Its(q)
      BY <1>1, <1>6, <1>8, <2>1 DEF Its
    <3>2. History(q) /\ aiRequests'[q] = aiRequests[q]
      BY <1>7, <1>14, <2>1 DEF AttemptsInv
    <3>3. \A y \in Its(q) : attempts'[y] = attempts[y]
      BY <1>8, <3>1 DEF Its
    <3> QED
      BY <3>1, <3>2, <3>3 DEF History
  <2>2. CASE q = r
    <3>1. Its(r)' = Its(r) \cup {x} /\ x \notin Its(r)
      BY <1>1, <1>6, <1>8, <1>9 DEF Its
    <3>2. History(r)
      BY <1>1 DEF AttemptsInv, old
    <3>3. /\ IsFiniteSet(Its(r)) /\ {attempts[y].attempt : y \in Its(r)} = 1..n
          /\ Cardinality(Its(r)) = n
          /\ \A y \in Its(r) : IF attempts[y].attempt = n THEN attempts[y].status = old.status
                               ELSE attempts[y].status = "failed"
          /\ old.class = "restricted" => \A y \in Its(r) : attempts[y].kind = "local"
      BY <3>2 DEF History, old
    <3>4. \A y \in Its(r) : attempts'[y] = attempts[y]
      BY <1>8, <3>1 DEF Its
    <3>5. PICK S : S = Its(r)
      OBVIOUS
    <3>6. IsFiniteSet(S \cup {x}) /\ Cardinality(S \cup {x}) = n + 1 /\ 1..(n + 1) = (1..n) \cup {n + 1}
      BY <1>2, <3>1, <3>3, <3>5, OneMore
    <3>7. {attempts'[y].attempt : y \in S \cup {x}} = {attempts[y].attempt : y \in S} \cup {n + 1}
      <4>1. \A y \in S : attempts'[y].attempt = attempts[y].attempt
        BY <3>4, <3>5
      <4>2. attempts'[x].attempt = n + 1
        BY <1>6, <1>8
      <4> QED
        BY ONLY <4>1, <4>2
    <3>8. \A y \in S : attempts[y].attempt \in 1..n /\ attempts[y].status = "failed"
      <4>1. \A y \in S : attempts[y].attempt \in 1..n
        BY <3>3, <3>5
      <4>2. ASSUME NEW y \in S PROVE attempts[y].status = "failed"
        <5>1. attempts[y].attempt \in 1..n /\ n # 0
          BY <1>2, <4>1
        <5>2. old.status # "queued" /\ old.status \in {"queued", "succeeded", "failed"}
          BY <1>1, <1>2, <5>1 DEF RequestsInv, RequestRow, old
        <5>3. old.status = "failed"
          BY <1>1, <5>2
        <5> QED
          BY <3>3, <3>5, <5>3
      <4> QED
        BY <4>1, <4>2
    <3>9. \A y \in S \cup {x} : IF attempts'[y].attempt = n + 1 THEN attempts'[y].status = outcome
                                ELSE attempts'[y].status = "failed"
      <4>1. \A y \in S : attempts'[y].attempt # n + 1 /\ attempts'[y].status = "failed"
        BY <1>2, <3>4, <3>5, <3>8
      <4> QED
        BY <1>6, <1>8, <4>1
    <3>10. old.class = "restricted" => \A y \in S \cup {x} : attempts'[y].kind = "local"
      BY <1>1, <1>6, <1>8, <3>3, <3>4, <3>5
    <3>11. aiRequests'[r].attempts = n + 1 /\ aiRequests'[r].status = outcome /\ aiRequests'[r].class = old.class
      BY <1>4, <1>7
    <3>12. Its(r)' = S \cup {x} /\ {attempts[y].attempt : y \in S} = 1..n
      BY <3>1, <3>3, <3>5
    <3>13. {attempts'[y].attempt : y \in S \cup {x}} = 1..(n + 1)
      BY ONLY <3>6, <3>7, <3>12
    <3> HIDE DEF n
    <3>14. History(r)'
      BY <3>6, <3>9, <3>10, <3>11, <3>12, <3>13 DEF History
    <3> QED
      BY <2>2, <3>14
  <2> QED
    BY <2>1, <2>2
<1>15. AttemptsInv'
  BY <1>8, <1>13, <1>14 DEF AttemptsInv
<1> QED
  BY <1>10, <1>11, <1>12, <1>15

\* The stored attempts of a request are one history, three long at most.
LEMMA AttemptsHold == ASSUME RequestsInv, AttemptsInv PROVE AttemptsAreOneHistory
<1>1. ASSUME NEW r \in AiRequests, Known(aiRequests[r]) PROVE aiRequests[r].attempts <= 3
  <2>1. aiRequests[r].attempts \in 0..MaxAttempts /\ MaxAttempts \in 0..3
    BY <1>1, AiAssumption DEF RequestsInv, RequestRow, Known
  <2> QED
    BY <2>1
<1> QED
  BY <1>1 DEF AttemptsInv, AttemptsAreOneHistory, History, Its

-----------------------------------------------------------------------------
(* Conversations                                                             *)

OneChat(c) ==
    LET row == conversations[c] IN
    /\ IsFiniteSet(Of(c)) /\ Cardinality(Of(c)) = row.count
    /\ {exchanges[x].sequence : x \in Of(c)} = 1..row.count
    /\ row.status = "expired" => Of(c) = {}
    /\ Known(aiRequests[row.request]) /\ row.owner = aiRequests[row.request].owner
    /\ \A x \in Of(c) : exchanges[x].citations \subseteq Evidences(row.request)

ChatsInv ==
    /\ conversations \in [Conversations -> ConversationRow \cup {NotStored}]
    /\ exchanges \in [Exchanges -> ExchangeRow \cup {NotStored}]
    /\ \A c \in Conversations : Known(conversations[c]) => OneChat(c)
    /\ \A x \in Exchanges : Known(exchanges[x]) => Known(conversations[exchanges[x].conversation])

\* A conversation and its exchanges that a step leaves alone.
LEMMA ChatStays ==
    ASSUME RequestsKept, NEW c, Known(conversations[c]), conversations[c] \in ConversationRow, OneChat(c),
           conversations'[c] = conversations[c], Of(c)' = Of(c),
           \A x \in Of(c) : exchanges'[x] = exchanges[x]
    PROVE  OneChat(c)'
<1>1. PICK row : row = conversations[c]
  OBVIOUS
<1>2. row.request \in AiRequests /\ Known(aiRequests[row.request])
  BY <1>1 DEF OneChat, ConversationRow
<1>3. /\ Known(aiRequests'[row.request]) /\ aiRequests'[row.request].owner = aiRequests[row.request].owner
      /\ aiRequests'[row.request].evidence = aiRequests[row.request].evidence
  BY <1>2 DEF RequestsKept
<1>4. PICK S : S = Of(c)
  OBVIOUS
<1>5. {exchanges'[x].sequence : x \in S} = {exchanges[x].sequence : x \in S}
  <2>1. \A x \in S : exchanges'[x].sequence = exchanges[x].sequence
    BY <1>4
  <2> QED
    BY ONLY <2>1
<1>6. \A x \in S : exchanges'[x].citations \subseteq aiRequests'[row.request].evidence
  BY <1>1, <1>3, <1>4 DEF OneChat, Evidences
<1> QED
  BY <1>1, <1>3, <1>4, <1>5, <1>6 DEF OneChat, Evidences

\* Conversations that a step leaves alone stay sound.
LEMMA ChatsStay ==
    ASSUME RequestsKept, ChatsInv, UNCHANGED <<conversations, exchanges>>
    PROVE  ChatsInv'
<1>1. ASSUME NEW c \in Conversations, Known(conversations[c]) PROVE OneChat(c)'
  <2>1. Of(c)' = Of(c)
    BY DEF Of
  <2> QED
    BY <1>1, <2>1, ChatStays DEF ChatsInv, Known
<1> QED
  BY <1>1 DEF ChatsInv

\* A new conversation belongs to the owner of its request.
LEMMA CreateConversationStep ==
    ASSUME RequestsInv, RequestsKept, ChatsInv, NEW c \in Conversations, NEW r \in AiRequests, NEW u \in Users,
           CreateConversation(c, r, u)
    PROVE  ChatsInv'
<1> DEFINE row == [request |-> r, owner |-> u, status |-> "active", due |-> FALSE, count |-> 0]
<1>1. /\ ~Known(conversations[c]) /\ Known(aiRequests[r]) /\ aiRequests[r].owner = u
      /\ conversations' = [conversations EXCEPT ![c] = row] /\ exchanges' = exchanges /\ aiRequests' = aiRequests
  BY DEF CreateConversation, analysisVars
<1>2. /\ row.request = r /\ row.owner = u /\ row.status = "active" /\ row.count = 0
      /\ row \in ConversationRow
  BY AiAssumption DEF ConversationRow
<1> HIDE DEF row
<1>3. /\ conversations' \in [Conversations -> ConversationRow \cup {NotStored}]
      /\ conversations'[c] = row /\ \A b \in Conversations : b # c => conversations'[b] = conversations[b]
  BY <1>1, <1>2 DEF ChatsInv
<1>4. \A b \in Conversations : Of(b)' = Of(b)
  BY <1>1 DEF Of
<1>5. ASSUME NEW b \in Conversations, Known(conversations'[b]) PROVE OneChat(b)'
  <2>1. CASE b = c
    <3>1. Of(c) = {}
      BY <1>1 DEF Of, ChatsInv
    <3>2. {exchanges'[x].sequence : x \in {}} = {} /\ 1..0 = {} /\ IsFiniteSet({}) /\ Cardinality({}) = 0
      BY FS_EmptySet
    <3> QED
      BY <1>1, <1>2, <1>3, <1>4, <2>1, <3>1, <3>2 DEF OneChat
  <2>2. CASE b # c
    BY <1>1, <1>3, <1>4, <1>5, <2>2, ChatStays DEF ChatsInv, Known
  <2> QED
    BY <2>1, <2>2
<1>6. \A x \in Exchanges : Known(exchanges'[x]) => Known(conversations'[exchanges'[x].conversation])
  <2>1. Known(row)
    BY <1>2, AiAssumption DEF Known
  <2>2. \A x \in Exchanges : Known(exchanges[x]) => exchanges[x].conversation \in Conversations
    BY DEF ChatsInv, ExchangeRow, Known
  <2> QED
    BY <1>1, <1>3, <2>1, <2>2 DEF ChatsInv
<1> QED
  BY <1>1, <1>3, <1>5, <1>6 DEF ChatsInv

\* An exchange takes the next number of its conversation.
LEMMA CreateExchangeStep ==
    ASSUME RequestsInv, RequestsKept, ChatsInv, NEW x \in Exchanges, NEW c \in Conversations, NEW u \in Users,
           NEW citations \in SUBSET Evidence, CreateExchange(x, c, u, citations)
    PROVE  ChatsInv'
<1> DEFINE old == conversations[c]
           n == old.count
           one == [conversation |-> c, citations |-> citations, sequence |-> n + 1]
           row == [old EXCEPT !.count = @ + 1]
<1>1. /\ ~Known(exchanges[x]) /\ Known(old) /\ old.status = "active" /\ n < MaxExchanges
      /\ citations \subseteq Evidences(old.request) /\ aiRequests' = aiRequests
      /\ exchanges' = [exchanges EXCEPT ![x] = one]
      /\ conversations' = [conversations EXCEPT ![c].count = @ + 1]
  BY DEF CreateExchange, analysisVars
<1>2. old \in ConversationRow /\ n \in 0..MaxExchanges /\ n \in Nat /\ n + 1 \in 0..MaxExchanges
      /\ n + 1 \in 1..MaxExchanges
  <2>1. old \in ConversationRow
    BY <1>1 DEF ChatsInv, Known
  <2>2. n \in 0..MaxExchanges /\ MaxExchanges \in Nat
    BY <2>1, AiAssumption DEF ConversationRow
  <2> QED
    BY <1>1, <2>1, <2>2
<1>3. conversations' = [conversations EXCEPT ![c] = row]
  BY <1>1 DEF ChatsInv
<1> HIDE DEF old
<1>4. row.status = old.status /\ row.count = n + 1 /\ row.request = old.request /\ row.owner = old.owner
  BY <1>2 DEF ConversationRow
<1>5. row \in ConversationRow
  <2> DEFINE A == 0..MaxExchanges
             w == n + 1
  <2>1. old \in [request : AiRequests, owner : Users, status : {"active", "expired"}, due : BOOLEAN,
                 count : A] /\ w \in A
    BY <1>2 DEF ConversationRow
  <2>2. row = [old EXCEPT !.count = w]
    BY <2>1
  <2> HIDE DEF A, w, row
  <2>3. row \in [request : AiRequests, owner : Users, status : {"active", "expired"}, due : BOOLEAN, count : A]
    BY <2>1, <2>2
  <2> QED
    BY <2>3 DEF ConversationRow, A
<1>6. /\ one.conversation = c /\ one.citations = citations /\ one.sequence = n + 1 /\ one \in ExchangeRow
  BY <1>2 DEF ExchangeRow
<1> HIDE DEF row, one
<1>7. /\ conversations' \in [Conversations -> ConversationRow \cup {NotStored}]
      /\ conversations'[c] = row /\ \A b \in Conversations : b # c => conversations'[b] = conversations[b]
  BY <1>3, <1>5 DEF ChatsInv
<1>8. /\ exchanges' \in [Exchanges -> ExchangeRow \cup {NotStored}]
      /\ exchanges'[x] = one /\ \A y \in Exchanges : y # x => exchanges'[y] = exchanges[y]
  BY <1>1, <1>6 DEF ChatsInv
<1>9. Known(row) /\ Known(one)
  BY <1>5, <1>6, AiAssumption DEF Known
<1>10. \A y \in Exchanges : Known(exchanges'[y]) => Known(conversations'[exchanges'[y].conversation])
  <2>1. \A y \in Exchanges : Known(exchanges[y]) => exchanges[y].conversation \in Conversations
    BY DEF ChatsInv, ExchangeRow, Known
  <2> QED
    BY <1>6, <1>7, <1>8, <1>9, <2>1 DEF ChatsInv
<1>11. ASSUME NEW b \in Conversations, Known(conversations'[b]) PROVE OneChat(b)'
  <2>1. CASE b # c
    <3>1. Of(b)' = Of(b) /\ x \notin Of(b)
      BY <1>1, <1>6, <1>8, <2>1 DEF Of
    <3>2. \A y \in Of(b) : exchanges'[y] = exchanges[y]
      BY <1>8, <3>1 DEF Of
    <3>3. conversations'[b] = conversations[b]
      BY <1>7, <2>1
    <3> QED
      BY <1>11, <3>1, <3>2, <3>3, ChatStays DEF ChatsInv, Known
  <2>2. CASE b = c
    <3>1. Of(c)' = Of(c) \cup {x} /\ x \notin Of(c)
      BY <1>1, <1>6, <1>8, <1>9 DEF Of
    <3>2. /\ IsFiniteSet(Of(c)) /\ Cardinality(Of(c)) = n /\ {exchanges[y].sequence : y \in Of(c)} = 1..n
          /\ Known(aiRequests[old.request]) /\ old.owner = aiRequests[old.request].owner
          /\ \A y \in Of(c) : exchanges[y].citations \subseteq Evidences(old.request)
      BY <1>1 DEF ChatsInv, OneChat, old
    <3>3. PICK S : S = Of(c)
      OBVIOUS
    <3>4. \A y \in S : exchanges'[y] = exchanges[y]
      BY <1>8, <3>1, <3>3 DEF Of
    <3>5. IsFiniteSet(S \cup {x}) /\ Cardinality(S \cup {x}) = n + 1 /\ 1..(n + 1) = (1..n) \cup {n + 1}
      BY <1>2, <3>1, <3>2, <3>3, OneMore
    <3>6. {exchanges'[y].sequence : y \in S \cup {x}} = 1..(n + 1)
      <4>1. \A y \in S : exchanges'[y].sequence = exchanges[y].sequence
        BY <3>4
      <4>2. exchanges'[x].sequence = n + 1 /\ {exchanges[y].sequence : y \in S} = 1..n
        BY <1>6, <1>8, <3>2, <3>3
      <4>3. {exchanges'[y].sequence : y \in S \cup {x}} = {exchanges[y].sequence : y \in S} \cup {n + 1}
        BY ONLY <4>1, <4>2
      <4> QED
        BY ONLY <3>5, <4>2, <4>3
    <3>7. \A y \in S \cup {x} : exchanges'[y].citations \subseteq aiRequests'[old.request].evidence
      BY <1>1, <1>6, <1>8, <3>2, <3>3, <3>4 DEF Evidences
    <3>8. /\ conversations'[c] = row /\ row.status # "expired" /\ row.count = n + 1
          /\ row.request = old.request /\ row.owner = old.owner
      BY <1>1, <1>4, <1>7
    <3>9. Of(c)' = S \cup {x} /\ aiRequests' = aiRequests
      BY <1>1, <3>1, <3>3
    <3> HIDE DEF n
    <3>10. OneChat(c)'
      BY <3>2, <3>5, <3>6, <3>7, <3>8, <3>9 DEF OneChat, Evidences
    <3> QED
      BY <2>2, <3>10
  <2> QED
    BY <2>1, <2>2
<1> QED
  BY <1>7, <1>8, <1>10, <1>11 DEF ChatsInv

\* A conversation whose time is over is due, and nothing else changes.
LEMMA ExpireStep ==
    ASSUME RequestsInv, RequestsKept, ChatsInv, NEW c \in Conversations, Expire(c)
    PROVE  ChatsInv'
<1> DEFINE old == conversations[c]
           row == [old EXCEPT !.due = TRUE]
<1>1. /\ Known(old) /\ exchanges' = exchanges /\ aiRequests' = aiRequests
      /\ conversations' = [conversations EXCEPT ![c].due = TRUE]
  BY DEF Expire, analysisVars
<1>2. old \in ConversationRow
  BY <1>1 DEF ChatsInv, Known
<1>3. conversations' = [conversations EXCEPT ![c] = row]
  BY <1>1 DEF ChatsInv
<1> HIDE DEF old
<1>4. row.status = old.status /\ row.count = old.count /\ row.request = old.request /\ row.owner = old.owner
  BY <1>2 DEF ConversationRow
<1>5. row \in ConversationRow
  <2> DEFINE A == 0..MaxExchanges
  <2>1. old \in [request : AiRequests, owner : Users, status : {"active", "expired"}, due : BOOLEAN, count : A]
    BY <1>2 DEF ConversationRow
  <2> HIDE DEF A
  <2>2. row \in [request : AiRequests, owner : Users, status : {"active", "expired"}, due : BOOLEAN, count : A]
    BY <2>1
  <2> HIDE DEF row
  <2> QED
    BY <2>2 DEF ConversationRow, A
<1> HIDE DEF row
<1>6. /\ conversations' \in [Conversations -> ConversationRow \cup {NotStored}]
      /\ conversations'[c] = row /\ \A b \in Conversations : b # c => conversations'[b] = conversations[b]
  BY <1>3, <1>5 DEF ChatsInv
<1>7. \A b : Of(b)' = Of(b)
  BY <1>1 DEF Of
<1>8. Known(row)
  BY <1>5, AiAssumption DEF Known
<1>9. ASSUME NEW b \in Conversations, Known(conversations'[b]) PROVE OneChat(b)'
  <2>1. CASE b = c
    <3>1. OneChat(c)
      BY <1>1 DEF ChatsInv, old
    <3>2. OneChat(c)'
      BY <1>1, <1>4, <1>6, <1>7, <3>1 DEF OneChat, Evidences, old
    <3> QED
      BY <2>1, <3>2
  <2>2. CASE b # c
    BY <1>1, <1>6, <1>7, <1>9, <2>2, ChatStays DEF ChatsInv, Known
  <2> QED
    BY <2>1, <2>2
<1>10. \A x \in Exchanges : Known(exchanges'[x]) => Known(conversations'[exchanges'[x].conversation])
  <2>1. \A x \in Exchanges : Known(exchanges[x]) => exchanges[x].conversation \in Conversations
    BY DEF ChatsInv, ExchangeRow, Known
  <2> QED
    BY <1>1, <1>6, <1>8, <2>1 DEF ChatsInv
<1> QED
  BY <1>1, <1>6, <1>9, <1>10 DEF ChatsInv

\* The purge closes the conversations that are due and drops their exchanges.
LEMMA PurgeExpiredStep ==
    ASSUME RequestsInv, RequestsKept, ChatsInv, PurgeExpired
    PROVE  ChatsInv'
<1>1. PICK over : over = {c \in Conversations : Known(conversations[c]) /\ conversations[c].status = "active"
                                                /\ conversations[c].due}
  OBVIOUS
<1>2. /\ conversations' = [c \in Conversations |->
            IF c \in over THEN [conversations[c] EXCEPT !.status = "expired", !.count = 0]
            ELSE conversations[c]]
      /\ exchanges' = [x \in Exchanges |->
            IF Known(exchanges[x]) /\ exchanges[x].conversation \in over THEN NotStored ELSE exchanges[x]]
      /\ aiRequests' = aiRequests
  BY <1>1 DEF PurgeExpired, analysisVars
<1>3. ASSUME NEW c \in over
      PROVE  /\ conversations'[c] \in ConversationRow
             /\ conversations'[c].status = "expired" /\ conversations'[c].count = 0
             /\ conversations'[c].request = conversations[c].request
             /\ conversations'[c].owner = conversations[c].owner
  <2> DEFINE A == 0..MaxExchanges
  <2>1. PICK old : old = conversations[c]
    OBVIOUS
  <2>2. old \in ConversationRow /\ c \in Conversations
    BY <1>1, <1>3, <2>1 DEF ChatsInv, Known
  <2>3. 0 \in A
    BY AiAssumption
  <2>4. old \in [request : AiRequests, owner : Users, status : {"active", "expired"}, due : BOOLEAN, count : A]
    BY <2>2 DEF ConversationRow
  <2>5. PICK row : row = [old EXCEPT !.status = "expired", !.count = 0]
    OBVIOUS
  <2>6. conversations'[c] = row
    BY <1>2, <1>3, <2>1, <2>2, <2>5
  <2> HIDE DEF A
  <2>7. row \in [request : AiRequests, owner : Users, status : {"active", "expired"}, due : BOOLEAN, count : A]
    BY <2>3, <2>4, <2>5
  <2>8. row.status = "expired" /\ row.count = 0 /\ row.request = old.request /\ row.owner = old.owner
    BY <2>4, <2>5
  <2> QED
    BY <2>1, <2>6, <2>7, <2>8 DEF ConversationRow, A
<1>4. \A c \in Conversations : c \notin over => conversations'[c] = conversations[c]
  BY <1>2
<1>5. conversations' \in [Conversations -> ConversationRow \cup {NotStored}]
  <2>1. \A c \in Conversations : conversations'[c] \in ConversationRow \cup {NotStored}
    BY <1>3, <1>4 DEF ChatsInv
  <2> QED
    BY <1>2, <2>1
<1>6. exchanges' \in [Exchanges -> ExchangeRow \cup {NotStored}]
  BY <1>2 DEF ChatsInv
<1>7. \A x \in Exchanges : Known(exchanges'[x]) =>
         exchanges'[x] = exchanges[x] /\ exchanges[x].conversation \notin over
  BY <1>2 DEF Known
<1>8. \A x \in Exchanges : Known(exchanges[x]) /\ exchanges[x].conversation \notin over =>
         exchanges'[x] = exchanges[x]
  BY <1>2
<1>9. ASSUME NEW c \in Conversations, Known(conversations'[c]) PROVE OneChat(c)'
  <2>1. CASE c \in over
    <3>1. Of(c)' = {}
      BY <1>7, <2>1 DEF Of
    <3>2. Known(conversations[c]) /\ OneChat(c)
      BY <1>1, <2>1 DEF ChatsInv
    <3>3. {exchanges'[x].sequence : x \in {}} = {} /\ 1..0 = {} /\ IsFiniteSet({}) /\ Cardinality({}) = 0
      BY FS_EmptySet
    <3> QED
      BY <1>2, <1>3, <2>1, <3>1, <3>2, <3>3 DEF OneChat
  <2>2. CASE c \notin over
    <3>1. Of(c)' = Of(c)
      BY <1>7, <1>8, <2>2 DEF Of
    <3>2. \A x \in Of(c) : exchanges'[x] = exchanges[x]
      BY <1>8, <2>2 DEF Of
    <3> QED
      BY <1>4, <1>9, <2>2, <3>1, <3>2, ChatStays DEF ChatsInv, Known
  <2> QED
    BY <2>1, <2>2
<1>10. \A x \in Exchanges : Known(exchanges'[x]) => Known(conversations'[exchanges'[x].conversation])
  <2>1. \A x \in Exchanges : Known(exchanges[x]) =>
          exchanges[x].conversation \in Conversations /\ Known(conversations[exchanges[x].conversation])
    BY DEF ChatsInv, ExchangeRow, Known
  <2> QED
    BY <1>4, <1>7, <2>1
<1> QED
  BY <1>5, <1>6, <1>9, <1>10 DEF ChatsInv

\* The conversations' invariant implies what the runs check of them.
LEMMA ChatsHold == ASSUME ChatsInv PROVE ConversationsAreSound
BY DEF ChatsInv, OneChat, ConversationsAreSound

-----------------------------------------------------------------------------
(* Suggestions and the definitions they become                               *)

\* A suggestion is reviewed at its first version and promoted at its second.
SuggestionLevel == [draft |-> 1, approved |-> 2, rejected |-> 2, promoted |-> 3]

SuggestionOK(row) ==
    /\ row \in SuggestionRow /\ row.version = SuggestionLevel[row.status]
    /\ (row.definition # Null) <=> (row.status = "promoted")
    /\ row.status = "promoted" => Stored(row.definition) /\ authored[row.definition] = row.content

\* One analysis, or suggestion, for a request.
OneEach(table) ==
    \A x, y \in DOMAIN table :
       Known(table[x]) /\ Known(table[y]) /\ x # y => table[x].request # table[y].request

SuggestionsInv ==
    /\ suggestions \in [Suggestions -> SuggestionRow \cup {NotStored}]
    /\ authored \in [Definitions -> Contents \cup {Null}]
    /\ \A x \in Suggestions : Known(suggestions[x]) => SuggestionOK(suggestions[x])
    /\ OneEach(suggestions)

\* How a stored suggestion may go on.
SuggestionsKept ==
    \A x \in Suggestions : Known(suggestions[x]) =>
       /\ Known(suggestions'[x])
       /\ suggestions[x].status \in {"rejected", "promoted"} => suggestions'[x] = suggestions[x]
       /\ suggestions[x].status = "approved" => suggestions'[x].status \in {"approved", "promoted"}

\* What was written of a definition stays.
AuthoredKept == \A d \in Definitions : Stored(d) => Stored(d)' /\ authored'[d] = authored[d]

\* No step of the AI engine activates a definition.
DraftsOnly == \A d \in Definitions : IsActive(d)' => IsActive(d)

\* A suggestion stays sound while its definition keeps its content.
LEMMA SuggestionStays ==
    ASSUME AuthoredKept, NEW row, SuggestionOK(row)
    PROVE  SuggestionOK(row)'
<1>1. row \in SuggestionRow
  BY DEF SuggestionOK
<1>2. row.status = "promoted" => row.definition \in Definitions
  BY <1>1 DEF SuggestionOK, SuggestionRow
<1> QED
  BY <1>2 DEF SuggestionOK, AuthoredKept

\* Suggestions that a step leaves alone stay sound.
LEMMA SuggestionsStay ==
    ASSUME AuthoredKept, SuggestionsInv, suggestions' = suggestions,
           authored' \in [Definitions -> Contents \cup {Null}]
    PROVE  SuggestionsInv' /\ SuggestionsKept
<1>1. ASSUME NEW x \in Suggestions, Known(suggestions'[x]) PROVE SuggestionOK(suggestions[x])'
  <2>1. PICK row : row = suggestions[x]
    OBVIOUS
  <2>2. SuggestionOK(row)
    BY <1>1, <2>1 DEF SuggestionsInv
  <2>3. SuggestionOK(row)'
    BY <2>2, SuggestionStays
  <2> QED
    BY <2>1, <2>3 DEF SuggestionOK
<1>2. OneEach(suggestions)'
  BY DEF SuggestionsInv, OneEach
<1>3. SuggestionsKept
  <2>1. \A x \in Suggestions : Known(suggestions[x]) => suggestions[x].status = "approved" \/ TRUE
    OBVIOUS
  <2> QED
    BY DEF SuggestionsKept
<1> QED
  BY <1>1, <1>2, <1>3 DEF SuggestionsInv

\* One suggestion is stored or goes on.
LEMMA SuggestionChanges ==
    ASSUME AuthoredKept, SuggestionsInv, authored' \in [Definitions -> Contents \cup {Null}],
           NEW x \in Suggestions, NEW row, SuggestionOK(row)',
           suggestions' = [suggestions EXCEPT ![x] = row],
           Known(suggestions[x]) =>
              /\ row.request = suggestions[x].request
              /\ suggestions[x].status \notin {"rejected", "promoted"}
              /\ suggestions[x].status = "approved" => row.status = "promoted",
           ~Known(suggestions[x]) => NoneFor(suggestions, row.request)
    PROVE  SuggestionsInv' /\ SuggestionsKept
<1>1. row \in SuggestionRow /\ Known(row)
  BY AiAssumption DEF SuggestionOK, Known
<1>2. /\ suggestions' \in [Suggestions -> SuggestionRow \cup {NotStored}]
      /\ suggestions'[x] = row /\ \A y \in Suggestions : y # x => suggestions'[y] = suggestions[y]
  BY <1>1 DEF SuggestionsInv
<1>3. ASSUME NEW y \in Suggestions, Known(suggestions'[y]) PROVE SuggestionOK(suggestions[y])'
  <2>1. PICK r : r = suggestions'[y]
    OBVIOUS
  <2>2. SuggestionOK(r)'
    <3>1. CASE y = x
      <4>1. r = row
        BY <1>2, <2>1, <3>1
      <4> QED
        BY <4>1
    <3>2. CASE y # x
      BY <1>2, <1>3, <2>1, <3>2, SuggestionStays DEF SuggestionsInv
    <3> QED
      BY <3>1, <3>2
  <2> QED
    BY <2>1, <2>2 DEF SuggestionOK
<1>4. OneEach(suggestions)'
  <2>1. ASSUME NEW y \in Suggestions, Known(suggestions[y]), y # x PROVE suggestions[y].request # row.request
    <3>1. CASE Known(suggestions[x])
      BY <2>1, <3>1 DEF SuggestionsInv, OneEach
    <3>2. CASE ~Known(suggestions[x])
      BY <2>1, <3>2 DEF NoneFor, SuggestionsInv
    <3> QED
      BY <3>1, <3>2
  <2>2. DOMAIN suggestions = Suggestions /\ DOMAIN suggestions' = Suggestions
    BY <1>2 DEF SuggestionsInv
  <2>3. ASSUME NEW y \in Suggestions, NEW z \in Suggestions, Known(suggestions'[y]), Known(suggestions'[z]), y # z
        PROVE  suggestions'[y].request # suggestions'[z].request
    <3>1. CASE y = x
      BY <1>2, <2>1, <2>3, <3>1
    <3>2. CASE z = x
      BY <1>2, <2>1, <2>3, <3>2
    <3>3. CASE y # x /\ z # x
      BY <1>2, <2>2, <2>3, <3>3 DEF SuggestionsInv, OneEach
    <3> QED
      BY <3>1, <3>2, <3>3
  <2> QED
    BY <2>2, <2>3 DEF OneEach
<1>5. SuggestionsKept
  BY <1>1, <1>2 DEF SuggestionsKept
<1> QED
  BY <1>2, <1>3, <1>4, <1>5 DEF SuggestionsInv

\* The record of a suggestion that goes on.
ReviewStates == {"draft", "approved", "rejected", "promoted"}
ReviewLevels == 1..3
Promises == Definitions \cup {Null}
Became(old, status, v, d) == [old EXCEPT !.status = status, !.version = v, !.definition = d]

\* The record that a review or a promotion stores.
LEMMA SuggestionRecord ==
    ASSUME NEW old \in SuggestionRow, NEW status \in ReviewStates,
           NEW v \in ReviewLevels, NEW d \in Promises,
           NEW row, row = Became(old, status, v, d)
    PROVE  /\ row \in SuggestionRow /\ row.status = status /\ row.version = v /\ row.definition = d
           /\ row.request = old.request /\ row.content = old.content
<1> DEFINE E == SUBSET Evidence
           All == [request : AiRequests, content : Contents, evidence : E, status : ReviewStates,
                   version : ReviewLevels, definition : Promises]
<1>1. SuggestionRow = All
  BY DEF SuggestionRow, ReviewStates, ReviewLevels, Promises
<1>2. row = [old EXCEPT !.status = status, !.version = v, !.definition = d]
  BY DEF Became
<1> HIDE DEF E
<1>3. old \in All
  BY <1>1
<1>4. row \in All
  BY <1>2, <1>3
<1>5. row.status = status /\ row.version = v /\ row.definition = d
  BY <1>2, <1>3
<1>6. row.request = old.request /\ row.content = old.content
  BY <1>2, <1>3
<1> HIDE DEF All
<1> QED
  BY <1>1, <1>4, <1>5, <1>6

\* Nothing is authored.
LEMMA NothingAuthored ==
    ASSUME catalog' = catalog, authored' = authored
    PROVE  AuthoredKept /\ DraftsOnly
BY DEF AuthoredKept, DraftsOnly, Stored, IsActive

\* A suggestion is stored as a draft.
LEMMA CreateSuggestionStep ==
    ASSUME RequestsInv, SuggestionsInv, NEW x \in Suggestions, NEW r \in AiRequests, NEW content \in Contents,
           NEW evidence \in SUBSET Evidence, CreateSuggestion(x, r, content, evidence)
    PROVE  SuggestionsInv' /\ SuggestionsKept /\ AuthoredKept /\ DraftsOnly
<1> DEFINE row == [request |-> r, content |-> content, evidence |-> Evidences(r) \cup evidence,
                   status |-> "draft", version |-> 1, definition |-> Null]
<1>1. /\ ~Known(suggestions[x]) /\ Known(aiRequests[r]) /\ NoneFor(suggestions, r)
      /\ suggestions' = [suggestions EXCEPT ![x] = row] /\ authored' = authored /\ catalog' = catalog
  BY DEF CreateSuggestion, catalogVars
<1>2. AuthoredKept /\ DraftsOnly
  BY <1>1, NothingAuthored
<1>3. /\ row.request = r /\ row.status = "draft" /\ row.version = 1 /\ row.definition = Null
      /\ row \in SuggestionRow
  <2> DEFINE cited == Evidences(r) \cup evidence
  <2>1. cited \in SUBSET Evidence
    BY <1>1 DEF RequestsInv, RequestRow, Evidences, Known
  <2> HIDE DEF cited
  <2> QED
    BY <2>1 DEF SuggestionRow, cited
<1> HIDE DEF row
<1>4. PICK new : new = row
  OBVIOUS
<1>5. /\ new.request = r /\ new.status = "draft" /\ new.version = 1 /\ new.definition = Null
      /\ new \in SuggestionRow /\ suggestions' = [suggestions EXCEPT ![x] = new]
  BY <1>1, <1>3, <1>4
<1>6. SuggestionOK(new)'
  BY ONLY <1>5 DEF SuggestionOK, SuggestionLevel
<1>7. authored' \in [Definitions -> Contents \cup {Null}]
  BY <1>1 DEF SuggestionsInv
<1>8. NoneFor(suggestions, new.request)
  BY <1>1, <1>5
<1>9. SuggestionsInv' /\ SuggestionsKept
  BY <1>1, <1>2, <1>5, <1>6, <1>7, <1>8, SuggestionChanges
<1> QED
  BY <1>2, <1>9

\* A review decides a draft, once.
LEMMA ReviewSuggestionStep ==
    ASSUME SuggestionsInv, NEW x \in Suggestions, NEW decision \in {"approved", "rejected"}, NEW expected,
           ReviewSuggestion(x, decision, expected)
    PROVE  SuggestionsInv' /\ SuggestionsKept /\ AuthoredKept /\ DraftsOnly
<1> DEFINE old == suggestions[x]
           row == [old EXCEPT !.status = decision, !.version = @ + 1]
<1>1. /\ Known(old) /\ old.status = "draft" /\ authored' = authored /\ catalog' = catalog
      /\ suggestions' = [suggestions EXCEPT ![x].status = decision, ![x].version = @ + 1]
  BY DEF ReviewSuggestion, catalogVars
<1>2. AuthoredKept /\ DraftsOnly
  BY <1>1, NothingAuthored
<1>3. SuggestionOK(old) /\ old \in SuggestionRow /\ old.version = 1 /\ old.definition = Null
  BY <1>1 DEF SuggestionsInv, SuggestionOK, SuggestionLevel
<1>4. suggestions' = [suggestions EXCEPT ![x] = row]
  BY <1>1 DEF SuggestionsInv
<1> HIDE DEF old
<1>5. PICK was : was = old
  OBVIOUS
<1>6. was \in SuggestionRow /\ was.version = 1 /\ was.definition = Null /\ SuggestionOK(was)
  BY <1>3, <1>5
<1>7. PICK new : new = row
  OBVIOUS
<1>8. new = [was EXCEPT !.status = decision, !.version = @ + 1]
  BY <1>5, <1>7
<1> HIDE DEF row
<1>9. new = Became(was, decision, 2, Null)
  <2> DEFINE V == 1..3
             S == {"draft", "approved", "rejected", "promoted"}
             D == Definitions \cup {Null}
             E == SUBSET Evidence
             last == [was EXCEPT !.status = decision, !.version = 2]
  <2>1. was \in [request : AiRequests, content : Contents, evidence : E, status : S, version : V, definition : D]
    BY <1>6 DEF SuggestionRow
  <2>2. new = last
    BY <1>6, <1>8
  <2> HIDE DEF V, S, D, E
  <2>3. last.definition = Null
    BY <1>6, <2>1
  <2>4. DOMAIN last = DOMAIN was
    OBVIOUS
  <2> HIDE DEF last
  <2>5. last = [last EXCEPT !.definition = Null]
    <3>1. last = [f \in DOMAIN was |-> last[f]]
      BY DEF last
    <3> QED
      BY <2>3, <2>4, <3>1
  <2> QED
    BY <2>2, <2>5 DEF last, Became
<1>10. decision \in ReviewStates /\ 2 \in ReviewLevels /\ Null \in Promises
  BY DEF ReviewStates, ReviewLevels, Promises
<1>11. /\ new \in SuggestionRow /\ new.status = decision /\ new.version = 2 /\ new.definition = Null
       /\ new.request = was.request /\ new.content = was.content
  BY ONLY <1>6, <1>9, <1>10, SuggestionRecord
<1>12. SuggestionOK(new)'
  <2>1. decision # "promoted" /\ SuggestionLevel[decision] = 2
    BY DEF SuggestionLevel
  <2> QED
    BY ONLY <1>11, <2>1 DEF SuggestionOK
<1>13. authored' \in [Definitions -> Contents \cup {Null}]
  BY <1>1 DEF SuggestionsInv
<1>14. suggestions' = [suggestions EXCEPT ![x] = new]
  BY <1>4, <1>7
<1>15. SuggestionsInv' /\ SuggestionsKept
  <2>1. suggestions[x] = was /\ was.status = "draft" /\ Known(suggestions[x])
    BY <1>1, <1>5 DEF old
  <2> QED
    BY ONLY <1>2, <1>11, <1>12, <1>13, <1>14, <2>1, SuggestionsInv, x \in Suggestions, SuggestionChanges
<1> QED
  BY <1>2, <1>15

\* A definition is written, by hand or from a suggestion.
LEMMA AuthoringStep ==
    ASSUME CatalogInv, SuggestionsInv, NEW d \in Definitions, NEW content \in Contents, CreateDefinition(d),
           authored' = [authored EXCEPT ![d] = content]
    PROVE  /\ CatalogInv' /\ Advances /\ AuthoredKept /\ DraftsOnly
           /\ authored' \in [Definitions -> Contents \cup {Null}]
           /\ Stored(d)' /\ authored'[d] = content
<1>1. CatalogInv' /\ Advances
  BY CreateStep DEF CreateDefinition, Governed
<1>2. ~Stored(d) /\ catalog' = [catalog EXCEPT ![d] = NewRow({})]
  BY DEF CreateDefinition, Create
<1>3. authored' \in [Definitions -> Contents \cup {Null}] /\ authored'[d] = content
  BY DEF SuggestionsInv
<1>4. AuthoredKept
  BY <1>1, <1>2 DEF AuthoredKept, Advances, Governed, SuggestionsInv
<1>5. NewRow({}) # NotStored /\ NewRow({}).status = "draft"
  BY CatalogAssumption DEF NewRow, GovernedRow, Statuses
<1>6. catalog'[d] = NewRow({}) /\ \A e \in Definitions : e # d => catalog'[e] = catalog[e]
  BY <1>2 DEF CatalogInv, CatalogTyped, Governed
<1>7. Stored(d)' /\ DraftsOnly
  BY <1>5, <1>6 DEF Stored, IsActive, DraftsOnly
<1> QED
  BY <1>1, <1>3, <1>4, <1>7

\* A definition written by hand touches no suggestion.
LEMMA AuthorDefinitionStep ==
    ASSUME CatalogInv, SuggestionsInv, NEW d \in Definitions, NEW content \in Contents,
           AuthorDefinition(d, content)
    PROVE  /\ CatalogInv' /\ Advances
           /\ SuggestionsInv' /\ SuggestionsKept /\ AuthoredKept /\ DraftsOnly
BY AuthoringStep, SuggestionsStay DEF AuthorDefinition

\* A promotion makes a new definition of an approved suggestion.
LEMMA PromoteSuggestionStep ==
    ASSUME CatalogInv, SuggestionsInv, NEW x \in Suggestions, NEW d \in Definitions, NEW expected,
           PromoteSuggestion(x, d, expected)
    PROVE  /\ CatalogInv' /\ Advances
           /\ SuggestionsInv' /\ SuggestionsKept /\ AuthoredKept /\ DraftsOnly
<1> DEFINE old == suggestions[x]
           row == [old EXCEPT !.status = "promoted", !.version = @ + 1, !.definition = d]
<1>1. /\ Known(old) /\ old.status = "approved"
      /\ \/ CreateDefinition(d) /\ authored' = [authored EXCEPT ![d] = old.content]
         \/ Stored(d) /\ authored[d] = old.content /\ UNCHANGED <<catalogVars, authored>>
      /\ suggestions' = [suggestions EXCEPT ![x].status = "promoted", ![x].version = @ + 1, ![x].definition = d]
  BY DEF PromoteSuggestion
<1>2. SuggestionOK(old) /\ old \in SuggestionRow /\ old.version = 2 /\ old.content \in Contents
  BY <1>1 DEF SuggestionsInv, SuggestionOK, SuggestionLevel, SuggestionRow
<1>3. suggestions' = [suggestions EXCEPT ![x] = row]
  BY <1>1 DEF SuggestionsInv
<1>4. /\ CatalogInv' /\ Advances /\ AuthoredKept /\ DraftsOnly
      /\ authored' \in [Definitions -> Contents \cup {Null}]
      /\ Stored(d)' /\ authored'[d] = old.content
  <2>1. CASE CreateDefinition(d) /\ authored' = [authored EXCEPT ![d] = old.content]
    BY <1>2, <2>1, AuthoringStep
  <2>2. CASE Stored(d) /\ authored[d] = old.content /\ UNCHANGED <<catalogVars, authored>>
    <3>1. catalog' = catalog
      BY <2>2 DEF catalogVars
    <3> QED
      BY <2>2, <3>1, CatalogStays, NothingAuthored DEF SuggestionsInv, Stored
  <2> QED
    BY <1>1, <2>1, <2>2
<1>5. PICK was : was = old
  OBVIOUS
<1>6. PICK new : new = row
  OBVIOUS
<1>7. new = Became(was, "promoted", 3, d)
  BY <1>2, <1>5, <1>6 DEF SuggestionRow, Became
<1>8. /\ new \in SuggestionRow /\ new.status = "promoted" /\ new.version = 3 /\ new.definition = d
      /\ new.request = was.request /\ new.content = was.content
  <2>1. was \in SuggestionRow /\ "promoted" \in ReviewStates /\ 3 \in ReviewLevels /\ d \in Promises
    BY <1>2, <1>5 DEF ReviewStates, ReviewLevels, Promises
  <2> QED
    BY ONLY <1>7, <2>1, SuggestionRecord
<1>9. d # Null
  BY AiAssumption
<1> HIDE DEF row, old
<1>10. SuggestionOK(new)'
  BY <1>4, <1>5, <1>8, <1>9 DEF SuggestionOK, SuggestionLevel
<1>11. SuggestionsInv' /\ SuggestionsKept
  BY <1>1, <1>3, <1>4, <1>5, <1>6, <1>8, <1>10, SuggestionChanges DEF old
<1> QED
  BY <1>4, <1>11

-----------------------------------------------------------------------------
(* Finite sets that are put in order                                         *)

\* R orders S strictly and totally.
Orders(R, S) ==
    /\ \A x \in S : <<x, x>> \notin R
    /\ \A x, y, z \in S : <<x, y>> \in R /\ <<y, z>> \in R => <<x, z>> \in R
    /\ \A x, y \in S : x = y \/ <<x, y>> \in R \/ <<y, x>> \in R

SortedBy(t, R) == \A i, j \in DOMAIN t : i < j => <<t[i], t[j]>> \in R

\* An ordered finite set that is not empty has a last member.
LEMMA HasLast ==
    ASSUME NEW S, IsFiniteSet(S), S # {}, NEW R, Orders(R, S)
    PROVE  \E m \in S : \A x \in S : x # m => <<x, m>> \in R
<1> DEFINE Above(x) == {y \in S : <<x, y>> \in R}
           C == {Above(x) : x \in S}
<1>1. PICK T \in C : \A U \in C : U \subseteq T => U = T
  <2>1. C \in SUBSET SUBSET S /\ C # {}
    OBVIOUS
  <2> HIDE DEF C
  <2> QED
    BY ONLY <2>1, IsFiniteSet(S), MinimalSubset
<1>2. PICK m \in S : T = Above(m)
  BY <1>1
<1>3. ASSUME NEW y \in S, <<m, y>> \in R PROVE FALSE
  <2>1. Above(y) \subseteq Above(m)
    BY <1>3 DEF Orders
  <2>2. y \in Above(m) /\ y \notin Above(y)
    BY <1>3 DEF Orders
  <2>3. Above(y) \in C
    OBVIOUS
  <2> HIDE DEF Above, C
  <2> QED
    BY <1>1, <1>2, <2>1, <2>2, <2>3
<1> QED
  BY <1>3 DEF Orders

\* A sequence of all members, each once.
LEMMA SequenceOf ==
    ASSUME NEW S, IsFiniteSet(S), NEW t \in SetToSeqs(S)
    PROVE  /\ t \in Seq(S) /\ Len(t) = Cardinality(S) /\ DOMAIN t = 1..Len(t) /\ Len(t) \in Nat
           /\ \A i, j \in DOMAIN t : i # j => t[i] # t[j]
           /\ \A s \in S : \E i \in DOMAIN t : t[i] = s
<1> DEFINE n == Cardinality(S)
<1>1. n \in Nat
  BY FS_CardinalityType
<1> HIDE DEF n
<1>2. t \in [1..n -> S] /\ \A i, j \in 1..n : i # j => t[i] # t[j]
  BY DEF SetToSeqs, n
<1>3. t \in Seq(S) /\ Len(t) = n /\ DOMAIN t = 1..n
  BY <1>1, <1>2
<1>4. t \in Injection(1..n, S)
  BY <1>2 DEF Injection, IsInjective
<1>5. IsFiniteSet(1..n) /\ Cardinality(1..n) = n
  BY <1>1, FS_Interval
<1>6. t \in Surjection(1..n, S)
  BY ONLY <1>4, <1>5, IsFiniteSet(S), FS_Injection DEF n
<1> QED
  BY <1>1, <1>2, <1>3, <1>6 DEF n, Surjection

\* Every finite set can be put in order.
LEMMA CanBeSorted ==
    ASSUME NEW S, IsFiniteSet(S), NEW R, Orders(R, S)
    PROVE  \E t \in SetToSeqs(S) : SortedBy(t, R)
<1> DEFINE C == {T \in SUBSET S : ~ \E t \in SetToSeqs(T) : SortedBy(t, R)}
<1>1. SUFFICES ASSUME C # {} PROVE FALSE
  OBVIOUS
<1>2. PICK T \in C : \A U \in C : U \subseteq T => U = T
  <2>1. C \in SUBSET SUBSET S
    OBVIOUS
  <2> HIDE DEF C
  <2> QED
    BY ONLY <1>1, <2>1, IsFiniteSet(S), MinimalSubset
<1>3. T \in SUBSET S /\ IsFiniteSet(T) /\ ~ \E t \in SetToSeqs(T) : SortedBy(t, R)
  BY <1>2, FS_Subset
<1>4. T # {}
  <2>1. SUFFICES ASSUME T = {} PROVE FALSE
    OBVIOUS
  <2> DEFINE t == [i \in 1..0 |-> 0]
  <2>2. Cardinality({}) = 0 /\ 1..0 = {}
    BY FS_EmptySet
  <2>3. t \in SetToSeqs({}) /\ SortedBy(t, R)
    BY <2>2 DEF SetToSeqs, SortedBy
  <2> QED
    BY <1>3, <2>1, <2>3
<1>5. PICK m \in T : \A x \in T : x # m => <<x, m>> \in R
  <2>1. Orders(R, T)
    BY <1>3 DEF Orders
  <2> QED
    BY ONLY <1>3, <1>4, <2>1, HasLast
<1> DEFINE U == T \ {m}
           n == Cardinality(T)
<1>6. IsFiniteSet(U) /\ U \in SUBSET S /\ Cardinality(U) = n - 1 /\ n \in Nat /\ n - 1 \in Nat
  <2>1. n \in Nat /\ n # 0
    BY <1>3, <1>4, FS_EmptySet, FS_CardinalityType
  <2>2. IsFiniteSet(U) /\ Cardinality(U) = n - 1
    BY <1>3, FS_RemoveElement
  <2> QED
    BY <1>3, <2>1, <2>2
<1>7. PICK u \in SetToSeqs(U) : SortedBy(u, R)
  BY <1>2, <1>6
<1> HIDE DEF n
<1>8. u \in [1..(n - 1) -> U] /\ \A i, j \in 1..(n - 1) : i # j => u[i] # u[j]
  BY <1>6, <1>7 DEF SetToSeqs
<1> DEFINE t == [i \in 1..n |-> IF i = n THEN m ELSE u[i]]
<1>9. \A i \in 1..n : i # n => i \in 1..(n - 1) /\ t[i] = u[i] /\ t[i] \in U
  BY <1>6, <1>8
<1>10. n \in 1..n /\ t[n] = m /\ DOMAIN t = 1..n
  BY <1>6
<1> HIDE DEF t
<1>11. t \in [1..n -> T]
  <2>1. \A i \in 1..n : t[i] \in T
    BY <1>9, <1>10
  <2>2. t = [i \in 1..n |-> t[i]]
    BY DEF t
  <2> QED
    BY <2>1, <2>2
<1>12. \A i, j \in 1..n : i # j => t[i] # t[j]
  BY <1>8, <1>9, <1>10
<1>13. t \in SetToSeqs(T)
  BY <1>11, <1>12 DEF SetToSeqs, n
<1>14. SortedBy(t, R)
  <2>1. SUFFICES ASSUME NEW i \in 1..n, NEW j \in 1..n, i < j PROVE <<t[i], t[j]>> \in R
    BY <1>10 DEF SortedBy
  <2>2. i # n /\ i \in 1..(n - 1) /\ t[i] = u[i] /\ t[i] \in U
    BY <1>6, <1>9, <2>1
  <2>3. CASE j = n
    BY <1>5, <1>10, <2>2, <2>3
  <2>4. CASE j # n
    <3>1. DOMAIN u = 1..(n - 1)
      BY <1>8
    <3> QED
      BY <1>7, <1>9, <2>1, <2>2, <2>4, <3>1 DEF SortedBy
  <2> QED
    BY <2>3, <2>4
<1> QED
  BY <1>3, <1>13, <1>14

-----------------------------------------------------------------------------
(* Log analyses                                                              *)

\* Line x of a batch comes before line y.
Before(lines, I) ==
    {p \in I \X I : \/ lines[p[1]].time < lines[p[2]].time
                    \/ lines[p[1]].time = lines[p[2]].time /\ p[1] < p[2]}

\* What the schemas admit of a batch.
LEMMA BatchOK ==
    ASSUME NEW lines \in LogBatches, NEW I \in SUBSET Matched(lines)
    PROVE  /\ IsFiniteSet(I) /\ I \subseteq Nat /\ I \subseteq DOMAIN lines
           /\ \A i \in I : lines[i].time \in Nat /\ lines[i].cluster \in Nat
<1>1. IsFiniteSet(DOMAIN lines) /\ DOMAIN lines \subseteq Nat /\ I \subseteq DOMAIN lines
  BY InputAssumption DEF Matched
<1>2. IsFiniteSet(I)
  BY <1>1, FS_Subset
<1> QED
  BY <1>1, <1>2, InputAssumption DEF Matched

\* Lines are put in order.
LEMMA InOrderIs ==
    ASSUME NEW lines \in LogBatches, NEW I \in SUBSET Matched(lines)
    PROVE  /\ InOrder(lines, I) \in SetToSeqs(I)
           /\ \A i, j \in DOMAIN InOrder(lines, I) : i < j =>
                 lines[InOrder(lines, I)[i]].time <= lines[InOrder(lines, I)[j]].time
<1> DEFINE R == Before(lines, I)
           Is(t) == \A i, j \in DOMAIN t : i < j =>
                       \/ lines[t[i]].time < lines[t[j]].time
                       \/ lines[t[i]].time = lines[t[j]].time /\ t[i] < t[j]
<1>1. IsFiniteSet(I) /\ I \subseteq Nat /\ \A i \in I : lines[i].time \in Nat
  BY BatchOK
<1>2. Orders(R, I)
  <2>1. \A x, y \in I : <<x, y>> \in R <=> \/ lines[x].time < lines[y].time
                                           \/ lines[x].time = lines[y].time /\ x < y
    BY DEF Before
  <2> HIDE DEF R
  <2>2. \A x \in I : <<x, x>> \notin R
    BY <1>1, <2>1
  <2>3. ASSUME NEW x \in I, NEW y \in I PROVE x = y \/ <<x, y>> \in R \/ <<y, x>> \in R
    <3>1. PICK a, b : a = lines[x].time /\ b = lines[y].time
      OBVIOUS
    <3>2. x \in Nat /\ y \in Nat
      BY <1>1
    <3>3. a \in Nat /\ b \in Nat
      BY <1>1, <3>1
    <3>4. <<x, y>> \in R <=> a < b \/ (a = b /\ x < y)
      BY <2>1, <3>1
    <3>5. <<y, x>> \in R <=> b < a \/ (b = a /\ y < x)
      BY <2>1, <3>1
    <3>6. x = y \/ a < b \/ (a = b /\ x < y) \/ b < a \/ (b = a /\ y < x)
      BY ONLY <3>2, <3>3
    <3> QED
      BY <3>4, <3>5, <3>6
  <2>4. ASSUME NEW x \in I, NEW y \in I, NEW z \in I, <<x, y>> \in R, <<y, z>> \in R PROVE <<x, z>> \in R
    BY <1>1, <2>1, <2>4
  <2> QED
    BY <2>2, <2>3, <2>4 DEF Orders
<1>3. PICK t \in SetToSeqs(I) : SortedBy(t, R)
  BY ONLY <1>1, <1>2, CanBeSorted
<1>4. Is(t)
  BY <1>3 DEF SortedBy, Before
<1>5. InOrder(lines, I) = CHOOSE s \in SetToSeqs(I) : Is(s)
  BY DEF InOrder
<1> HIDE DEF Is
<1>6. InOrder(lines, I) \in SetToSeqs(I) /\ Is(InOrder(lines, I))
  BY ONLY <1>4, <1>5, t \in SetToSeqs(I)
<1> DEFINE s == InOrder(lines, I)
<1>7. \A i \in DOMAIN s : s[i] \in I
  BY <1>1, <1>6, SequenceOf
<1> HIDE DEF s
<1>8. \A i, j \in DOMAIN s : i < j => lines[s[i]].time <= lines[s[j]].time
  <2>1. SUFFICES ASSUME NEW i \in DOMAIN s, NEW j \in DOMAIN s, i < j PROVE lines[s[i]].time <= lines[s[j]].time
    OBVIOUS
  <2>2. lines[s[i]].time \in Nat /\ lines[s[j]].time \in Nat
    BY <1>1, <1>7
  <2>3. lines[s[i]].time < lines[s[j]].time \/ lines[s[i]].time = lines[s[j]].time
    BY <1>6, <2>1 DEF Is, s
  <2> QED
    BY ONLY <2>2, <2>3
<1> QED
  BY <1>6, <1>8 DEF s

\* Three different members of a set of three.
LEMMA ThreeMembers ==
    ASSUME NEW T, IsFiniteSet(T), Cardinality(T) = 3
    PROVE  \E a, b, c \in T : a # b /\ b # c /\ a # c
<1>1. PICK a \in T : TRUE
  BY FS_EmptySet
<1>2. IsFiniteSet(T \ {a}) /\ Cardinality(T \ {a}) = 2
  BY FS_RemoveElement
<1>3. PICK b \in T \ {a} : TRUE
  BY <1>2, FS_EmptySet
<1>4. IsFiniteSet((T \ {a}) \ {b}) /\ Cardinality((T \ {a}) \ {b}) = 1
  BY <1>2, FS_RemoveElement
<1>5. PICK c \in (T \ {a}) \ {b} : TRUE
  BY <1>4, FS_EmptySet
<1> QED
  BY <1>3, <1>5

\* A set of three different members.
LEMMA SetOfThree ==
    ASSUME NEW a, NEW b, NEW c, a # b, b # c, a # c
    PROVE  IsFiniteSet({a, b, c}) /\ Cardinality({a, b, c}) = 3
<1>1. IsFiniteSet({a}) /\ Cardinality({a}) = 1
  BY FS_Singleton
<1>2. IsFiniteSet({a} \cup {b}) /\ Cardinality({a} \cup {b}) = 2
  BY <1>1, FS_AddElement
<1>3. IsFiniteSet(({a} \cup {b}) \cup {c}) /\ Cardinality(({a} \cup {b}) \cup {c}) = 3
  BY <1>2, FS_AddElement
<1>4. ({a} \cup {b}) \cup {c} = {a, b, c}
  OBVIOUS
<1> QED
  BY <1>3, <1>4

Near(lines, T) == Cardinality(T) = 3 /\ \A i, j \in T : lines[i].time - lines[j].time <= 10

\* The window over the timeline of a cluster finds every three near lines.
LEMMA BurstIs ==
    ASSUME NEW lines \in LogBatches, NEW c
    PROVE  HasBurst(lines, c) <=> \E T \in SUBSET InCluster(lines, c) : Near(lines, T)
<1> DEFINE I == InCluster(lines, c)
           t == ClusterEvents(lines, c)
<1>1. I \in SUBSET Matched(lines)
  BY DEF InCluster
<1> HIDE DEF I
<1>2. IsFiniteSet(I) /\ \A i \in I : lines[i].time \in Nat
  BY <1>1, BatchOK
<1>3. t = InOrder(lines, I)
  BY DEF ClusterEvents, I
<1>4. HasBurst(lines, c) <=> \E k \in 1..(Len(t) - 2) : lines[t[k + 2]].time - lines[t[k]].time <= 10
  BY DEF HasBurst
<1> HIDE DEF t
<1>5. t \in SetToSeqs(I) /\ \A i, j \in DOMAIN t : i < j => lines[t[i]].time <= lines[t[j]].time
  BY <1>1, <1>3, InOrderIs
<1>6. /\ DOMAIN t = 1..Len(t) /\ Len(t) \in Nat /\ \A i \in DOMAIN t : t[i] \in I
      /\ \A i, j \in DOMAIN t : i # j => t[i] # t[j]
      /\ \A s \in I : \E i \in DOMAIN t : t[i] = s
  BY <1>2, <1>5, SequenceOf
<1>7. ASSUME NEW k \in 1..(Len(t) - 2), lines[t[k + 2]].time - lines[t[k]].time <= 10
      PROVE  \E T \in SUBSET I : Near(lines, T)
  <2>1. k \in DOMAIN t /\ k + 1 \in DOMAIN t /\ k + 2 \in DOMAIN t /\ k < k + 1 /\ k + 1 < k + 2 /\ k < k + 2
    BY <1>6
  <2> DEFINE x == t[k]
             y == t[k + 1]
             z == t[k + 2]
  <2>2. x \in I /\ y \in I /\ z \in I /\ x # y /\ y # z /\ x # z
    BY <1>6, <2>1
  <2>3. lines[x].time <= lines[y].time /\ lines[y].time <= lines[z].time /\ lines[z].time - lines[x].time <= 10
    BY <1>5, <1>7, <2>1
  <2> HIDE DEF x, y, z
  <2>4. lines[x].time \in Nat /\ lines[y].time \in Nat /\ lines[z].time \in Nat
    BY <1>2, <2>2
  <2>5. ASSUME NEW i \in {x, y, z}, NEW j \in {x, y, z} PROVE lines[i].time - lines[j].time <= 10
    <3>1. /\ lines[i].time \in Nat /\ lines[i].time <= lines[z].time
          /\ lines[j].time \in Nat /\ lines[x].time <= lines[j].time
      BY <2>3, <2>4
    <3> QED
      BY <2>3, <2>4, <3>1
  <2>6. Cardinality({x, y, z}) = 3
    BY <2>2, SetOfThree
  <2> QED
    BY <2>2, <2>5, <2>6 DEF Near
<1>8. ASSUME NEW T \in SUBSET I, Near(lines, T)
      PROVE  \E k \in 1..(Len(t) - 2) : lines[t[k + 2]].time - lines[t[k]].time <= 10
  <2>1. PICK x, y, z \in T : x # y /\ y # z /\ x # z
    BY <1>2, <1>8, FS_Subset, ThreeMembers DEF Near
  <2>2. PICK p, q, r \in DOMAIN t : t[p] = x /\ t[q] = y /\ t[r] = z
    BY <1>6, <2>1
  <2>3. p # q /\ q # r /\ p # r /\ p \in Nat /\ q \in Nat /\ r \in Nat
    BY <1>6, <2>1, <2>2
  <2>4. PICK k, l, m \in {p, q, r} : k < l /\ l < m
    BY <2>3
  <2>5. k \in DOMAIN t /\ m \in DOMAIN t /\ t[k] \in T /\ t[m] \in T
    BY <2>1, <2>2
  <2>6. k + 2 <= m /\ k \in 1..(Len(t) - 2) /\ k + 2 \in DOMAIN t
    BY <1>6, <2>2, <2>4, <2>5
  <2>7. lines[t[k + 2]].time <= lines[t[m]].time
    <3>1. CASE k + 2 = m
      BY <1>2, <1>6, <2>5, <3>1
    <3>2. CASE k + 2 # m
      BY <1>5, <1>6, <2>5, <2>6, <3>2
    <3> QED
      BY <3>1, <3>2
  <2>8. lines[t[m]].time - lines[t[k]].time <= 10
    BY <1>8, <2>5 DEF Near
  <2>9. lines[t[k]].time \in Nat /\ lines[t[m]].time \in Nat /\ lines[t[k + 2]].time \in Nat
    BY <1>2, <1>6, <2>5, <2>6
  <2>10. lines[t[k + 2]].time - lines[t[k]].time <= 10
    BY ONLY <2>7, <2>8, <2>9
  <2> QED
    BY <2>6, <2>10
<1> QED
  BY <1>4, <1>7, <1>8 DEF I

AnomalyRow == [type : {"severe_event", "burst"}, severity : {"medium", "high", "critical"},
               cluster : Nat, lines : SUBSET Nat]

\* The anomalies of a batch.
LEMMA AnomaliesAre ==
    ASSUME NEW lines \in LogBatches
    PROVE  /\ Anomalies(lines) \subseteq AnomalyRow
           /\ \A c \in ClusterIds(lines) :
                 (\E a \in Anomalies(lines) : a.type = "burst" /\ a.cluster = c) <=> HasBurst(lines, c)
           /\ \A a \in Anomalies(lines) :
                 a.type = "severe_event" => \E i \in a.lines : lines[i].level \in SevereLevels
<1> DEFINE Levels(c) == {lines[i].level : i \in InCluster(lines, c)}
           Severity(c) == IF "critical" \in Levels(c) THEN "critical" ELSE "high"
           Severe == {x \in ClusterIds(lines) : Levels(x) \cap SevereLevels # {}}
           Bursts == {x \in ClusterIds(lines) : HasBurst(lines, x)}
<1>1. Anomalies(lines) = {Anomaly("severe_event", Severity(c), c, lines) : c \in Severe}
                         \cup {Anomaly("burst", "medium", c, lines) : c \in Bursts}
  BY DEF Anomalies
<1>2. \A c \in ClusterIds(lines) : c \in Nat /\ InCluster(lines, c) \in SUBSET Nat
  <2>1. Matched(lines) \in SUBSET Matched(lines)
    OBVIOUS
  <2>2. Matched(lines) \subseteq Nat /\ \A i \in Matched(lines) : lines[i].cluster \in Nat
    BY <2>1, BatchOK
  <2> QED
    BY <2>2 DEF ClusterIds, InCluster
<1>3. \A c : Severity(c) \in {"high", "critical"}
  OBVIOUS
<1>4. \A c \in Severe : \E i \in InCluster(lines, c) : lines[i].level \in SevereLevels
  OBVIOUS
<1>5. Severe \subseteq ClusterIds(lines) /\ Bursts \subseteq ClusterIds(lines)
      /\ \A c \in ClusterIds(lines) : c \in Bursts <=> HasBurst(lines, c)
  OBVIOUS
<1> HIDE DEF Severe, Bursts, Severity
<1>6. ASSUME NEW a \in Anomalies(lines)
      PROVE  \/ \E c \in Severe : a = Anomaly("severe_event", Severity(c), c, lines)
             \/ \E c \in Bursts : a = Anomaly("burst", "medium", c, lines)
  BY <1>1, <1>6
<1>7. \A s, c, type : /\ Anomaly(type, s, c, lines).type = type
                      /\ Anomaly(type, s, c, lines).cluster = c
                      /\ Anomaly(type, s, c, lines).lines = InCluster(lines, c)
  BY DEF Anomaly
<1>8. \A s \in {"medium", "high", "critical"}, type \in {"severe_event", "burst"}, c \in ClusterIds(lines) :
         Anomaly(type, s, c, lines) \in AnomalyRow
  BY <1>2 DEF Anomaly, AnomalyRow
<1>9. Anomalies(lines) \subseteq AnomalyRow
  <2>1. SUFFICES ASSUME NEW a \in Anomalies(lines) PROVE a \in AnomalyRow
    OBVIOUS
  <2>2. CASE \E c \in Severe : a = Anomaly("severe_event", Severity(c), c, lines)
    BY <1>3, <1>5, <1>8, <2>2
  <2>3. CASE \E c \in Bursts : a = Anomaly("burst", "medium", c, lines)
    BY <1>5, <1>8, <2>3
  <2> QED
    BY <1>6, <2>2, <2>3
<1>10. ASSUME NEW c \in ClusterIds(lines)
       PROVE  (\E a \in Anomalies(lines) : a.type = "burst" /\ a.cluster = c) <=> HasBurst(lines, c)
  <2>1. ASSUME NEW a \in Anomalies(lines), a.type = "burst", a.cluster = c PROVE HasBurst(lines, c)
    <3>1. PICK b \in Bursts : a = Anomaly("burst", "medium", b, lines)
      <4>1. ~ \E b \in Severe : a = Anomaly("severe_event", Severity(b), b, lines)
        BY <1>7, <2>1
      <4> QED
        BY <1>6, <4>1
    <3> QED
      BY <1>5, <1>7, <2>1, <3>1
  <2>2. ASSUME HasBurst(lines, c) PROVE \E a \in Anomalies(lines) : a.type = "burst" /\ a.cluster = c
    <3>1. c \in Bursts
      BY <1>5, <2>2
    <3>2. Anomaly("burst", "medium", c, lines) \in Anomalies(lines)
      BY <1>1, <3>1
    <3> QED
      BY <1>7, <3>2
  <2> QED
    BY <2>1, <2>2
<1>11. ASSUME NEW a \in Anomalies(lines), a.type = "severe_event"
       PROVE  \E i \in a.lines : lines[i].level \in SevereLevels
  <2>1. PICK c \in Severe : a = Anomaly("severe_event", Severity(c), c, lines)
    <3>1. ~ \E b \in Bursts : a = Anomaly("burst", "medium", b, lines)
      BY <1>7, <1>11
    <3> QED
      BY <1>6, <3>1
  <2> QED
    BY <1>4, <1>7, <2>1
<1> QED
  BY <1>9, <1>10, <1>11

\* A stored log analysis says what its batch says.
LogOK(row) ==
    /\ row \in LogRow
    /\ row.parsed = Cardinality(Matched(row.lines)) /\ row.anomalies = Anomalies(row.lines)

\* What a log analysis says is in the lines it was given.
LEMMA LogGrounded ==
    ASSUME NEW row, LogOK(row)
    PROVE  LET lines == row.lines
               Lines(c) == {i \in DOMAIN lines : lines[i] # NoMatch /\ lines[i].cluster = c}
           IN /\ row.parsed = Cardinality({i \in DOMAIN lines : lines[i] # NoMatch})
              /\ \A c \in ClusterIds(lines) :
                   (\E a \in row.anomalies : a.type = "burst" /\ a.cluster = c)
                     <=> \E T \in SUBSET Lines(c) : Cardinality(T) = 3
                           /\ \A i, j \in T : lines[i].time - lines[j].time <= 10
              /\ \A a \in row.anomalies :
                   a.type = "severe_event" => \E i \in a.lines : lines[i].level \in SevereLevels
<1> DEFINE lines == row.lines
           Lines(c) == {i \in DOMAIN lines : lines[i] # NoMatch /\ lines[i].cluster = c}
<1>1. lines \in LogBatches /\ row.parsed = Cardinality(Matched(lines)) /\ row.anomalies = Anomalies(lines)
  BY DEF LogOK, LogRow
<1> HIDE DEF lines
<1>2. Matched(lines) = {i \in DOMAIN lines : lines[i] # NoMatch} /\ \A c : InCluster(lines, c) = Lines(c)
  BY DEF Matched, InCluster
<1>3. \A c \in ClusterIds(lines) :
         (\E a \in row.anomalies : a.type = "burst" /\ a.cluster = c)
           <=> \E T \in SUBSET Lines(c) : Near(lines, T)
  BY <1>1, <1>2, AnomaliesAre, BurstIs
<1>4. \A a \in row.anomalies : a.type = "severe_event" => \E i \in a.lines : lines[i].level \in SevereLevels
  BY <1>1, AnomaliesAre
<1>5. row.parsed = Cardinality({i \in DOMAIN lines : lines[i] # NoMatch})
  BY <1>1, <1>2
<1> QED
  BY <1>3, <1>4, <1>5 DEF lines, Near

LogsInv ==
    /\ logAnalyses \in [LogAnalyses -> LogRow \cup {NotStored}]
    /\ \A x \in LogAnalyses : Known(logAnalyses[x]) =>
          LogOK(logAnalyses[x]) /\ Known(aiRequests[logAnalyses[x].request])
    /\ OneEach(logAnalyses)

LogsKept == \A x \in LogAnalyses : Known(logAnalyses[x]) => logAnalyses'[x] = logAnalyses[x]

\* Log analyses that a step leaves alone stay sound.
LEMMA LogsStay ==
    ASSUME RequestsKept, LogsInv, logAnalyses' = logAnalyses
    PROVE  LogsInv' /\ LogsKept
<1>1. \A x \in LogAnalyses : Known(logAnalyses[x]) => logAnalyses[x].request \in AiRequests
  BY DEF LogsInv, LogOK, LogRow
<1>2. \A x \in LogAnalyses : Known(logAnalyses'[x]) =>
         LogOK(logAnalyses'[x]) /\ Known(aiRequests'[logAnalyses'[x].request])
  BY <1>1 DEF LogsInv, RequestsKept
<1>3. OneEach(logAnalyses')
  BY DEF LogsInv
<1> QED
  BY <1>2, <1>3 DEF LogsInv, LogsKept, OneEach, LogOK

\* A log analysis stores what its lines say.
LEMMA CreateLogAnalysisStep ==
    ASSUME RequestsInv, RequestsKept, LogsInv, NEW x \in LogAnalyses, NEW r \in AiRequests, NEW lines \in LogBatches,
           CreateLogAnalysis(x, r, lines)
    PROVE  LogsInv' /\ LogsKept
<1> DEFINE row == [request |-> r, lines |-> lines, parsed |-> Len(Timeline(lines)), anomalies |-> Anomalies(lines)]
<1>1. /\ ~Known(logAnalyses[x]) /\ Known(aiRequests[r]) /\ NoneFor(logAnalyses, r)
      /\ logAnalyses' = [logAnalyses EXCEPT ![x] = row]
  BY DEF CreateLogAnalysis
<1>2. Len(Timeline(lines)) = Cardinality(Matched(lines)) /\ Cardinality(Matched(lines)) \in Nat
  <2>1. Matched(lines) \in SUBSET Matched(lines)
    OBVIOUS
  <2>2. IsFiniteSet(Matched(lines)) /\ Timeline(lines) \in SetToSeqs(Matched(lines))
    BY <2>1, BatchOK, InOrderIs DEF Timeline
  <2> QED
    BY <2>2, SequenceOf, FS_CardinalityType
<1>3. /\ row.request = r /\ row.lines = lines /\ row.parsed = Cardinality(Matched(lines))
      /\ row.anomalies = Anomalies(lines) /\ row \in LogRow
  BY <1>2, AnomaliesAre DEF LogRow, AnomalyRow
<1> HIDE DEF row
<1>4. LogOK(row) /\ Known(row)
  BY <1>3, AiAssumption DEF LogOK, Known
<1>5. /\ logAnalyses' \in [LogAnalyses -> LogRow \cup {NotStored}]
      /\ logAnalyses'[x] = row /\ \A y \in LogAnalyses : y # x => logAnalyses'[y] = logAnalyses[y]
      /\ DOMAIN logAnalyses = LogAnalyses /\ DOMAIN logAnalyses' = LogAnalyses
  BY <1>1, <1>3 DEF LogsInv
<1>6. \A y \in LogAnalyses : Known(logAnalyses[y]) => logAnalyses[y].request \in AiRequests
  BY DEF LogsInv, LogOK, LogRow
<1>7. ASSUME NEW y \in LogAnalyses, Known(logAnalyses'[y])
      PROVE  LogOK(logAnalyses'[y]) /\ Known(aiRequests'[logAnalyses'[y].request])
  <2>1. CASE y = x
    BY <1>1, <1>3, <1>4, <1>5, <2>1 DEF RequestsKept
  <2>2. CASE y # x
    BY <1>5, <1>6, <1>7, <2>2 DEF RequestsKept, LogsInv
  <2> QED
    BY <2>1, <2>2
<1>8. OneEach(logAnalyses')
  <2>1. \A y \in LogAnalyses : Known(logAnalyses[y]) => logAnalyses[y].request # r
    BY <1>1, <1>5 DEF NoneFor
  <2>2. ASSUME NEW y \in LogAnalyses, NEW z \in LogAnalyses, Known(logAnalyses'[y]), Known(logAnalyses'[z]), y # z
        PROVE  logAnalyses'[y].request # logAnalyses'[z].request
    <3>1. CASE y = x
      BY <1>3, <1>5, <2>1, <2>2, <3>1
    <3>2. CASE z = x
      BY <1>3, <1>5, <2>1, <2>2, <3>2
    <3>3. CASE y # x /\ z # x
      BY <1>5, <2>2, <3>3 DEF LogsInv, OneEach
    <3> QED
      BY <3>1, <3>2, <3>3
  <2> QED
    BY <1>5, <2>2 DEF OneEach
<1>9. LogsKept
  BY <1>1, <1>5 DEF LogsKept
<1> QED
  BY <1>5, <1>7, <1>8, <1>9 DEF LogsInv, LogOK, OneEach

-----------------------------------------------------------------------------
(* Risk analyses                                                             *)

\* The support of a signal is a natural number.
LEMMA SupportIsNatural ==
    ASSUME NEW signals \in SignalSets, NEW s \in signals
    PROVE  Support(s) \in Nat /\ SeverityWeight[s.severity] \in {5, 15, 35, 65, 90}
<1>1. s.severity \in DOMAIN SeverityWeight /\ s.count \in Nat /\ s.confidence \in 0..100
  BY InputAssumption
<1>2. SeverityWeight[s.severity] \in {5, 15, 35, 65, 90}
  BY <1>1 DEF SeverityWeight
<1> DEFINE often == IF s.count < 5 THEN s.count ELSE 5
           a == SeverityWeight[s.severity]
           b == 80 + 4 * often
           c == 100 + s.confidence
<1>3. Support(s) = (a * b * c + 100) \div 200
  BY DEF Support
<1>4. a \in Nat /\ b \in Nat /\ c \in Nat
  BY <1>1, <1>2
<1> HIDE DEF a, b, c
<1>5. a * b \in Nat
  BY <1>4
<1>6. a * b * c \in Nat
  BY <1>4, <1>5
<1>7. a * b * c + 100 \in Nat
  BY <1>6
<1>8. (a * b * c + 100) \div 200 \in Nat
  BY <1>7, 200 \in Nat \ {0}, 0 \in Nat, DivisionBounds
<1> QED
  BY <1>2, <1>3, <1>8

\* Signal s is ranked before signal t.
Ranked(signals) ==
    {p \in signals \X signals : \/ Support(p[1]) > Support(p[2])
                                \/ Support(p[1]) = Support(p[2]) /\ p[1].code < p[2].code}

\* The first hypothesis is the best supported signal.
LEMMA FirstIsBest ==
    ASSUME NEW signals \in SignalSets
    PROVE  /\ RankHypotheses(signals)[1] \in signals
           /\ \A s \in signals : Support(s) <= Support(RankHypotheses(signals)[1])
<1> DEFINE R == Ranked(signals)
           Is(t) == \A i, j \in DOMAIN t : i < j =>
                       \/ Support(t[i]) > Support(t[j])
                       \/ Support(t[i]) = Support(t[j]) /\ t[i].code < t[j].code
<1>1. /\ IsFiniteSet(signals) /\ signals # {} /\ \A s \in signals : s.code \in Nat /\ Support(s) \in Nat
      /\ \A s, t \in signals : s.code = t.code => s = t
  BY InputAssumption, SupportIsNatural
<1>2. Orders(R, signals)
  <2>1. \A x, y \in signals : <<x, y>> \in R <=> \/ Support(x) > Support(y)
                                                 \/ Support(x) = Support(y) /\ x.code < y.code
    BY DEF Ranked
  <2> HIDE DEF R
  <2>2. \A x \in signals : <<x, x>> \notin R
    BY <1>1, <2>1
  <2>3. ASSUME NEW x \in signals, NEW y \in signals PROVE x = y \/ <<x, y>> \in R \/ <<y, x>> \in R
    <3>1. PICK a, b, c, d : a = Support(x) /\ b = Support(y) /\ c = x.code /\ d = y.code
      OBVIOUS
    <3>2. a \in Nat /\ b \in Nat /\ c \in Nat /\ d \in Nat /\ (c = d => x = y)
      BY <1>1, <3>1
    <3>3. <<x, y>> \in R <=> a > b \/ (a = b /\ c < d)
      BY <2>1, <3>1
    <3>4. <<y, x>> \in R <=> b > a \/ (b = a /\ d < c)
      BY <2>1, <3>1
    <3>5. c = d \/ a > b \/ (a = b /\ c < d) \/ b > a \/ (b = a /\ d < c)
      BY ONLY <3>2
    <3> QED
      BY <3>2, <3>3, <3>4, <3>5
  <2>4. ASSUME NEW x \in signals, NEW y \in signals, NEW z \in signals, <<x, y>> \in R, <<y, z>> \in R PROVE <<x, z>> \in R
    BY <1>1, <2>1, <2>4
  <2> QED
    BY <2>2, <2>3, <2>4 DEF Orders
<1>3. PICK t \in SetToSeqs(signals) : SortedBy(t, R)
  BY ONLY <1>1, <1>2, CanBeSorted
<1>4. Is(t)
  BY <1>3 DEF SortedBy, Ranked
<1>5. RankHypotheses(signals) = CHOOSE s \in SetToSeqs(signals) : Is(s)
  BY DEF RankHypotheses
<1> HIDE DEF Is
<1> DEFINE u == RankHypotheses(signals)
<1>6. u \in SetToSeqs(signals) /\ Is(u)
  BY ONLY <1>4, <1>5, t \in SetToSeqs(signals)
<1> HIDE DEF u
<1>7. /\ DOMAIN u = 1..Len(u) /\ Len(u) \in Nat /\ \A i \in DOMAIN u : u[i] \in signals
      /\ \A s \in signals : \E i \in DOMAIN u : u[i] = s
  <2>1. /\ u \in Seq(signals) /\ DOMAIN u = 1..Len(u) /\ Len(u) \in Nat
        /\ \A s \in signals : \E i \in DOMAIN u : u[i] = s
    BY ONLY <1>1, <1>6, SequenceOf
  <2>2. \A i \in 1..Len(u) : u[i] \in signals
    BY <2>1
  <2> QED
    BY <2>1, <2>2
<1>8. 1 \in DOMAIN u
  BY <1>1, <1>7
<1>9. ASSUME NEW s \in signals PROVE Support(s) <= Support(u[1])
  <2>1. PICK i \in DOMAIN u : u[i] = s
    BY <1>7
  <2>2. Support(u[1]) \in Nat /\ Support(s) \in Nat
    BY <1>1, <1>7, <1>8
  <2>3. CASE i = 1
    BY <2>1, <2>2, <2>3
  <2>4. CASE i # 1
    <3>1. 1 < i
      BY <1>7, <2>4
    <3>2. Support(u[1]) > Support(u[i]) \/ Support(u[1]) = Support(u[i])
      BY <1>6, <1>8, <3>1 DEF Is
    <3> QED
      BY <2>1, <2>2, <3>2
  <2> QED
    BY <2>3, <2>4
<1> QED
  BY <1>7, <1>8, <1>9 DEF u

\* The sum of percentages.
LEMMA SumOfPercents ==
    ASSUME NEW f, NEW S, IsFiniteSet(S), \A x \in S : f[x] \in 0..100
    PROVE  SumOn(f, S) \in Nat /\ SumOn(f, S) <= 100 * Cardinality(S)
<1> DEFINE C == {T \in SUBSET S : ~(SumOn(f, T) \in Nat /\ SumOn(f, T) <= 100 * Cardinality(T))}
<1>1. ASSUME C # {} PROVE FALSE
  <2>1. PICK T \in C : \A U \in C : U \subseteq T => U = T
    <3>1. C \in SUBSET SUBSET S
      OBVIOUS
    <3> HIDE DEF C
    <3> QED
      BY ONLY <1>1, <3>1, IsFiniteSet(S), MinimalSubset
  <2>2. T \in SUBSET S /\ IsFiniteSet(T) /\ ~(SumOn(f, T) \in Nat /\ SumOn(f, T) <= 100 * Cardinality(T))
    BY <2>1, FS_Subset
  <2>3. CASE T = {}
    <3>1. SumOn(f, {}) = 0 /\ Cardinality({}) = 0
      BY SumEmpty, FS_EmptySet
    <3> QED
      BY <2>2, <2>3, <3>1
  <2>4. CASE T # {}
    <3> DEFINE p == Pick(T)
               U == T \ {p}
    <3>1. p \in T /\ SumOn(f, T) = f[p] + SumOn(f, U)
      BY <2>2, <2>4, SumUnfolds
    <3>2. U \notin C /\ U \in SUBSET S
      BY <2>1, <2>2, <3>1
    <3>3. SumOn(f, U) \in Nat /\ SumOn(f, U) <= 100 * Cardinality(U)
      BY <3>2
    <3>4. Cardinality(T) \in Nat /\ Cardinality(U) = Cardinality(T) - 1
      BY <2>2, <3>1, FS_CardinalityType, FS_RemoveElement
    <3>5. f[p] \in 0..100
      BY <2>2, <3>1
    <3> HIDE DEF p, U
    <3> QED
      BY <2>2, <3>1, <3>3, <3>4, <3>5
  <2> QED
    BY <2>3, <2>4
<1>2. S \notin C
  BY <1>1
<1> QED
  BY <1>2

\* What the detectabilities sum to.
LEMMA Detectable ==
    ASSUME NEW signals \in SignalSets
    PROVE  MapThenSumSet(LAMBDA s : s.detectability, signals) \in 0..(100 * Cardinality(signals))
<1> DEFINE f == [s \in signals |-> s.detectability]
           w == CHOOSE w : w = [s \in SUBSET signals |->
                   IF s = {} THEN 0 ELSE Pick(s).detectability + w[s \ {Pick(s)}]]
           v == CHOOSE v : Sums(f, signals, v)
<1>0. IsFiniteSet(signals) /\ \A s \in signals : s.detectability \in 0..100
  BY InputAssumption
<1>1. MapThenSumSet(LAMBDA s : s.detectability, signals) = w[signals]
  BY ONLY DEF MapThenSumSet, MapThenFoldSet, Pick
<1>2. Sums(f, signals, v)
  BY <1>0, SumsExist
<1>3. \A s \in SUBSET signals : s # {} => f[Pick(s)] = Pick(s).detectability
  BY DEF Pick
<1>4. v = [s \in SUBSET signals |-> IF s = {} THEN 0 ELSE Pick(s).detectability + v[s \ {Pick(s)}]]
  <2> HIDE DEF v, f
  <2> QED
    BY ONLY <1>2, <1>3 DEF Sums
<1>5. w = [s \in SUBSET signals |-> IF s = {} THEN 0 ELSE Pick(s).detectability + w[s \ {Pick(s)}]]
  <2> HIDE DEF v, f
  <2> QED
    BY ONLY <1>4
<1>6. Sums(f, signals, w)
  <2> HIDE DEF w, f
  <2> QED
    BY ONLY <1>3, <1>5 DEF Sums
<1>7. w[signals] = SumOn(f, signals)
  <2> HIDE DEF w, f
  <2> QED
    BY ONLY <1>0, <1>6, SumIsAny
<1>8. \A s \in signals : f[s] \in 0..100
  BY <1>0
<1>9. SumOn(f, signals) \in Nat /\ SumOn(f, signals) <= 100 * Cardinality(signals)
  <2> HIDE DEF f
  <2> QED
    BY ONLY <1>0, <1>8, SumOfPercents
<1>10. Cardinality(signals) \in Nat
  BY <1>0, FS_CardinalityType
<1> HIDE DEF w, f
<1>11. w[signals] \in 0..(100 * Cardinality(signals))
  BY <1>7, <1>9, <1>10
<1> QED
  BY <1>1, <1>11

\* The risk score of signals is a percentage.
LEMMA RiskScoreTyped == ASSUME NEW signals \in SignalSets PROVE RiskScore(signals) \in 0..100
<1> DEFINE W == {SeverityWeight[s.severity] : s \in signals}
           L == Support(RankHypotheses(signals)[1])
           I == CHOOSE w \in W : \A s \in signals : w >= SeverityWeight[s.severity]
           m == MapThenSumSet(LAMBDA s : s.detectability, signals)
           n == Cardinality(signals)
           D == m \div n
           sum == 45 * L + 4000 * I + 1500 * (100 - D) + 5000
           score == sum \div 10000
<1>1. RiskScore(signals) = IF score > 100 THEN 100 ELSE score
  BY DEF RiskScore
<1>2. L \in Nat
  BY FirstIsBest, SupportIsNatural
<1>3. I \in Nat
  <2>1. W \subseteq {5, 15, 35, 65, 90} /\ W # {}
    BY InputAssumption, SupportIsNatural
  <2> HIDE DEF W
  <2>2. \E w \in W : \A v \in W : w >= v
    <3>1. \A v \in W : v = 5 \/ v = 15 \/ v = 35 \/ v = 65 \/ v = 90
      BY <2>1
    <3>2. CASE 90 \in W
      BY <3>1, <3>2
    <3>3. CASE 90 \notin W /\ 65 \in W
      BY <3>1, <3>3
    <3>4. CASE 90 \notin W /\ 65 \notin W /\ 35 \in W
      BY <3>1, <3>4
    <3>5. CASE 90 \notin W /\ 65 \notin W /\ 35 \notin W /\ 15 \in W
      BY <3>1, <3>5
    <3>6. CASE 90 \notin W /\ 65 \notin W /\ 35 \notin W /\ 15 \notin W
      <4>1. \A v \in W : v = 5
        BY <3>1, <3>6
      <4>2. PICK w \in W : TRUE
        BY <2>1
      <4> QED
        BY <4>1, <4>2
    <3> QED
      BY <3>2, <3>3, <3>4, <3>5, <3>6
  <2>3. \A s \in signals : SeverityWeight[s.severity] \in W
    BY DEF W
  <2>4. \E w \in W : \A s \in signals : w >= SeverityWeight[s.severity]
    BY <2>2, <2>3
  <2>5. I \in W
    BY <2>4
  <2> HIDE DEF I
  <2> QED
    BY <2>1, <2>5
<1>4. D \in Nat /\ D <= 100
  <2>1. n \in Nat /\ n # 0
    BY InputAssumption, FS_CardinalityType, FS_EmptySet
  <2>2. m \in Nat /\ m <= 100 * n
    <3>1. m \in 0..(100 * n)
      BY Detectable
    <3> HIDE DEF m, n
    <3> QED
      BY <2>1, <3>1
  <2> HIDE DEF m, n
  <2>3. D \in Nat /\ (101 <= D <=> 101 * n <= m)
    BY <2>1, <2>2, 101 \in Nat, DivisionBounds
  <2>4. ~(101 * n <= m)
    BY <2>1, <2>2
  <2> HIDE DEF D
  <2> QED
    BY <2>3, <2>4
<1> HIDE DEF L, I, D
<1>5. sum \in Nat
  BY <1>2, <1>3, <1>4
<1> HIDE DEF sum
<1>6. score \in Nat
  BY <1>5, 10000 \in Nat \ {0}, 0 \in Nat, DivisionBounds
<1> HIDE DEF score
<1> QED
  BY <1>1, <1>6

\* The band of a score.
LEMMA BandOf ==
    ASSUME NEW score \in 0..100
    PROVE  /\ RiskBand(score) \in {"low", "medium", "high", "critical"}
           /\ score >= 50 <=> RiskBand(score) \in {"high", "critical"}
<1>1. CASE score < 25
  BY <1>1 DEF RiskBand
<1>2. CASE score >= 25 /\ score < 50
  BY <1>2 DEF RiskBand
<1>3. CASE score >= 50 /\ score < 75
  BY <1>3 DEF RiskBand
<1>4. CASE score >= 75
  BY <1>4 DEF RiskBand
<1> QED
  BY <1>1, <1>2, <1>3, <1>4

\* What a risk analysis says, and the version its outcome gives it.
RiskOK(row) ==
    /\ row.signals \in SignalSets /\ row \in RiskRow(row.signals)
    /\ row.predicted <=> (row.band \in {"high", "critical"})
    /\ \A s \in row.signals : Support(s) <= Support(row.top)
    /\ row.version = IF row.outcome = Null THEN 1 ELSE 2
    /\ row.top.evidence \subseteq Evidence

RisksInv ==
    /\ DOMAIN riskAnalyses = RiskAnalyses
    /\ \A x \in RiskAnalyses : Known(riskAnalyses[x]) =>
          RiskOK(riskAnalyses[x]) /\ Known(aiRequests[riskAnalyses[x].request])
    /\ OneEach(riskAnalyses)

\* What a stored analysis keeps.
RisksKept ==
    \A x \in RiskAnalyses : Known(riskAnalyses[x]) =>
       /\ Known(riskAnalyses'[x]) /\ riskAnalyses'[x].request = riskAnalyses[x].request
       /\ riskAnalyses[x].outcome # Null => riskAnalyses'[x].outcome # Null

\* Risk analyses that a step leaves alone stay sound.
LEMMA RisksStay ==
    ASSUME RequestsKept, RisksInv, riskAnalyses' = riskAnalyses
    PROVE  RisksInv' /\ RisksKept
<1>1. \A x \in RiskAnalyses : Known(riskAnalyses[x]) => riskAnalyses[x].request \in AiRequests
  BY DEF RisksInv, RiskOK, RiskRow
<1>2. \A x \in RiskAnalyses : Known(riskAnalyses'[x]) =>
         RiskOK(riskAnalyses'[x]) /\ Known(aiRequests'[riskAnalyses'[x].request])
  BY <1>1 DEF RisksInv, RequestsKept
<1>3. OneEach(riskAnalyses')
  BY DEF RisksInv
<1> QED
  BY <1>2, <1>3 DEF RisksInv, RisksKept, OneEach, RiskOK

\* One analysis is stored or goes on.
LEMMA RiskChanges ==
    ASSUME RequestsInv, RequestsKept, RisksInv, NEW x \in RiskAnalyses, NEW row, RiskOK(row), Known(row),
           Known(aiRequests[row.request]), riskAnalyses' = [riskAnalyses EXCEPT ![x] = row],
           Known(riskAnalyses[x]) => row.request = riskAnalyses[x].request /\ riskAnalyses[x].outcome = Null,
           ~Known(riskAnalyses[x]) => NoneFor(riskAnalyses, row.request)
    PROVE  RisksInv' /\ RisksKept
<1>1. row.request \in AiRequests
  BY DEF RiskOK, RiskRow
<1>2. /\ riskAnalyses'[x] = row /\ \A y \in RiskAnalyses : y # x => riskAnalyses'[y] = riskAnalyses[y]
      /\ DOMAIN riskAnalyses = RiskAnalyses /\ DOMAIN riskAnalyses' = RiskAnalyses
  BY DEF RisksInv
<1>3. \A y \in RiskAnalyses : Known(riskAnalyses[y]) => riskAnalyses[y].request \in AiRequests
  BY DEF RisksInv, RiskOK, RiskRow
<1>4. ASSUME NEW y \in RiskAnalyses, Known(riskAnalyses'[y])
      PROVE  RiskOK(riskAnalyses'[y]) /\ Known(aiRequests'[riskAnalyses'[y].request])
  <2>1. CASE y = x
    BY <1>1, <1>2, <2>1 DEF RequestsKept
  <2>2. CASE y # x
    BY <1>2, <1>3, <1>4, <2>2 DEF RequestsKept, RisksInv
  <2> QED
    BY <2>1, <2>2
<1>5. OneEach(riskAnalyses')
  <2>1. ASSUME NEW y \in RiskAnalyses, Known(riskAnalyses[y]), y # x PROVE riskAnalyses[y].request # row.request
    <3>1. CASE Known(riskAnalyses[x])
      BY <2>1, <3>1 DEF RisksInv, OneEach
    <3>2. CASE ~Known(riskAnalyses[x])
      BY <1>2, <2>1, <3>2 DEF NoneFor
    <3> QED
      BY <3>1, <3>2
  <2>2. ASSUME NEW y \in RiskAnalyses, NEW z \in RiskAnalyses, Known(riskAnalyses'[y]), Known(riskAnalyses'[z]), y # z
        PROVE  riskAnalyses'[y].request # riskAnalyses'[z].request
    <3>1. CASE y = x
      BY <1>2, <2>1, <2>2, <3>1
    <3>2. CASE z = x
      BY <1>2, <2>1, <2>2, <3>2
    <3>3. CASE y # x /\ z # x
      BY <1>2, <2>2, <3>3 DEF RisksInv, OneEach
    <3> QED
      BY <3>1, <3>2, <3>3
  <2> QED
    BY <1>2, <2>2 DEF OneEach
<1>6. RisksKept
  BY <1>2 DEF RisksKept
<1> QED
  BY <1>2, <1>4, <1>5, <1>6 DEF RisksInv, RiskOK, OneEach

\* A risk analysis stores the score and the leading hypothesis of its
\* signals.
LEMMA CreateRiskAnalysisStep ==
    ASSUME RequestsInv, RequestsKept, RisksInv, NEW x \in RiskAnalyses, NEW r \in AiRequests,
           NEW signals \in SignalSets, CreateRiskAnalysis(x, r, signals)
    PROVE  RisksInv' /\ RisksKept
<1> DEFINE score == RiskScore(signals)
           top == RankHypotheses(signals)[1]
           row == [request |-> r, top |-> top, signals |-> signals,
                   score |-> score, band |-> RiskBand(score), predicted |-> score >= 50,
                   version |-> 1, outcome |-> Null, correct |-> Null]
<1>1. /\ ~Known(riskAnalyses[x]) /\ Known(aiRequests[r]) /\ NoneFor(riskAnalyses, r)
      /\ UNION {s.evidence : s \in signals} \subseteq Evidences(r)
      /\ riskAnalyses' = [riskAnalyses EXCEPT ![x] = row]
  BY DEF CreateRiskAnalysis
<1>2. top \in signals /\ \A s \in signals : Support(s) <= Support(top)
  BY FirstIsBest
<1>3. score \in 0..100
  BY RiskScoreTyped
<1> HIDE DEF top, score
<1>4. RiskBand(score) \in {"low", "medium", "high", "critical"} /\ (score >= 50 <=> RiskBand(score) \in {"high", "critical"})
  BY <1>3, BandOf
<1>5. top.evidence \subseteq Evidence
  <2>1. aiRequests[r] \in RequestRow
    BY <1>1 DEF RequestsInv, Known
  <2>2. Evidences(r) \subseteq Evidence
    BY <2>1 DEF Evidences, RequestRow
  <2> QED
    BY <1>1, <1>2, <2>2
<1>6. (score >= 50) \in BOOLEAN /\ 1 \in 1..2
  BY <1>3
<1>7. /\ row.request = r /\ row.signals = signals /\ row.top = top /\ row.version = 1 /\ row.outcome = Null
      /\ row.band = RiskBand(score) /\ row.predicted = (score >= 50)
  OBVIOUS
<1>8. row \in RiskRow(signals)
  BY <1>2, <1>3, <1>4, <1>6 DEF RiskRow
<1> HIDE DEF row
<1>9. RiskOK(row)
  BY <1>2, <1>4, <1>5, <1>7, <1>8 DEF RiskOK
<1>10. Known(row)
  BY <1>8, AiAssumption DEF Known
<1> QED
  BY <1>1, <1>7, <1>9, <1>10, RiskChanges

\* A prediction is evaluated once, against what happened.
LEMMA EvaluatePredictionStep ==
    ASSUME RequestsInv, RequestsKept, RisksInv, NEW x \in RiskAnalyses, NEW failed \in BOOLEAN, NEW expected,
           EvaluatePrediction(x, failed, expected)
    PROVE  RisksInv' /\ RisksKept
<1> DEFINE old == riskAnalyses[x]
           row == [old EXCEPT !.outcome = failed, !.correct = (old.predicted = failed), !.version = @ + 1]
<1>1. /\ Known(old) /\ old.outcome = Null
      /\ riskAnalyses' = [riskAnalyses EXCEPT ![x].outcome = failed,
                            ![x].correct = (riskAnalyses[x].predicted = failed), ![x].version = @ + 1]
  BY DEF EvaluatePrediction
<1>2. riskAnalyses' = [riskAnalyses EXCEPT ![x] = row]
  BY <1>1 DEF RisksInv
<1>3. RiskOK(old) /\ Known(aiRequests[old.request]) /\ old.version = 1
  BY <1>1 DEF RisksInv, RiskOK
<1>4. PICK was : was = old
  OBVIOUS
<1>5. PICK new : new = row
  OBVIOUS
<1>6. new = [was EXCEPT !.outcome = failed, !.correct = (was.predicted = failed), !.version = @ + 1]
  BY <1>4, <1>5
<1> HIDE DEF row, old
<1> DEFINE S == {was.signals}
           T == was.signals
           V == 1..2
           O == BOOLEAN \cup {Null}
           B == {"low", "medium", "high", "critical"}
           C == 0..100
<1>7. RiskOK(was) /\ was.outcome = Null /\ was.version = 1
  BY <1>1, <1>3, <1>4
<1>8. /\ was \in [request : AiRequests, top : T, signals : S, score : C, band : B, predicted : BOOLEAN, version : V,
                  outcome : O, correct : O]
      /\ failed \in O /\ (was.predicted = failed) \in O /\ was.version + 1 \in V /\ was.version + 1 = 2
  BY <1>7 DEF RiskOK, RiskRow
<1> HIDE DEF S, T, V, O, B, C
<1>9. new \in [request : AiRequests, top : T, signals : S, score : C, band : B, predicted : BOOLEAN, version : V,
               outcome : O, correct : O]
  BY <1>6, <1>8
<1>10. new.outcome = failed /\ new.version = 2
  BY <1>6, <1>8
<1>11. new.request = was.request /\ new.signals = was.signals /\ new.top = was.top
  BY <1>6, <1>8
<1>12. new.band = was.band /\ new.predicted = was.predicted
  BY <1>6, <1>8
<1>13. new \in RiskRow(new.signals)
  BY <1>9, <1>11 DEF RiskRow, S, T, V, O, B, C
<1>14. failed # Null
  BY AiAssumption
<1>15. RiskOK(new)
  BY <1>7, <1>10, <1>11, <1>12, <1>13, <1>14 DEF RiskOK
<1>16. Known(new)
  BY <1>13, <1>15, AiAssumption DEF Known, RiskOK
<1> QED
  BY <1>1, <1>2, <1>3, <1>4, <1>5, <1>11, <1>15, <1>16, RiskChanges DEF old

-----------------------------------------------------------------------------
(* Evidence cards                                                            *)

\* A card shows what its source has shown.
CardOK(card) ==
    /\ card \in CardRow /\ card.citations # {}
    /\ card.source.of # "chat" => Known(SourceRow(card.source))
    /\ Reached(card.source, card.status)

CardsInv ==
    /\ projections \in [Projections -> CardRow \cup {NotStored}]
    /\ projecting \in [Projections -> CardRow \cup {Idle}]
    /\ \A p \in Projections :
          /\ Known(projections[p]) => CardOK(projections[p])
          /\ projecting[p] # Idle => CardOK(projecting[p])

ProjectionsKept == \A p \in Projections : Known(projections[p]) => projections'[p] = projections[p]

\* What the sources of cards keep, whatever a step does.
SourcesKept == AttemptsKept /\ LogsKept /\ RisksKept /\ SuggestionsKept

\* The five kinds of sources.
LEMMA KindsOfSources ==
    ASSUME NEW s \in Sources
    PROVE  \/ s.of = "execution" /\ s.id \in Attempts
           \/ s.of = "risk" /\ s.id \in RiskAnalyses
           \/ s.of = "suggestion" /\ s.id \in Suggestions
           \/ s.of = "chat" /\ s.id \in Exchanges
           \/ s.of = "log" /\ s.id \in LogAnalyses
BY DEF Sources

\* What a card shows stays true of its source.
LEMMA CardStays ==
    ASSUME SourcesKept, SuggestionsInv, NEW card, CardOK(card)
    PROVE  CardOK(card)'
<1> DEFINE s == card.source
<1>1. s \in Sources /\ card \in CardRow /\ card.citations # {}
  BY DEF CardOK, CardRow
<1>2. CASE s.of = "execution" /\ s.id \in Attempts
  <2>1. SourceRow(s) = attempts[s.id] /\ SourceRow(s)' = attempts'[s.id]
    BY <1>2 DEF SourceRow
  <2>2. attempts'[s.id] = attempts[s.id]
    BY <1>2, <2>1 DEF CardOK, SourcesKept, AttemptsKept
  <2>3. Card(s).status = attempts[s.id].status /\ Card(s)'.status = attempts'[s.id].status
    BY <1>2, <2>1 DEF Card
  <2>4. Known(SourceRow(s)) /\ card.status = Card(s).status
    BY <1>2 DEF CardOK, Reached
  <2> QED
    BY <1>1, <1>2, <2>1, <2>2, <2>3, <2>4 DEF CardOK, Reached, Known
<1>3. CASE s.of = "log" /\ s.id \in LogAnalyses
  <2>1. SourceRow(s) = logAnalyses[s.id] /\ SourceRow(s)' = logAnalyses'[s.id]
    BY <1>3 DEF SourceRow
  <2>2. logAnalyses'[s.id] = logAnalyses[s.id]
    BY <1>3, <2>1 DEF CardOK, SourcesKept, LogsKept
  <2>3. Card(s).status = "completed" /\ Card(s)'.status = "completed"
    BY <1>3 DEF Card
  <2>4. Known(SourceRow(s)) /\ card.status = Card(s).status
    BY <1>3 DEF CardOK, Reached
  <2> QED
    BY <1>1, <1>3, <2>1, <2>2, <2>3, <2>4 DEF CardOK, Reached, Known
<1>4. CASE s.of = "risk" /\ s.id \in RiskAnalyses
  <2>1. SourceRow(s) = riskAnalyses[s.id] /\ SourceRow(s)' = riskAnalyses'[s.id]
    BY <1>4 DEF SourceRow
  <2>2. Known(riskAnalyses[s.id]) /\ (card.status = "completed" \/ riskAnalyses[s.id].outcome # Null)
    BY <1>4, <2>1 DEF CardOK, Reached
  <2>3. Known(riskAnalyses'[s.id]) /\ (card.status = "completed" \/ riskAnalyses'[s.id].outcome # Null)
    BY <1>4, <2>2 DEF SourcesKept, RisksKept
  <2> QED
    BY <1>1, <1>4, <2>1, <2>3 DEF CardOK, Reached, Known
<1>5. CASE s.of = "suggestion" /\ s.id \in Suggestions
  <2> DEFINE old == suggestions[s.id]
             new == suggestions'[s.id]
  <2>1. SourceRow(s) = old /\ SourceRow(s)' = new
    BY <1>5 DEF SourceRow
  <2>2. Known(old) /\ (card.status = "draft" \/ card.status = old.status \/ (card.status = "approved" /\ old.status = "promoted"))
    BY <1>5, <2>1 DEF CardOK, Reached
  <2>3. old.status \in {"draft", "approved", "rejected", "promoted"}
    BY <1>5, <2>2 DEF SuggestionsInv, SuggestionOK, SuggestionRow
  <2>4. /\ Known(new) /\ (old.status \in {"rejected", "promoted"} => new = old)
        /\ old.status = "approved" => new.status \in {"approved", "promoted"}
    BY <1>5, <2>2 DEF SourcesKept, SuggestionsKept
  <2>5. card.status = "draft" \/ card.status = new.status \/ (card.status = "approved" /\ new.status = "promoted")
    BY <2>2, <2>3, <2>4
  <2> QED
    BY <1>1, <1>5, <2>1, <2>4, <2>5 DEF CardOK, Reached, Known
<1>6. CASE s.of = "chat"
  BY <1>1, <1>6 DEF CardOK, Reached
<1> QED
  BY <1>1, <1>2, <1>3, <1>4, <1>5, <1>6, KindsOfSources

\* Cards stay true to their sources while the sources only advance.
LEMMA CardsStay ==
    ASSUME SourcesKept, SuggestionsInv, CardsInv, projections' = projections, projecting' = projecting
    PROVE  CardsInv' /\ ProjectionsKept
<1>1. ASSUME NEW p \in Projections, Known(projections'[p]) PROVE CardOK(projections[p])'
  <2>1. PICK card : card = projections[p]
    OBVIOUS
  <2>2. CardOK(card)'
    BY <1>1, <2>1, CardStays DEF CardsInv
  <2> QED
    BY <2>1, <2>2 DEF CardOK
<1>2. ASSUME NEW p \in Projections, projecting'[p] # Idle PROVE CardOK(projecting[p])'
  <2>1. PICK card : card = projecting[p]
    OBVIOUS
  <2>2. CardOK(card)'
    BY <1>2, <2>1, CardStays DEF CardsInv
  <2> QED
    BY <2>1, <2>2 DEF CardOK
<1> QED
  BY <1>1, <1>2 DEF CardsInv, ProjectionsKept, Known

\* What a source shows makes a card.
LEMMA CardIsOK ==
    ASSUME RequestsInv, AttemptsInv, LogsInv, RisksInv, SuggestionsInv, ChatsInv,
           NEW s \in Sources, Known(SourceRow(s)), Card(s).citations # {}
    PROVE  CardOK(Card(s))
<1> DEFINE row == SourceRow(s)
<1>1. ASSUME NEW status \in {"succeeded", "failed", "completed", "evaluated", "answered",
                             "draft", "approved", "rejected", "promoted"},
             NEW citations \in SUBSET Evidence,
             Card(s) = [source |-> s, status |-> status, citations |-> citations]
      PROVE  Card(s) \in CardRow /\ Card(s).source = s /\ Card(s).status = status
  BY <1>1 DEF CardRow
<1>2. \A r \in AiRequests : Known(aiRequests[r]) => Evidences(r) \in SUBSET Evidence
  BY DEF RequestsInv, RequestRow, Known, Evidences
<1>3. CASE s.of = "execution" /\ s.id \in Attempts
  <2>1. row = attempts[s.id] /\ Card(s) = [source |-> s, status |-> row.status, citations |-> row.citations]
    BY <1>3 DEF SourceRow, Card
  <2>2. row \in AttemptRow
    BY <1>3, <2>1 DEF AttemptsInv, Known
  <2> HIDE DEF row
  <2>3. row.status \in {"succeeded", "failed"} /\ row.citations \in SUBSET Evidence
    BY <2>2 DEF AttemptRow
  <2>4. Card(s) \in CardRow /\ Card(s).source = s
    BY <1>1, <2>1, <2>3
  <2> QED
    BY <1>3, <2>4 DEF CardOK, Reached
<1>4. CASE s.of = "log" /\ s.id \in LogAnalyses
  <2>1. row = logAnalyses[s.id] /\ Card(s) = [source |-> s, status |-> "completed", citations |-> Evidences(row.request)]
    BY <1>4 DEF SourceRow, Card
  <2>2. row \in LogRow /\ Known(aiRequests[row.request])
    BY <1>4, <2>1 DEF LogsInv, LogOK
  <2> HIDE DEF row
  <2>3. Evidences(row.request) \in SUBSET Evidence
    BY <1>2, <2>2 DEF LogRow
  <2>4. Card(s) \in CardRow /\ Card(s).source = s
    BY <1>1, <2>1, <2>3
  <2> QED
    BY <1>4, <2>4 DEF CardOK, Reached
<1>5. CASE s.of = "risk" /\ s.id \in RiskAnalyses
  <2> DEFINE status == IF row.outcome = Null THEN "completed" ELSE "evaluated"
  <2>1. row = riskAnalyses[s.id] /\ Card(s) = [source |-> s, status |-> status, citations |-> row.top.evidence]
    BY <1>5 DEF SourceRow, Card
  <2>2. row.top.evidence \in SUBSET Evidence
    BY <1>5, <2>1 DEF RisksInv, RiskOK
  <2>3. status \in {"completed", "evaluated"} /\ (status = "completed" \/ row.outcome # Null)
    OBVIOUS
  <2> HIDE DEF row, status
  <2>4. Card(s) \in CardRow /\ Card(s).source = s /\ Card(s).status = status
    BY <1>1, <2>1, <2>2, <2>3
  <2> QED
    BY <1>5, <2>3, <2>4 DEF CardOK, Reached, row
<1>6. CASE s.of = "suggestion" /\ s.id \in Suggestions
  <2>1. row = suggestions[s.id] /\ Card(s) = [source |-> s, status |-> row.status, citations |-> row.evidence]
    BY <1>6 DEF SourceRow, Card
  <2>2. row \in SuggestionRow
    BY <1>6, <2>1 DEF SuggestionsInv, SuggestionOK
  <2> HIDE DEF row
  <2>3. row.status \in {"draft", "approved", "rejected", "promoted"} /\ row.evidence \in SUBSET Evidence
    BY <2>2 DEF SuggestionRow
  <2>4. Card(s) \in CardRow /\ Card(s).source = s /\ Card(s).status = row.status
    BY <1>1, <2>1, <2>3
  <2> QED
    BY <1>6, <2>4 DEF CardOK, Reached, row
<1>7. CASE s.of = "chat" /\ s.id \in Exchanges
  <2>1. row = exchanges[s.id] /\ Card(s) = [source |-> s, status |-> "answered", citations |-> row.citations]
    BY <1>7 DEF SourceRow, Card
  <2>2. row \in ExchangeRow
    BY <1>7, <2>1 DEF ChatsInv, Known
  <2> HIDE DEF row
  <2>3. row.citations \in SUBSET Evidence
    BY <2>2 DEF ExchangeRow
  <2>4. Card(s) \in CardRow /\ Card(s).source = s
    BY <1>1, <2>1, <2>3
  <2> QED
    BY <1>7, <2>4 DEF CardOK, Reached
<1> QED
  BY <1>3, <1>4, <1>5, <1>6, <1>7, KindsOfSources

\* A request for a card reads a source that is stored.
LEMMA ReadSourceStep ==
    ASSUME RequestsInv, AttemptsInv, LogsInv, RisksInv, SuggestionsInv, ChatsInv, CardsInv, SourcesKept,
           NEW p \in Projections, NEW s \in Sources, ReadSource(p, s)
    PROVE  CardsInv' /\ ProjectionsKept
<1>1. UNCHANGED <<aiRequests, attempts, logAnalyses, riskAnalyses, suggestions, exchanges, projections>>
  BY DEF ReadSource, analysisVars, chatVars
<1>2. CASE projecting' = projecting
  BY <1>1, <1>2, CardsStay
<1>3. CASE projecting' # projecting
  <2>1. PICK card : card = Card(s)
    OBVIOUS
  <2>2. Known(SourceRow(s)) /\ Card(s).citations # {} /\ projecting' = [projecting EXCEPT ![p] = card]
    BY <1>3, <2>1 DEF ReadSource
  <2>3. CardOK(card)
    BY <2>1, <2>2, CardIsOK
  <2>4. CardOK(card)'
    BY <2>3, CardStays
  <2>5. card \in CardRow
    BY <2>3 DEF CardOK
  <2>6. /\ projecting' \in [Projections -> CardRow \cup {Idle}]
        /\ projecting'[p] = card /\ \A q \in Projections : q # p => projecting'[q] = projecting[q]
    BY <2>2, <2>5 DEF CardsInv
  <2>7. ASSUME NEW q \in Projections, projecting'[q] # Idle PROVE CardOK(projecting[q])'
    <3>1. PICK c : c = projecting'[q]
      OBVIOUS
    <3>2. CASE q = p
      <4>1. c = card
        BY <2>6, <3>1, <3>2
      <4>2. CardOK(c)'
        BY <2>4, <4>1
      <4> QED
        BY <3>1, <4>2 DEF CardOK
    <3>3. CASE q # p
      <4>1. CardOK(c)
        BY <2>6, <2>7, <3>1, <3>3 DEF CardsInv
      <4>2. CardOK(c)'
        BY <4>1, CardStays
      <4> QED
        BY <3>1, <4>2 DEF CardOK
    <3> QED
      BY <3>2, <3>3
  <2>8. ASSUME NEW q \in Projections, Known(projections'[q]) PROVE CardOK(projections[q])'
    <3>1. PICK c : c = projections[q]
      OBVIOUS
    <3>2. CardOK(c)'
      BY <1>1, <2>8, <3>1, CardStays DEF CardsInv
    <3> QED
      BY <1>1, <3>1, <3>2 DEF CardOK
  <2> QED
    BY <1>1, <2>6, <2>7, <2>8 DEF CardsInv, ProjectionsKept, Known
<1> QED
  BY <1>2, <1>3

\* A card is stored once; a repeated command answers with it.
LEMMA CreateProjectionStep ==
    ASSUME SuggestionsInv, CardsInv, SourcesKept, NEW p \in Projections, CreateProjection(p)
    PROVE  CardsInv' /\ ProjectionsKept
<1>1. /\ projecting[p] # Idle /\ projecting' = [projecting EXCEPT ![p] = Idle]
      /\ \/ projections' = projections
         \/ ~Known(projections[p]) /\ projections' = [projections EXCEPT ![p] = projecting[p]]
  BY DEF CreateProjection
<1>2. projecting[p] \in CardRow /\ CardOK(projecting[p])
  BY <1>1 DEF CardsInv
<1>3. /\ projections' \in [Projections -> CardRow \cup {NotStored}]
      /\ \A q \in Projections : q # p => projections'[q] = projections[q]
      /\ projections'[p] = projections[p] \/ (~Known(projections[p]) /\ projections'[p] = projecting[p])
  BY <1>1, <1>2 DEF CardsInv
<1>4. /\ projecting' \in [Projections -> CardRow \cup {Idle}]
      /\ projecting'[p] = Idle /\ \A q \in Projections : q # p => projecting'[q] = projecting[q]
  BY <1>1 DEF CardsInv
<1>5. ASSUME NEW q \in Projections, projecting'[q] # Idle PROVE CardOK(projecting[q])'
  <2>1. PICK c : c = projecting'[q]
    OBVIOUS
  <2>2. CardOK(c)
    BY <1>4, <1>5, <2>1 DEF CardsInv
  <2>3. CardOK(c)'
    BY <2>2, CardStays
  <2> QED
    BY <2>1, <2>3 DEF CardOK
<1>6. ASSUME NEW q \in Projections, Known(projections'[q]) PROVE CardOK(projections[q])'
  <2>1. PICK c : c = projections'[q]
    OBVIOUS
  <2>2. CardOK(c)
    BY <1>2, <1>3, <1>6, <2>1 DEF CardsInv, Known
  <2>3. CardOK(c)'
    BY <2>2, CardStays
  <2> QED
    BY <2>1, <2>3 DEF CardOK
<1>7. ProjectionsKept
  BY <1>3 DEF ProjectionsKept
<1> QED
  BY <1>3, <1>4, <1>5, <1>6, <1>7 DEF CardsInv, Known

-----------------------------------------------------------------------------
(* The AI engine                                                             *)

AiInv ==
    /\ RequestsInv /\ AttemptsInv /\ LogsInv /\ RisksInv
    /\ SuggestionsInv /\ ChatsInv /\ CardsInv

AiKeeps ==
    /\ CatalogInv' /\ Advances /\ AiInv'
    /\ RequestsKept /\ SuggestionsKept /\ ProjectionsKept /\ DraftsOnly

\* Parts that a step leaves alone, and parts that it keeps.
LEMMA Gathered ==
    ASSUME AiInv, CatalogInv', Advances, DraftsOnly, AuthoredKept,
           RequestsInv' /\ AttemptsInv' /\ RequestsKept /\ AttemptsKept,
           logAnalyses' = logAnalyses \/ (LogsInv' /\ LogsKept),
           riskAnalyses' = riskAnalyses \/ (RisksInv' /\ RisksKept),
           SuggestionsInv' /\ SuggestionsKept,
           UNCHANGED <<conversations, exchanges>> \/ ChatsInv',
           UNCHANGED <<projections, projecting>> \/ (CardsInv' /\ ProjectionsKept)
    PROVE  AiKeeps
<1>1. LogsInv' /\ LogsKept
  BY LogsStay DEF AiInv
<1>2. RisksInv' /\ RisksKept
  BY RisksStay DEF AiInv
<1>3. ChatsInv'
  BY ChatsStay DEF AiInv
<1>4. CardsInv' /\ ProjectionsKept
  BY <1>1, <1>2, CardsStay DEF AiInv, SourcesKept
<1> QED
  BY <1>1, <1>2, <1>3, <1>4 DEF AiKeeps, AiInv

\* A step that leaves the catalogue and the suggestions alone.
LEMMA NothingPromoted ==
    ASSUME CatalogInv, SuggestionsInv, UNCHANGED <<catalogVars, suggestions, authored>>
    PROVE  CatalogInv' /\ Advances /\ DraftsOnly /\ AuthoredKept /\ SuggestionsInv' /\ SuggestionsKept
<1>1. CatalogInv' /\ Advances
  BY CatalogStays
<1>2. catalog' = catalog /\ authored' = authored /\ suggestions' = suggestions
  BY DEF catalogVars
<1>3. AuthoredKept /\ DraftsOnly
  BY <1>2, NothingAuthored
<1>4. authored' \in [Definitions -> Contents \cup {Null}]
  BY <1>2 DEF SuggestionsInv
<1> QED
  BY <1>1, <1>2, <1>3, <1>4, SuggestionsStay

\* A new analysis request keeps the engine.
LEMMA AskForStep ==
    ASSUME CatalogInv, AiInv, NEW tasks \in SUBSET Tasks, NEW terms \in SUBSET Terms, NEW owners \in SUBSET Users,
           AskFor(tasks, terms, owners)
    PROVE  AiKeeps
<1>1. PICK r \in AiRequests, task \in tasks, t \in terms, u \in owners, evidence \in {{}, Evidence} :
         CreateRequest(r, task, u, t[1], t[2], evidence)
  BY DEF AskFor
<1>2. task \in Tasks /\ u \in Users /\ t[1] \in Policies /\ t[2] \in Classes /\ evidence \in SUBSET Evidence
  BY DEF Terms
<1>3. UNCHANGED <<attempts, logAnalyses, riskAnalyses, suggestions, chatVars, cardVars, authored, catalogVars>>
  BY <1>1 DEF CreateRequest
<1>4. RequestsInv' /\ AttemptsInv' /\ RequestsKept /\ AttemptsKept
  BY <1>1, <1>2, CreateRequestStep DEF AiInv
<1>5. CatalogInv' /\ Advances /\ DraftsOnly /\ AuthoredKept /\ SuggestionsInv' /\ SuggestionsKept
  BY <1>3, NothingPromoted DEF AiInv
<1> QED
  BY <1>3, <1>4, <1>5, Gathered DEF chatVars, cardVars

\* A step on the cards changes nothing they are made of.
LEMMA OnlyCards ==
    ASSUME CatalogInv, AiInv, UNCHANGED <<analysisVars, suggestions, chatVars, authored, catalogVars>>
    PROVE  /\ SourcesKept
           /\ CardsInv' /\ ProjectionsKept => AiKeeps
<1>1. UNCHANGED <<aiRequests, attempts, logAnalyses, riskAnalyses, conversations, exchanges>>
  BY DEF analysisVars, chatVars
<1>2. RequestsInv' /\ AttemptsInv' /\ RequestsKept /\ AttemptsKept
  BY <1>1, RequestsStay DEF AiInv
<1>3. CatalogInv' /\ Advances /\ DraftsOnly /\ AuthoredKept /\ SuggestionsInv' /\ SuggestionsKept
  BY NothingPromoted DEF AiInv
<1>4. LogsKept /\ RisksKept
  BY <1>1, <1>2, LogsStay, RisksStay DEF AiInv
<1> QED
  BY <1>1, <1>2, <1>3, <1>4, Gathered DEF SourcesKept

\* The steps of a request for a card keep the engine.
LEMMA ProjectStep == ASSUME CatalogInv, AiInv, NEW kinds, Project(kinds) PROVE AiKeeps
<1>1. ASSUME NEW p \in Projections, NEW s \in Sources, ReadSource(p, s) PROVE AiKeeps
  <2>1. UNCHANGED <<analysisVars, suggestions, chatVars, authored, catalogVars>>
    BY <1>1 DEF ReadSource
  <2>2. SourcesKept
    BY <2>1, OnlyCards
  <2>3. CardsInv' /\ ProjectionsKept
    BY <1>1, <2>2, ReadSourceStep DEF AiInv
  <2> QED
    BY <2>1, <2>3, OnlyCards
<1>2. ASSUME NEW p \in Projections, CreateProjection(p) PROVE AiKeeps
  <2>1. UNCHANGED <<analysisVars, suggestions, chatVars, authored, catalogVars>>
    BY <1>2 DEF CreateProjection
  <2>2. SourcesKept
    BY <2>1, OnlyCards
  <2>3. CardsInv' /\ ProjectionsKept
    BY <1>2, <2>2, CreateProjectionStep DEF AiInv
  <2> QED
    BY <2>1, <2>3, OnlyCards
<1> QED
  BY <1>1, <1>2 DEF Project

\* The terms the runs ask for.
LEMMA Asked ==
    /\ Ordinary \in SUBSET Terms /\ {CHOOSE u \in Users : TRUE} \in SUBSET Users /\ Users \in SUBSET Users
    /\ {"root_cause"} \in SUBSET Tasks /\ {"test_suggestion"} \in SUBSET Tasks /\ {"log_analysis"} \in SUBSET Tasks
    /\ Tasks \ {"log_analysis"} \in SUBSET Tasks /\ Terms \in SUBSET Terms
<1>1. Ordinary \in SUBSET Terms
  BY DEF Ordinary, Terms, Policies, Classes
<1>2. {CHOOSE u \in Users : TRUE} \in SUBSET Users
  BY AiAssumption
<1> QED
  BY <1>1, <1>2 DEF Tasks

\* Executing analysis requests keeps the engine.
LEMMA AttemptWork == ASSUME CatalogInv, AiInv, AttemptStep PROVE AiKeeps
<1>1. CASE AskFor({"root_cause"}, Terms, {CHOOSE u \in Users : TRUE})
  BY <1>1, Asked, AskForStep
<1>2. ASSUME NEW x \in Attempts, NEW r \in AiRequests, NEW kind \in {"local", "external"},
             NEW outcome \in {"succeeded", "failed"}, NEW cited \in SUBSET Evidence,
             ExecuteRequest(x, r, kind, outcome, cited)
      PROVE  AiKeeps
  <2>1. UNCHANGED <<logAnalyses, riskAnalyses, suggestions, chatVars, cardVars, authored, catalogVars>>
    BY <1>2 DEF ExecuteRequest
  <2>2. RequestsInv' /\ AttemptsInv' /\ RequestsKept /\ AttemptsKept
    BY <1>2, ExecuteRequestStep DEF AiInv
  <2>3. CatalogInv' /\ Advances /\ DraftsOnly /\ AuthoredKept /\ SuggestionsInv' /\ SuggestionsKept
    BY <2>1, NothingPromoted DEF AiInv
  <2> QED
    BY <2>1, <2>2, <2>3, Gathered DEF chatVars, cardVars
<1>3. CASE Project({"execution"})
  BY <1>3, ProjectStep
<1> QED
  BY <1>1, <1>2, <1>3 DEF AttemptStep

\* Analysing logs keeps the engine.
LEMMA LogWork == ASSUME CatalogInv, AiInv, LogStep PROVE AiKeeps
<1>1. CASE AskFor(Tasks \ {"log_analysis"}, Ordinary, {CHOOSE u \in Users : TRUE})
  BY <1>1, Asked, AskForStep
<1>2. ASSUME NEW x \in LogAnalyses, NEW r \in AiRequests, NEW lines \in LogBatches, CreateLogAnalysis(x, r, lines)
      PROVE  AiKeeps
  <2>1. UNCHANGED <<aiRequests, attempts, riskAnalyses, suggestions, chatVars, cardVars, authored, catalogVars>>
    BY <1>2 DEF CreateLogAnalysis
  <2>2. RequestsInv' /\ AttemptsInv' /\ RequestsKept /\ AttemptsKept
    BY <2>1, RequestsStay DEF AiInv
  <2>3. CatalogInv' /\ Advances /\ DraftsOnly /\ AuthoredKept /\ SuggestionsInv' /\ SuggestionsKept
    BY <2>1, NothingPromoted DEF AiInv
  <2>4. LogsInv' /\ LogsKept
    BY <1>2, <2>2, CreateLogAnalysisStep DEF AiInv
  <2> QED
    BY <2>1, <2>2, <2>3, <2>4, Gathered DEF chatVars, cardVars
<1>3. CASE Project({"log"})
  BY <1>3, ProjectStep
<1> QED
  BY <1>1, <1>2, <1>3 DEF LogStep

\* Analysing risks and evaluating predictions keeps the engine.
LEMMA RiskWork == ASSUME CatalogInv, AiInv, RiskStep PROVE AiKeeps
<1>1. CASE AskFor({"root_cause"}, Ordinary, {CHOOSE u \in Users : TRUE})
  BY <1>1, Asked, AskForStep
<1>2. ASSUME UNCHANGED <<aiRequests, attempts, logAnalyses, suggestions, chatVars, cardVars, authored, catalogVars>>,
             RequestsKept => RisksInv' /\ RisksKept
      PROVE  AiKeeps
  <2>1. RequestsInv' /\ AttemptsInv' /\ RequestsKept /\ AttemptsKept
    BY <1>2, RequestsStay DEF AiInv
  <2>2. CatalogInv' /\ Advances /\ DraftsOnly /\ AuthoredKept /\ SuggestionsInv' /\ SuggestionsKept
    BY <1>2, NothingPromoted DEF AiInv
  <2> QED
    BY <1>2, <2>1, <2>2, Gathered DEF chatVars, cardVars
<1>3. ASSUME NEW x \in RiskAnalyses, NEW r \in AiRequests, NEW signals \in SignalSets,
             CreateRiskAnalysis(x, r, signals)
      PROVE  AiKeeps
  <2>1. UNCHANGED <<aiRequests, attempts, logAnalyses, suggestions, chatVars, cardVars, authored, catalogVars>>
    BY <1>3 DEF CreateRiskAnalysis
  <2>2. RequestsKept => RisksInv' /\ RisksKept
    BY <1>3, CreateRiskAnalysisStep DEF AiInv
  <2> QED
    BY <1>2, <2>1, <2>2
<1>4. ASSUME NEW x \in RiskAnalyses, NEW failed \in BOOLEAN, NEW expected \in 1..2,
             EvaluatePrediction(x, failed, expected)
      PROVE  AiKeeps
  <2>1. UNCHANGED <<aiRequests, attempts, logAnalyses, suggestions, chatVars, cardVars, authored, catalogVars>>
    BY <1>4 DEF EvaluatePrediction
  <2>2. RequestsKept => RisksInv' /\ RisksKept
    BY <1>4, EvaluatePredictionStep DEF AiInv
  <2> QED
    BY <1>2, <2>1, <2>2
<1>5. CASE Project({"risk"})
  BY <1>5, ProjectStep
<1> QED
  BY <1>1, <1>3, <1>4, <1>5 DEF RiskStep

\* Suggesting, reviewing, promoting and authoring keep the engine.
LEMMA SuggestionWork == ASSUME CatalogInv, AiInv, SuggestionStep PROVE AiKeeps
<1>1. CASE AskFor({"test_suggestion"}, Ordinary, {CHOOSE u \in Users : TRUE})
  BY <1>1, Asked, AskForStep
<1>2. ASSUME UNCHANGED <<analysisVars, chatVars, cardVars>>, CatalogInv', Advances, DraftsOnly, AuthoredKept,
             SuggestionsInv', SuggestionsKept
      PROVE  AiKeeps
  <2>1. UNCHANGED <<aiRequests, attempts, logAnalyses, riskAnalyses>>
    BY <1>2 DEF analysisVars
  <2>2. RequestsInv' /\ AttemptsInv' /\ RequestsKept /\ AttemptsKept
    BY <2>1, RequestsStay DEF AiInv
  <2> QED
    BY <1>2, <2>1, <2>2, Gathered DEF chatVars, cardVars
<1>3. ASSUME NEW x \in Suggestions, NEW r \in AiRequests, NEW content \in Contents, NEW evidence \in {{}, Evidence},
             CreateSuggestion(x, r, content, evidence)
      PROVE  AiKeeps
  <2>1. UNCHANGED <<analysisVars, chatVars, cardVars>> /\ UNCHANGED catalogVars
    BY <1>3 DEF CreateSuggestion
  <2>2. evidence \in SUBSET Evidence
    OBVIOUS
  <2>3. SuggestionsInv' /\ SuggestionsKept /\ AuthoredKept /\ DraftsOnly
    BY <1>3, <2>2, CreateSuggestionStep DEF AiInv
  <2> QED
    BY <1>2, <2>1, <2>3, CatalogStays
<1>4. ASSUME NEW x \in Suggestions, NEW decision \in {"approved", "rejected"}, NEW expected \in 1..3,
             ReviewSuggestion(x, decision, expected)
      PROVE  AiKeeps
  <2>1. UNCHANGED <<analysisVars, chatVars, cardVars>> /\ UNCHANGED catalogVars
    BY <1>4 DEF ReviewSuggestion
  <2>2. SuggestionsInv' /\ SuggestionsKept /\ AuthoredKept /\ DraftsOnly
    BY <1>4, ReviewSuggestionStep DEF AiInv
  <2> QED
    BY <1>2, <2>1, <2>2, CatalogStays
<1>5. ASSUME NEW d \in Definitions, NEW content \in Contents, AuthorDefinition(d, content)
      PROVE  AiKeeps
  <2>1. UNCHANGED <<analysisVars, chatVars, cardVars>>
    BY <1>5 DEF AuthorDefinition
  <2>2. CatalogInv' /\ Advances /\ SuggestionsInv' /\ SuggestionsKept /\ AuthoredKept /\ DraftsOnly
    BY <1>5, AuthorDefinitionStep DEF AiInv
  <2> QED
    BY <1>2, <2>1, <2>2
<1>6. ASSUME NEW x \in Suggestions, NEW d \in Definitions, NEW expected \in 1..3, PromoteSuggestion(x, d, expected)
      PROVE  AiKeeps
  <2>1. UNCHANGED <<analysisVars, chatVars, cardVars>>
    BY <1>6 DEF PromoteSuggestion
  <2>2. CatalogInv' /\ Advances /\ SuggestionsInv' /\ SuggestionsKept /\ AuthoredKept /\ DraftsOnly
    BY <1>6, PromoteSuggestionStep DEF AiInv
  <2> QED
    BY <1>2, <2>1, <2>2
<1>7. CASE Project({"suggestion"})
  BY <1>7, ProjectStep
<1> QED
  BY <1>1, <1>3, <1>4, <1>5, <1>6, <1>7 DEF SuggestionStep

\* Conversations, their exchanges and the purge keep the engine.
LEMMA ChatWork == ASSUME CatalogInv, AiInv, ChatStep PROVE AiKeeps
<1>1. CASE AskFor({"log_analysis"}, Ordinary, Users)
  BY <1>1, Asked, AskForStep
<1>2. ASSUME UNCHANGED <<analysisVars, suggestions, cardVars, authored, catalogVars>>, RequestsKept => ChatsInv'
      PROVE  AiKeeps
  <2>1. UNCHANGED <<aiRequests, attempts, logAnalyses, riskAnalyses>>
    BY <1>2 DEF analysisVars
  <2>2. RequestsInv' /\ AttemptsInv' /\ RequestsKept /\ AttemptsKept
    BY <2>1, RequestsStay DEF AiInv
  <2>3. CatalogInv' /\ Advances /\ DraftsOnly /\ AuthoredKept /\ SuggestionsInv' /\ SuggestionsKept
    BY <1>2, NothingPromoted DEF AiInv
  <2> QED
    BY <1>2, <2>1, <2>2, <2>3, Gathered DEF cardVars
<1>3. ASSUME NEW c \in Conversations, NEW r \in AiRequests, NEW u \in Users, CreateConversation(c, r, u)
      PROVE  AiKeeps
  <2>1. UNCHANGED <<analysisVars, suggestions, cardVars, authored, catalogVars>>
    BY <1>3 DEF CreateConversation
  <2>2. RequestsKept => ChatsInv'
    BY <1>3, CreateConversationStep DEF AiInv
  <2> QED
    BY <1>2, <2>1, <2>2
<1>4. ASSUME NEW x \in Exchanges, NEW c \in Conversations, NEW u \in Users, NEW citations \in SUBSET Evidence,
             CreateExchange(x, c, u, citations)
      PROVE  AiKeeps
  <2>1. UNCHANGED <<analysisVars, suggestions, cardVars, authored, catalogVars>>
    BY <1>4 DEF CreateExchange
  <2>2. RequestsKept => ChatsInv'
    BY <1>4, CreateExchangeStep DEF AiInv
  <2> QED
    BY <1>2, <2>1, <2>2
<1>5. ASSUME NEW c \in Conversations, Expire(c) PROVE AiKeeps
  <2>1. UNCHANGED <<analysisVars, suggestions, cardVars, authored, catalogVars>>
    BY <1>5 DEF Expire
  <2>2. RequestsKept => ChatsInv'
    BY <1>5, ExpireStep DEF AiInv
  <2> QED
    BY <1>2, <2>1, <2>2
<1>6. CASE PurgeExpired
  <2>1. UNCHANGED <<analysisVars, suggestions, cardVars, authored, catalogVars>>
    BY <1>6 DEF PurgeExpired
  <2>2. RequestsKept => ChatsInv'
    BY <1>6, PurgeExpiredStep DEF AiInv
  <2> QED
    BY <1>2, <2>1, <2>2
<1>7. CASE Project({"chat"})
  BY <1>7, ProjectStep
<1> QED
  BY <1>1, <1>3, <1>4, <1>5, <1>6, <1>7 DEF ChatStep

-----------------------------------------------------------------------------
(* The road of a test                                                        *)

QualityInv == workload \in QualityWorkloads /\ CatalogInv /\ ExecutionInv /\ AiInv

\* Whatever the catalogue does without the AI engine.
LEMMA AiStays ==
    ASSUME CatalogInv', Advances, AiInv, UNCHANGED aiVars
    PROVE  AiInv' /\ RequestsKept /\ SuggestionsKept /\ ProjectionsKept
<1>1. /\ UNCHANGED <<aiRequests, attempts, logAnalyses, riskAnalyses>> /\ suggestions' = suggestions
      /\ UNCHANGED <<conversations, exchanges>> /\ UNCHANGED <<projections, projecting>> /\ authored' = authored
  BY DEF aiVars, analysisVars, chatVars, cardVars
<1>2. RequestsInv' /\ AttemptsInv' /\ RequestsKept /\ AttemptsKept
  BY <1>1, RequestsStay DEF AiInv
<1>3. AuthoredKept
  BY <1>1 DEF AuthoredKept, Advances, Governed
<1>4. SuggestionsInv' /\ SuggestionsKept
  <2>1. authored' \in [Definitions -> Contents \cup {Null}]
    BY <1>1 DEF AiInv, SuggestionsInv
  <2> QED
    BY <1>1, <1>3, <2>1, SuggestionsStay DEF AiInv
<1>5. LogsInv' /\ LogsKept /\ RisksInv' /\ RisksKept /\ ChatsInv'
  BY <1>1, <1>2, LogsStay, RisksStay, ChatsStay DEF AiInv
<1>6. CardsInv' /\ ProjectionsKept
  BY <1>1, <1>2, <1>4, <1>5, CardsStay DEF AiInv, SourcesKept
<1> QED
  BY <1>2, <1>4, <1>5, <1>6 DEF AiInv

\* Work on the catalogue keeps the executions.
LEMMA CatalogWorkKeeps ==
    ASSUME CatalogInv, ExecutionInv, NEW q \in Requests, NEW R, CatalogWork(q, R)
    PROVE  ExecutionKeeps
<1>1. CASE Govern(R) /\ UNCHANGED executionVars
  BY <1>1, OnlyGoverned, GovernKeeps
<1>2. CASE Compose(q) /\ UNCHANGED executionVars
  BY <1>2, ComposeStep, ExecutionsStay
<1> QED
  BY <1>1, <1>2 DEF CatalogWork

\* No work outside the AI engine drops or changes what it has stored.
LEMMA WorkWithoutAi ==
    ASSUME CatalogInv, ExecutionInv,
           (\E q \in Requests : ScheduleWork(q) \/ FaultWork(q) \/ MutationWork(q)) \/ CoverageWork
    PROVE  ExecutionKeeps /\ workload # "suggestion"
<1>1. ASSUME NEW q \in Requests, ScheduleWork(q) PROVE ExecutionKeeps /\ workload # "suggestion"
  <2>1. CASE Schedule(q) /\ UNCHANGED executionVars
    BY <1>1, <2>1, ScheduleStep, ExecutionsStay DEF ScheduleWork
  <2> QED
    BY <1>1, <2>1, CatalogWorkKeeps DEF ScheduleWork
<1>2. ASSUME NEW q \in Requests, FaultWork(q) PROVE ExecutionKeeps /\ workload # "suggestion"
  BY <1>2, FaultStepKeeps, CatalogWorkKeeps DEF FaultWork
<1>3. ASSUME NEW q \in Requests, MutationWork(q) PROVE ExecutionKeeps /\ workload # "suggestion"
  BY <1>3, MutationStepKeeps, CatalogWorkKeeps DEF MutationWork
<1>4. CASE CoverageWork
  <2>1. CASE Govern(Definitions) /\ UNCHANGED executionVars
    BY <1>4, <2>1, OnlyGoverned, GovernKeeps DEF CoverageWork
  <2> QED
    BY <1>4, <2>1, CoverageStepKeeps DEF CoverageWork
<1> QED
  BY <1>1, <1>2, <1>3, <1>4

\* What a step keeps.
QualityKeeps ==
    /\ QualityInv' /\ FaultsStand /\ MutationsStand /\ Advances
    /\ RequestsKept /\ SuggestionsKept /\ ProjectionsKept
    /\ workload = "suggestion" => DraftsOnly

\* Every step keeps the inductive invariant, and what is decided stands.
LEMMA QualityStep == ASSUME QualityInv, [QualityNext]_qualityVars PROVE QualityKeeps
<1>1. CASE QualityNext
  <2>1. workload' = workload /\ workload \in QualityWorkloads
    BY <1>1 DEF QualityNext, QualityInv
  <2>2. CASE UNCHANGED aiVars /\ ((\E q \in Requests : ScheduleWork(q) \/ FaultWork(q) \/ MutationWork(q)) \/ CoverageWork)
    <3>1. ExecutionKeeps /\ workload # "suggestion"
      BY <2>2, WorkWithoutAi DEF QualityInv
    <3>2. AiInv' /\ RequestsKept /\ SuggestionsKept /\ ProjectionsKept
      BY <2>2, <3>1, AiStays DEF ExecutionKeeps, QualityInv
    <3> QED
      BY <2>1, <3>1, <3>2 DEF ExecutionKeeps, QualityInv, QualityKeeps
  <2>3. CASE UNCHANGED executionVars /\ (AttemptStep \/ LogStep \/ RiskStep \/ SuggestionStep \/ ChatStep)
    <3>1. AiKeeps
      BY <2>3, AttemptWork, LogWork, RiskWork, SuggestionWork, ChatWork DEF QualityInv
    <3>2. ExecutionKeeps
      BY <2>3, <3>1, ExecutionsStay DEF AiKeeps, QualityInv
    <3> QED
      BY <2>1, <3>1, <3>2 DEF AiKeeps, ExecutionKeeps, QualityInv, QualityKeeps
  <2> QED
    BY <1>1, <2>2, <2>3 DEF QualityNext
<1>2. CASE UNCHANGED qualityVars
  <2>1. UNCHANGED catalogVars /\ UNCHANGED executionVars /\ UNCHANGED aiVars /\ workload' = workload
    BY <1>2 DEF qualityVars
  <2>2. ExecutionKeeps
    BY <2>1, CatalogStays, ExecutionsStay DEF QualityInv
  <2>3. AiInv' /\ RequestsKept /\ SuggestionsKept /\ ProjectionsKept
    BY <2>1, <2>2, AiStays DEF ExecutionKeeps, QualityInv
  <2>4. DraftsOnly
    BY <2>1 DEF DraftsOnly, IsActive, Stored, catalogVars
  <2> QED
    BY <2>1, <2>2, <2>3, <2>4 DEF ExecutionKeeps, QualityInv, QualityKeeps
<1> QED
  BY <1>1, <1>2

\* The invariant holds at the start.
LEMMA AiStarts == ASSUME AiInit PROVE AiInv
<1>1. \A x : x = NotStored => ~Known(x)
  BY DEF Known
<1>2. /\ \A r \in AiRequests : ~Known(aiRequests[r]) /\ aiRequests[r] = NotStored
      /\ \A x \in Attempts : ~Known(attempts[x]) /\ attempts[x] = NotStored
      /\ \A x \in LogAnalyses : ~Known(logAnalyses[x]) /\ logAnalyses[x] = NotStored
      /\ \A x \in RiskAnalyses : ~Known(riskAnalyses[x]) /\ riskAnalyses[x] = NotStored
      /\ \A x \in Suggestions : ~Known(suggestions[x]) /\ suggestions[x] = NotStored
  BY <1>1 DEF AiInit
<1>3. /\ \A x \in Conversations : ~Known(conversations[x]) /\ conversations[x] = NotStored
      /\ \A x \in Exchanges : ~Known(exchanges[x]) /\ exchanges[x] = NotStored
      /\ \A x \in Projections : ~Known(projections[x]) /\ projections[x] = NotStored /\ projecting[x] = Idle
  BY <1>1 DEF AiInit
<1>4. RequestsInv
  BY <1>2 DEF RequestsInv, AiInit
<1>5. AttemptsInv
  BY <1>2 DEF AttemptsInv, AiInit
<1>6. LogsInv
  BY <1>2 DEF LogsInv, OneEach, AiInit
<1>7. RisksInv
  BY <1>2 DEF RisksInv, OneEach, AiInit
<1>8. SuggestionsInv
  BY <1>2 DEF SuggestionsInv, OneEach, AiInit
<1>9. ChatsInv
  BY <1>3 DEF ChatsInv, AiInit
<1>10. CardsInv
  BY <1>3 DEF CardsInv, AiInit
<1> QED
  BY <1>4, <1>5, <1>6, <1>7, <1>8, <1>9, <1>10 DEF AiInv

\* What the invariant says of the AI engine.
LEMMA AiHolds == ASSUME AiInv PROVE EvidenceIsGoverned
<1>1. /\ RequestsInv /\ AttemptsInv /\ LogsInv /\ RisksInv /\ SuggestionsInv /\ ChatsInv /\ CardsInv
  BY DEF AiInv
<1>2. AiTypeOK
  <2>1. /\ \A x \in DOMAIN aiRequests : Known(aiRequests[x]) => aiRequests[x] \in RequestRow
        /\ \A x \in DOMAIN attempts : Known(attempts[x]) => attempts[x] \in AttemptRow
    BY <1>1 DEF RequestsInv, AttemptsInv, Known
  <2>2. /\ \A x \in DOMAIN suggestions : Known(suggestions[x]) => suggestions[x] \in SuggestionRow
        /\ \A d \in Definitions : authored[d] \in Contents \cup {Null}
    BY <1>1 DEF SuggestionsInv, Known
  <2>3. /\ \A x \in DOMAIN conversations : Known(conversations[x]) => conversations[x] \in ConversationRow
        /\ \A x \in DOMAIN exchanges : Known(exchanges[x]) => exchanges[x] \in ExchangeRow
    BY <1>1 DEF ChatsInv, Known
  <2>4. \A x \in DOMAIN logAnalyses : Known(logAnalyses[x]) => logAnalyses[x] \in LogRow
    BY <1>1 DEF LogsInv, Known
  <2>5. \A x \in DOMAIN projections : Known(projections[x]) => projections[x] \in CardRow
    BY <1>1 DEF CardsInv, Known
  <2>6. \A x \in RiskAnalyses : Known(riskAnalyses[x]) => riskAnalyses[x] \in RiskRow(riskAnalyses[x].signals)
    BY <1>1 DEF RisksInv, RiskOK
  <2> QED
    BY ONLY <2>1, <2>2, <2>3, <2>4, <2>5, <2>6 DEF AiTypeOK
<1>3. SuggestionsAreTraceable
  <2>1. \A x \in Suggestions : Known(suggestions[x]) =>
           /\ (suggestions[x].definition # Null) <=> (suggestions[x].status = "promoted")
           /\ suggestions[x].status = "promoted" =>
                /\ Stored(suggestions[x].definition)
                /\ authored[suggestions[x].definition] = suggestions[x].content
    BY <1>1 DEF SuggestionsInv, SuggestionOK
  <2>2. OneEach(suggestions) /\ OneEach(logAnalyses) /\ OneEach(riskAnalyses)
    BY <1>1 DEF SuggestionsInv, LogsInv, RisksInv
  <2>3. \A table \in {suggestions, logAnalyses, riskAnalyses} : OneEach(table)
    BY <2>2
  <2> QED
    BY ONLY <2>1, <2>3 DEF SuggestionsAreTraceable, OneEach
<1>4. AnalysesAreGrounded
  <2>1. \A x \in LogAnalyses : Known(logAnalyses[x]) =>
           LET lines == logAnalyses[x].lines
               Lines(c) == {i \in DOMAIN lines : lines[i] # NoMatch /\ lines[i].cluster = c}
           IN /\ logAnalyses[x].parsed = Cardinality({i \in DOMAIN lines : lines[i] # NoMatch})
              /\ \A c \in ClusterIds(lines) :
                   (\E a \in logAnalyses[x].anomalies : a.type = "burst" /\ a.cluster = c)
                     <=> \E T \in SUBSET Lines(c) : Cardinality(T) = 3
                           /\ \A i, j \in T : lines[i].time - lines[j].time <= 10
              /\ \A a \in logAnalyses[x].anomalies :
                   a.type = "severe_event" => \E i \in a.lines : lines[i].level \in SevereLevels
    <3>1. \A x \in LogAnalyses : Known(logAnalyses[x]) => LogOK(logAnalyses[x])
      BY <1>1 DEF LogsInv
    <3> QED
      BY <3>1, LogGrounded
  <2>2. \A x \in RiskAnalyses : Known(riskAnalyses[x]) =>
           LET row == riskAnalyses[x] IN
           /\ row.predicted <=> (row.band \in {"high", "critical"})
           /\ \A s \in row.signals : Support(s) <= Support(row.top)
           /\ row.version = IF row.outcome = Null THEN 1 ELSE 2
    BY <1>1 DEF RisksInv, RiskOK
  <2> QED
    BY ONLY <2>1, <2>2 DEF AnalysesAreGrounded
<1>5. CardsAreSnapshots
  BY <1>1 DEF CardsInv, CardOK, CardsAreSnapshots
<1> QED
  BY <1>1, <1>2, <1>3, <1>4, <1>5, AttemptsHold, ChatsHold DEF EvidenceIsGoverned

\* The inductive invariant.
THEOREM QualityInvariance == QualitySpec => []QualityInv
<1>1. QualityInit => QualityInv
  BY CatalogStarts, ExecutionsAreStarted, AiStarts DEF QualityInit, QualityInv
<1>2. QualityInv /\ [QualityNext]_qualityVars => QualityInv'
  BY QualityStep DEF QualityKeeps
<1> QED
  BY <1>1, <1>2, PTL DEF QualitySpec

\* Executions of campaigns are sound for any number of resources, requests
\* and steps: the aggregates that RefreshFaultAggregate and
\* RefreshMutationAggregate store are those of the results, coverage is that
\* of its definitions, and everything is composed of versions that were
\* active when it was read.
THEOREM ExecutionsHold == QualitySpec => []ExecutionsAreSound
<1>1. QualityInv => ExecutionsAreSound
  BY CatalogHolds, ExecutionInvHolds DEF QualityInv, ExecutionsAreSound
<1> QED
  BY <1>1, QualityInvariance, PTL

\* What the AI engine stores is governed for any requests, batches and
\* signals: three attempts at most as one history, restricted data on local
\* adapters only, conclusions that are in the stored evidence, conversations
\* in order, promotions of approved suggestions, and cards true to their
\* sources.
THEOREM EvidenceHolds == QualitySpec => []EvidenceIsGoverned
<1>1. QualityInv => EvidenceIsGoverned
  BY AiHolds DEF QualityInv
<1> QED
  BY <1>1, QualityInvariance, PTL

\* Decisions stand, for any number of records: a finished execution, a
\* succeeded analysis request, a rejected or promoted suggestion and a stored
\* card are never changed again, a governed resource keeps its references and
\* moves one version with every change of status, and suggestions activate no
\* definition.
THEOREM DecisionsHold == QualitySpec => DecisionsStand
<1>1. QualityInv /\ [QualityNext]_qualityVars =>
       [/\ \A e \in FaultExecutions :
             faultRuns[e] # NotStored /\ faultRuns[e].status \in Finished => faultRuns'[e] = faultRuns[e]
        /\ \A e \in MutationExecutions :
             mutationRuns[e] # NotStored /\ mutationRuns[e].status \in Finished => mutationRuns'[e] = mutationRuns[e]
        /\ \A r \in Governed : Stored(r) =>
             /\ catalog'[r].refs = catalog[r].refs
             /\ catalog'[r].version \in {catalog[r].version, catalog[r].version + 1}
             /\ catalog'[r].status = catalog[r].status <=> catalog'[r].version = catalog[r].version
        /\ \A r \in AiRequests :
             Known(aiRequests[r]) /\ aiRequests[r].status = "succeeded" => aiRequests'[r] = aiRequests[r]
        /\ \A x \in Suggestions :
             Known(suggestions[x]) /\ suggestions[x].status \in {"rejected", "promoted"} => suggestions'[x] = suggestions[x]
        /\ \A p \in Projections : Known(projections[p]) => projections'[p] = projections[p]
        /\ workload = "suggestion" => \A d \in Definitions : IsActive(d)' => IsActive(d)]_qualityVars
  <2> SUFFICES ASSUME QualityInv, [QualityNext]_qualityVars
               PROVE  /\ FaultsStand /\ MutationsStand /\ Advances
                      /\ \A r \in AiRequests :
                            Known(aiRequests[r]) /\ aiRequests[r].status = "succeeded" => aiRequests'[r] = aiRequests[r]
                      /\ \A x \in Suggestions :
                            Known(suggestions[x]) /\ suggestions[x].status \in {"rejected", "promoted"}
                              => suggestions'[x] = suggestions[x]
                      /\ ProjectionsKept /\ (workload = "suggestion" => DraftsOnly)
    BY DEF FaultsStand, MutationsStand, Advances, ProjectionsKept, DraftsOnly
  <2>1. QualityKeeps
    BY QualityStep
  <2>2. \A r \in AiRequests : Known(aiRequests[r]) /\ aiRequests[r].status = "succeeded" => aiRequests'[r] = aiRequests[r]
    BY <2>1 DEF QualityKeeps, RequestsKept
  <2>3. \A x \in Suggestions : Known(suggestions[x]) /\ suggestions[x].status \in {"rejected", "promoted"}
           => suggestions'[x] = suggestions[x]
    BY <2>1 DEF QualityKeeps, SuggestionsKept
  <2> QED
    BY <2>1, <2>2, <2>3 DEF QualityKeeps
<1> QED
  BY <1>1, QualityInvariance, PTL DEF QualitySpec, DecisionsStand

=============================================================================
