------------------------ MODULE TestExecutionProofs ------------------------
(* What TLAPS proves of test execution.  First, the safety of TestExecution   *)
(* for any sets of jobs, runs, clients and replicas, any batch size and any   *)
(* clock.  Second, of TestRunStream, for any number of cases, viewers and     *)
(* requests between commit and publication: the run is what its cases say, a  *)
(* finished run stays as it is, no view goes back and none misses the newest  *)
(* state while nothing fails.                                                 *)
EXTENDS TestExecution, TestRunStream, FiniteSetTheorems, TLAPS

\* The inductive invariant: the marks on jobs and the runs they own agree,
\* held rows are due and held once, and reservations are unique.  Each part
\* needs the others: CommitDispatch owns a run only because no other job
\* reserves it, and marks only rows that exist because the held ones are due.
IInv ==
    /\ TypeOK
    /\ DispatchCreatesItsRun
    /\ ClaimsAreExclusive
    /\ ReservationsUnique

USE DEF Times, Clients, Locked

LEMMA NullIsNoRow ==
    /\ None \notin JobRow
    /\ None \notin Jobs
    /\ Direct \notin Jobs
    /\ None # Direct
BY TestExecutionAssumption

\* Rows and reservations of a state that satisfies the type invariant.
LEMMA RowShape ==
    ASSUME TypeOK, NEW j \in Jobs, JobExists(j)
    PROVE  /\ jobs[j] \in JobRow
           /\ jobs[j].run \in RunIds
           /\ jobs[j].due \in Times
           /\ jobs[j].status \in JobStatus
           /\ jobs[j].version \in Nat
BY DEF TypeOK, JobExists, JobRow

LEMMA EmitType ==
    ASSUME TypeOK, NEW kinds
    PROVE  Emit(kinds) \in [EventKinds -> Nat]
BY DEF TypeOK, Emit

LEMMA InitHolds == Init => IInv
<1> SUFFICES ASSUME Init PROVE IInv
  OBVIOUS
<1> USE NullIsNoRow DEF Init
<1>1. TypeOK
  BY TestExecutionAssumption DEF TypeOK
<1>2. DispatchCreatesItsRun
  BY DEF DispatchCreatesItsRun, HasStatus, JobExists
<1>3. ClaimsAreExclusive
  BY DEF ClaimsAreExclusive
<1>4. ReservationsUnique
  BY DEF ReservationsUnique, JobExists
<1> QED
  BY <1>1, <1>2, <1>3, <1>4 DEF IInv

\* Steps that leave both tables and the locks alone keep the relations
\* between them.
LEMMA TablesUnchanged ==
    ASSUME IInv, TypeOK', UNCHANGED <<jobs, runs, batch>>, now' >= now
    PROVE  IInv'
<1> USE DEF IInv
<1>1. DispatchCreatesItsRun'
  BY DEF DispatchCreatesItsRun, HasStatus, JobExists
<1>2. ClaimsAreExclusive'
  <2>1. \A j \in Jobs : Due(j) => Due(j)'
    BY RowShape DEF Due, HasStatus, JobExists, TypeOK
  <2> QED
    BY <2>1 DEF ClaimsAreExclusive, TypeOK
<1>3. ReservationsUnique'
  BY DEF ReservationsUnique, JobExists
<1> QED
  BY <1>1, <1>2, <1>3

LEMMA ReadStep ==
    ASSUME IInv, NEW c \in Clients,
           \/ /\ c \in JobClients
              /\ \E j \in Jobs, r \in RunIds, d \in Times : BeginCreateJob(c, j, r, d)
           \/ /\ c \in JobClients
              /\ CheckRunOfJob(c)
           \/ /\ c \in RunClients
              /\ \E r \in RunIds : BeginCreateRun(c, r)
           \/ /\ c \in RunClients
              /\ CheckReservation(c)
           \/ AbortRequest(c)
    PROVE  IInv'
<1> USE TestExecutionAssumption
<1>0. UNCHANGED <<jobs, runs, batch, outbox, now>>
  BY DEF BeginCreateJob, CheckRunOfJob, BeginCreateRun, CheckReservation, AbortRequest
<1>1. \E t : /\ txn' = [txn EXCEPT ![c] = t]
             /\ c \in JobClients => t \in {Idle} \cup JobTxn
             /\ c \in RunClients => t \in {Idle} \cup RunTxn
  <2>1. CASE c \in JobClients /\ \E j \in Jobs, r \in RunIds, d \in Times : BeginCreateJob(c, j, r, d)
    <3> PICK j \in Jobs, r \in RunIds, d \in Times : BeginCreateJob(c, j, r, d)
      BY <2>1
    <3> WITNESS [step |-> "jobsChecked", job |-> j, run |-> r, due |-> d]
    <3> QED
      BY <2>1 DEF BeginCreateJob, JobTxn
  <2>2. CASE c \in JobClients /\ CheckRunOfJob(c)
    <3> DEFINE t == IF RunExists(txn[c].run) THEN Idle ELSE [txn[c] EXCEPT !.step = "insert"]
    <3>1. txn[c] \in JobTxn
      BY <2>2 DEF CheckRunOfJob, IInv, TypeOK, Idle
    <3>2. t \in {Idle} \cup JobTxn
      BY <3>1 DEF JobTxn
    <3> WITNESS t
    <3> QED
      BY <2>2, <3>2 DEF CheckRunOfJob
  <2>3. CASE c \in RunClients /\ \E r \in RunIds : BeginCreateRun(c, r)
    <3> PICK r \in RunIds : BeginCreateRun(c, r)
      BY <2>3
    <3> WITNESS [step |-> "runChecked", run |-> r]
    <3> QED
      BY <2>3 DEF BeginCreateRun, RunTxn
  <2>4. CASE c \in RunClients /\ CheckReservation(c)
    <3> DEFINE t == IF Reserved(txn[c].run) THEN Idle ELSE [txn[c] EXCEPT !.step = "insert"]
    <3>1. txn[c] \in RunTxn
      BY <2>4 DEF CheckReservation, IInv, TypeOK, Idle
    <3>2. t \in {Idle} \cup RunTxn
      BY <3>1 DEF RunTxn
    <3> WITNESS t
    <3> QED
      BY <2>4, <3>2 DEF CheckReservation
  <2>5. CASE AbortRequest(c)
    <3> WITNESS Idle
    <3> QED
      BY <2>5 DEF AbortRequest
  <2> QED
    BY <2>1, <2>2, <2>3, <2>4, <2>5
<1>2. TypeOK'
  BY <1>0, <1>1 DEF IInv, TypeOK
<1>3. now' >= now
  BY <1>0 DEF IInv, TypeOK
<1> QED
  BY <1>0, <1>2, <1>3, TablesUnchanged

LEMMA InsertJobStep ==
    ASSUME IInv, NEW c \in JobClients, InsertJob(c)
    PROVE  IInv'
<1> USE NullIsNoRow DEF IInv
<1>1. txn[c] \in JobTxn
  BY DEF InsertJob, TypeOK, Idle
<1>2. UNCHANGED <<runs, batch, now>> /\ txn' = [txn EXCEPT ![c] = Idle]
  BY DEF InsertJob
<1>3. CASE UNCHANGED jobs
  <2>1. TypeOK'
    BY <1>2, <1>3, EmitType DEF TypeOK, InsertJob
  <2>2. now' >= now
    BY <1>2 DEF TypeOK
  <2> QED
    BY <1>2, <1>3, <2>1, <2>2, TablesUnchanged
<1>4. CASE ~UNCHANGED jobs
  <2> DEFINE row == [run |-> txn[c].run, due |-> txn[c].due,
                     status |-> "scheduled", version |-> 1]
             new == txn[c].job
  <2>1. /\ new \in Jobs
        /\ row \in JobRow
        /\ row.status = "scheduled" /\ row.run = txn[c].run
    BY <1>1 DEF JobTxn, JobRow, JobStatus
  <2>2. /\ ~JobExists(new)
        /\ ~Reserved(row.run)
        /\ jobs' = [jobs EXCEPT ![new] = row]
        /\ outbox' = Emit({<<"scheduled", new>>})
    BY <1>4 DEF InsertJob
  <2> HIDE DEF row, new
  <2>3. /\ \A j \in Jobs \ {new} : jobs'[j] = jobs[j]
        /\ jobs'[new] = row
    BY <2>1, <2>2 DEF TypeOK
  <2>4. TypeOK'
    BY <1>2, <2>1, <2>2, EmitType DEF TypeOK
  <2>5. DispatchCreatesItsRun'
    BY <1>2, <2>1, <2>2, <2>3 DEF DispatchCreatesItsRun, HasStatus, JobExists, TypeOK
  <2>6. ClaimsAreExclusive'
    BY <1>2, <2>2, <2>3 DEF ClaimsAreExclusive, Due, HasStatus, JobExists, TypeOK
  <2>7. ReservationsUnique'
    BY <2>1, <2>2, <2>3 DEF ReservationsUnique, Reserved, JobExists
  <2> QED
    BY <2>4, <2>5, <2>6, <2>7
<1> QED
  BY <1>3, <1>4

LEMMA InsertRunStep ==
    ASSUME IInv, NEW c \in RunClients, InsertRun(c)
    PROVE  IInv'
<1> USE NullIsNoRow DEF IInv
<1>1. UNCHANGED <<jobs, batch, now>> /\ txn' = [txn EXCEPT ![c] = Idle]
  BY DEF InsertRun
<1>2. txn[c] \in RunTxn
  BY DEF InsertRun, TypeOK, Idle
<1>3. /\ runs' \in [RunIds -> Jobs \cup {Direct, None}]
      /\ \A r \in RunIds : runs'[r] = runs[r] \/ (runs[r] = None /\ runs'[r] = Direct)
  BY <1>2 DEF InsertRun, RunTxn, TypeOK, RunExists
<1>4. TypeOK'
  BY <1>1, <1>3, EmitType DEF TypeOK, InsertRun
<1>5. DispatchCreatesItsRun'
  BY <1>1, <1>3, RowShape DEF DispatchCreatesItsRun, HasStatus, JobExists
<1>6. ClaimsAreExclusive' /\ ReservationsUnique'
  BY <1>1 DEF ClaimsAreExclusive, Due, HasStatus, ReservationsUnique, JobExists
<1> QED
  BY <1>4, <1>5, <1>6

LEMMA CancelStep ==
    ASSUME IInv, NEW j \in Jobs, NEW v \in 1 .. 2, CancelJob(j, v)
    PROVE  IInv'
<1> USE NullIsNoRow DEF IInv
<1>1. /\ jobs[j] \in JobRow
      /\ jobs[j].status = "scheduled"
      /\ j \notin Locked
      /\ UNCHANGED <<runs, txn, batch, now>>
  BY RowShape DEF CancelJob
<1>2. /\ \A k \in Jobs \ {j} : jobs'[k] = jobs[k]
      /\ jobs'[j] \in JobRow
      /\ jobs'[j].status = "cancelled"
      /\ jobs'[j].run = jobs[j].run
  BY <1>1 DEF CancelJob, TypeOK, JobRow, JobStatus
<1>3. TypeOK'
  BY <1>1, <1>2, EmitType DEF CancelJob, TypeOK
<1>4. /\ ~HasStatus(j, "dispatched") /\ ~HasStatus(j, "dispatched")'
      /\ \A k \in Jobs \ {j} : /\ HasStatus(k, "dispatched")' <=> HasStatus(k, "dispatched")
                             /\ Due(k)' <=> Due(k)
  BY <1>1, <1>2 DEF HasStatus, JobExists, Due
<1>5. DispatchCreatesItsRun'
  <2>1. ASSUME NEW k \in Jobs
        PROVE  runs' = runs /\ jobs'[k].run = jobs[k].run
    <3>1. CASE k = j
      BY <1>1, <1>2, <3>1
    <3>2. CASE k # j
      BY <1>1, <1>2, <3>2
    <3> QED
      BY <3>1, <3>2
  <2>2. ASSUME NEW k \in Jobs
        PROVE  HasStatus(k, "dispatched")' <=> HasStatus(k, "dispatched")
    <3>1. CASE k = j
      BY <1>1, <1>2, <3>1 DEF HasStatus
    <3>2. CASE k # j
      BY <1>2, <3>2 DEF HasStatus, JobExists
    <3> QED
      BY <3>1, <3>2
  <2> QED
    BY <2>1, <2>2 DEF DispatchCreatesItsRun, HasStatus, JobExists
<1>7. ClaimsAreExclusive'
  BY <1>1, <1>4 DEF ClaimsAreExclusive, TypeOK
<1>6. ReservationsUnique'
  BY <1>1, <1>2 DEF ReservationsUnique, JobExists
<1> QED
  BY <1>3, <1>5, <1>6, <1>7

LEMMA SelectStep ==
    ASSUME IInv, NEW s \in Schedulers, SelectDue(s)
    PROVE  IInv'
<1> USE DEF IInv
<1>1. UNCHANGED <<jobs, runs, txn, outbox, now>>
  BY DEF SelectDue
<1>2. PICK B \in SUBSET {j \in Jobs : Due(j) /\ j \notin Locked} :
           batch' = [batch EXCEPT ![s] = B]
  BY DEF SelectDue
<1>3. TypeOK'
  BY <1>1, <1>2 DEF TypeOK
<1>4. DispatchCreatesItsRun' /\ ReservationsUnique'
  BY <1>1 DEF DispatchCreatesItsRun, HasStatus, ReservationsUnique, JobExists
<1>5. ClaimsAreExclusive'
  <2>1. /\ \A t \in Schedulers \ {s} : batch'[t] = batch[t]
        /\ batch'[s] = B
    BY <1>2 DEF TypeOK
  <2>2. \A j \in Jobs : Due(j)' <=> Due(j)
    BY <1>1 DEF Due, HasStatus, JobExists
  <2> QED
    BY <1>2, <2>1, <2>2 DEF ClaimsAreExclusive, TypeOK
<1> QED
  BY <1>3, <1>4, <1>5

\* FailDispatch and CrashScheduler: the transaction is gone, its locks with it.
LEMMA RollbackStep ==
    ASSUME IInv, NEW s \in Schedulers, FailDispatch(s) \/ CrashScheduler(s)
    PROVE  IInv'
<1> USE DEF IInv
<1>1. UNCHANGED <<jobs, runs, txn, outbox, now>> /\ batch' = [batch EXCEPT ![s] = {}]
  BY DEF FailDispatch, CrashScheduler
<1>2. TypeOK'
  BY <1>1 DEF TypeOK
<1>3. DispatchCreatesItsRun' /\ ReservationsUnique'
  BY <1>1 DEF DispatchCreatesItsRun, HasStatus, ReservationsUnique, JobExists
<1>4. ClaimsAreExclusive'
  BY <1>1 DEF ClaimsAreExclusive, Due, HasStatus, JobExists, TypeOK
<1> QED
  BY <1>2, <1>3, <1>4

LEMMA CommitStep ==
    ASSUME IInv, NEW s \in Schedulers, CommitDispatch(s)
    PROVE  IInv'
<1> USE NullIsNoRow DEF IInv
<1>1. \A j \in batch[s] : /\ j \in Jobs
                          /\ jobs[j] \in JobRow
                          /\ jobs[j].status = "scheduled"
                          /\ ~RunExists(jobs[j].run)
  <2> SUFFICES ASSUME NEW j \in batch[s]
               PROVE  /\ j \in Jobs
                      /\ jobs[j] \in JobRow
                      /\ jobs[j].status = "scheduled"
                      /\ ~RunExists(jobs[j].run)
    OBVIOUS
  <2>1. j \in Jobs /\ Due(j)
    BY DEF ClaimsAreExclusive, TypeOK
  <2> QED
    BY <2>1, RowShape DEF CommitDispatch, Due, HasStatus
<1>2. \A j \in Jobs :
         /\ j \notin batch[s] => jobs'[j] = jobs[j]
         /\ j \in batch[s] => /\ jobs'[j] \in JobRow
                               /\ jobs'[j].status = "dispatched"
                               /\ jobs'[j].run = jobs[j].run
  <2> SUFFICES ASSUME NEW j \in Jobs
               PROVE  /\ j \notin batch[s] => jobs'[j] = jobs[j]
                      /\ j \in batch[s] => /\ jobs'[j] \in JobRow
                                            /\ jobs'[j].status = "dispatched"
                                            /\ jobs'[j].run = jobs[j].run
    OBVIOUS
  <2>1. jobs'[j] = IF j \in batch[s]
                   THEN [jobs[j] EXCEPT !.status = "dispatched", !.version = @ + 1]
                   ELSE jobs[j]
    BY DEF CommitDispatch
  <2>2. CASE j \in batch[s]
    <3>1. jobs'[j] = [run |-> jobs[j].run, due |-> jobs[j].due,
                      status |-> "dispatched", version |-> jobs[j].version + 1]
      BY <1>1, <2>1, <2>2 DEF JobRow
    <3> QED
      BY <1>1, <2>2, <3>1 DEF JobRow, JobStatus
  <2>3. CASE j \notin batch[s]
    BY <2>1, <2>3
  <2> QED
    BY <2>2, <2>3
<1>3. \A r \in RunIds :
         /\ \A j \in batch[s] : jobs[j].run = r => runs'[r] = j
         /\ (\A j \in batch[s] : jobs[j].run # r) => runs'[r] = runs[r]
  <2> SUFFICES ASSUME NEW r \in RunIds
               PROVE  /\ \A j \in batch[s] : jobs[j].run = r => runs'[r] = j
                      /\ (\A j \in batch[s] : jobs[j].run # r) => runs'[r] = runs[r]
    OBVIOUS
  <2>1. \A j, k \in batch[s] : jobs[j].run = jobs[k].run => j = k
    BY <1>1 DEF ReservationsUnique, JobExists
  <2> QED
    BY <2>1 DEF CommitDispatch
<1>4. batch' = [batch EXCEPT ![s] = {}] /\ UNCHANGED <<txn, now>>
  BY DEF CommitDispatch
<1>5. TypeOK'
  <2>1. jobs' \in [Jobs -> JobRow \cup {None}]
    BY <1>2 DEF CommitDispatch, TypeOK
  <2>2. runs' \in [RunIds -> Jobs \cup {Direct, None}]
    BY <1>1, <1>3 DEF CommitDispatch, TypeOK
  <2>3. outbox' \in [EventKinds -> Nat]
    BY EmitType DEF CommitDispatch
  <2> QED
    BY <1>4, <2>1, <2>2, <2>3 DEF TypeOK
<1>6. DispatchCreatesItsRun'
  <2>1. ASSUME NEW j \in Jobs, HasStatus(j, "dispatched")'
        PROVE  runs'[jobs'[j].run] = j
    <3>1. CASE j \in batch[s]
      BY <1>1, <1>2, <1>3, <3>1 DEF JobRow
    <3>2. CASE j \notin batch[s]
      <4>1. HasStatus(j, "dispatched") /\ jobs'[j] = jobs[j] /\ jobs[j].run \in RunIds
        BY <1>2, <2>1, <3>2, RowShape DEF HasStatus, JobExists
      <4>2. runs[jobs[j].run] = j
        BY <4>1 DEF DispatchCreatesItsRun
      <4>3. \A k \in batch[s] : jobs[k].run # jobs[j].run
        BY <1>1, <4>2 DEF RunExists
      <4> QED
        BY <1>3, <4>1, <4>2, <4>3
    <3> QED
      BY <3>1, <3>2
  <2>2. ASSUME NEW r \in RunIds, NEW j \in Jobs, runs'[r] = j
        PROVE  HasStatus(j, "dispatched")' /\ jobs'[j].run = r
    <3>1. CASE \E k \in batch[s] : jobs[k].run = r
      BY <1>1, <1>2, <1>3, <2>2, <3>1 DEF HasStatus, JobExists
    <3>2. CASE \A k \in batch[s] : jobs[k].run # r
      BY <1>1, <1>2, <1>3, <2>2, <3>2 DEF DispatchCreatesItsRun, HasStatus, JobExists
    <3> QED
      BY <3>1, <3>2
  <2> QED
    BY <2>1, <2>2 DEF DispatchCreatesItsRun
<1>7. ClaimsAreExclusive'
  BY <1>2, <1>4 DEF ClaimsAreExclusive, Due, HasStatus, JobExists, TypeOK
<1>8. ReservationsUnique'
  BY <1>1, <1>2 DEF ReservationsUnique, JobExists
<1> QED
  BY <1>5, <1>6, <1>7, <1>8

LEMMA TickStep ==
    ASSUME IInv, Tick
    PROVE  IInv'
<1>1. TypeOK'
  BY TestExecutionAssumption DEF Tick, IInv, TypeOK
<1>2. UNCHANGED <<jobs, runs, batch>> /\ now' >= now
  BY DEF Tick, IInv, TypeOK
<1> QED
  BY <1>1, <1>2, TablesUnchanged

LEMMA StutterStep ==
    ASSUME IInv, UNCHANGED vars
    PROVE  IInv'
<1>1. TypeOK' /\ now' >= now
  BY DEF vars, IInv, TypeOK
<1> QED
  BY <1>1, TablesUnchanged DEF vars

LEMMA StepHolds ==
    ASSUME IInv, [Next]_vars
    PROVE  IInv'
<1>1. CASE \E c \in JobClients : JobRequest(c)
  BY <1>1, ReadStep, InsertJobStep DEF JobRequest
<1>2. CASE \E c \in RunClients : RunRequest(c)
  BY <1>2, ReadStep, InsertRunStep DEF RunRequest
<1>3. CASE \E j \in Jobs, v \in 1 .. 2 : CancelJob(j, v)
  BY <1>3, CancelStep
<1>4. CASE \E s \in Schedulers : Dispatch(s) \/ CrashScheduler(s)
  BY <1>4, SelectStep, CommitStep, RollbackStep DEF Dispatch
<1>5. CASE Tick
  BY <1>5, TickStep
<1>6. CASE UNCHANGED vars
  BY <1>6, StutterStep
<1> QED
  BY <1>1, <1>2, <1>3, <1>4, <1>5, <1>6 DEF Next

\* The strengthening of everything below.
THEOREM Invariance == Spec => []IInv
<1>1. Init => IInv
  BY InitHolds
<1>2. IInv /\ [Next]_vars => IInv'
  BY StepHolds
<1> QED
  BY <1>1, <1>2, PTL DEF Spec

\* Type correctness: the two tables, the open requests and the held rows
\* keep their shape in every reachable state.
THEOREM TypeCorrect == Spec => []TypeOK
BY Invariance, PTL DEF IInv

\* dispatch_due_test_jobs is exactly-once and all-or-nothing for any number
\* of replicas, clients, crashes and failed batches.
THEOREM DispatchExactlyOnce == Spec => []DispatchCreatesItsRun
BY Invariance, PTL DEF IInv

\* FOR UPDATE SKIP LOCKED gives every due job to at most one replica, and a
\* held job stays scheduled and due until its holder commits or rolls back.
THEOREM ExclusiveClaims == Spec => []ClaimsAreExclusive
BY Invariance, PTL DEF IInv

\* create_test_job never lets two jobs reserve one run_id.
THEOREM UniqueReservations == Spec => []ReservationsUnique
BY Invariance, PTL DEF IInv

\* A settled job is never touched again, a run is never re-inserted or
\* re-owned, and a job is dispatched only once it is due: cancellation and
\* dispatch never both take effect.
THEOREM SettledForEver == Spec => Settled
<1> DEFINE Keeps ==
      /\ \A j \in Jobs : JobExists(j) /\ jobs[j].status # "scheduled" => jobs'[j] = jobs[j]
      /\ \A r \in RunIds : RunExists(r) => runs'[r] = runs[r]
      /\ \A j \in Jobs : HasStatus(j, "dispatched")' /\ ~HasStatus(j, "dispatched") =>
             jobs[j].due <= now
<1>1. ASSUME IInv, [Next]_vars
      PROVE  Keeps
  <2> USE <1>1, NullIsNoRow DEF IInv
  <2>1. CASE UNCHANGED <<jobs, runs>>
    BY <2>1 DEF HasStatus, JobExists
  <2>2. ASSUME NEW c \in JobClients, InsertJob(c)
        PROVE  Keeps
    <3>1. CASE UNCHANGED jobs
      BY <2>1, <2>2, <3>1 DEF InsertJob
    <3>2. CASE ~UNCHANGED jobs
      <4>1. /\ txn[c].job \in Jobs
            /\ ~JobExists(txn[c].job)
            /\ jobs'[txn[c].job].status = "scheduled"
            /\ \A j \in Jobs : j # txn[c].job => jobs'[j] = jobs[j]
            /\ runs' = runs
        BY <2>2, <3>2 DEF InsertJob, TypeOK, Idle, JobTxn
      <4> QED
        BY <4>1 DEF HasStatus, JobExists
    <3> QED
      BY <3>1, <3>2
  <2>3. ASSUME NEW c \in RunClients, InsertRun(c)
        PROVE  Keeps
    <3>1. UNCHANGED jobs /\ \A r \in RunIds : RunExists(r) => runs'[r] = runs[r]
      BY <2>3 DEF InsertRun, TypeOK, RunExists
    <3> QED
      BY <3>1 DEF HasStatus, JobExists
  <2>4. ASSUME NEW k \in Jobs, NEW v \in 1 .. 2, CancelJob(k, v)
        PROVE  Keeps
    <3>1. /\ jobs[k].status = "scheduled"
          /\ jobs'[k].status = "cancelled"
          /\ \A j \in Jobs : j # k => jobs'[j] = jobs[j]
          /\ runs' = runs
      BY <2>4, RowShape DEF CancelJob, TypeOK, JobRow
    <3> QED
      BY <3>1 DEF HasStatus, JobExists
  <2>5. ASSUME NEW s \in Schedulers, CommitDispatch(s)
        PROVE  Keeps
    <3>1. \A j \in batch[s] : Due(j)
      BY DEF ClaimsAreExclusive
    <3>2. \A j \in Jobs : j \notin batch[s] => jobs'[j] = jobs[j]
      BY <2>5 DEF CommitDispatch
    <3>3. \A r \in RunIds : RunExists(r) => runs'[r] = runs[r]
      BY <2>5 DEF CommitDispatch
    <3> QED
      BY <3>1, <3>2, <3>3 DEF Due, HasStatus, JobExists
  <2>6. ASSUME NEW c \in Clients, AbortRequest(c)
        PROVE  Keeps
    BY <2>1, <2>6 DEF AbortRequest
  <2>7. CASE \E c \in JobClients : JobRequest(c)
    BY <2>1, <2>2, <2>6, <2>7 DEF JobRequest, BeginCreateJob, CheckRunOfJob
  <2>8. CASE \E c \in RunClients : RunRequest(c)
    BY <2>1, <2>3, <2>6, <2>8 DEF RunRequest, BeginCreateRun, CheckReservation
  <2>9. CASE \E s \in Schedulers : Dispatch(s) \/ CrashScheduler(s)
    BY <2>1, <2>5, <2>9 DEF Dispatch, SelectDue, FailDispatch, CrashScheduler
  <2>10. CASE Tick
    BY <2>1, <2>10 DEF Tick
  <2>11. CASE UNCHANGED vars
    BY <2>1, <2>11 DEF vars
  <2> QED
    BY <2>4, <2>7, <2>8, <2>9, <2>10, <2>11 DEF Next
<1>2. IInv /\ [Next]_vars => [Keeps]_vars
  BY <1>1
<1> QED
  BY <1>2, Invariance, PTL DEF Spec, Settled

-----------------------------------------------------------------------------
(* Evidence *)

\* Events that record exactly what a step changed keep the counts.
LEMMA CountsFollow ==
    ASSUME EvidenceCounted, NEW kinds, outbox' = Emit(kinds),
           \A j \in Jobs :
             /\ <<"scheduled", j>> \in kinds => ~JobExists(j)
             /\ JobExists(j)' <=> JobExists(j) \/ <<"scheduled", j>> \in kinds,
           \A j \in Jobs, s \in {"dispatched", "cancelled"} :
             /\ <<s, j>> \in kinds => ~HasStatus(j, s)
             /\ HasStatus(j, s)' <=> HasStatus(j, s) \/ <<s, j>> \in kinds,
           \A r \in RunIds :
             /\ <<"created", r>> \in kinds => ~RunExists(r)
             /\ RunExists(r)' <=> RunExists(r) \/ <<"created", r>> \in kinds
    PROVE  EvidenceCounted'
<1>1. \A k \in EventKinds : outbox'[k] = outbox[k] + (IF k \in kinds THEN 1 ELSE 0)
  BY DEF Emit
<1>2. ASSUME NEW j \in Jobs
      PROVE  outbox'[<<"scheduled", j>>] = IF JobExists(j)' THEN 1 ELSE 0
  <2>1. <<"scheduled", j>> \in EventKinds
    BY DEF EventKinds
  <2> QED
    BY <1>1, <2>1 DEF EvidenceCounted
<1>3. ASSUME NEW j \in Jobs, NEW s \in {"dispatched", "cancelled"}
      PROVE  outbox'[<<s, j>>] = IF HasStatus(j, s)' THEN 1 ELSE 0
  <2>1. outbox'[<<s, j>>] = outbox[<<s, j>>] + (IF <<s, j>> \in kinds THEN 1 ELSE 0)
    BY <1>1 DEF EventKinds
  <2>2. outbox[<<s, j>>] = IF HasStatus(j, s) THEN 1 ELSE 0
    BY DEF EvidenceCounted
  <2>3. /\ <<s, j>> \in kinds => ~HasStatus(j, s)
        /\ HasStatus(j, s)' <=> HasStatus(j, s) \/ <<s, j>> \in kinds
    OBVIOUS
  <2> QED
    BY <2>1, <2>2, <2>3
<1>4. ASSUME NEW r \in RunIds
      PROVE  outbox'[<<"created", r>>] = IF RunExists(r)' THEN 1 ELSE 0
  <2>1. <<"created", r>> \in EventKinds
    BY DEF EventKinds
  <2> QED
    BY <1>1, <2>1 DEF EvidenceCounted
<1> QED
  BY <1>2, <1>3, <1>4 DEF EvidenceCounted

LEMMA NothingCounted ==
    ASSUME EvidenceCounted, UNCHANGED <<jobs, runs, outbox>>
    PROVE  EvidenceCounted'
BY DEF EvidenceCounted, HasStatus, JobExists, RunExists

LEMMA InsertJobCounted ==
    ASSUME IInv, EvidenceCounted, NEW c \in JobClients, InsertJob(c)
    PROVE  EvidenceCounted'
<1> USE NullIsNoRow DEF IInv
<1>1. runs' = runs
  BY DEF InsertJob
<1>2. CASE UNCHANGED <<jobs, outbox>>
  BY <1>1, <1>2, NothingCounted
<1>3. CASE ~UNCHANGED <<jobs, outbox>>
  <2>1. txn[c] \in JobTxn
    BY DEF InsertJob, TypeOK, Idle
  <2>2. PICK new \in Jobs, row \in JobRow :
          /\ row.status = "scheduled"
          /\ ~JobExists(new)
          /\ jobs' = [jobs EXCEPT ![new] = row]
          /\ outbox' = Emit({<<"scheduled", new>>})
    <3> DEFINE row == [run |-> txn[c].run, due |-> txn[c].due,
                       status |-> "scheduled", version |-> 1]
    <3>1. txn[c].job \in Jobs /\ row \in JobRow /\ row.status = "scheduled"
      BY <2>1 DEF JobTxn, JobRow, JobStatus
    <3>2. /\ ~JobExists(txn[c].job)
          /\ jobs' = [jobs EXCEPT ![txn[c].job] = row]
          /\ outbox' = Emit({<<"scheduled", txn[c].job>>})
      BY <1>3 DEF InsertJob
    <3> HIDE DEF row
    <3> QED
      BY <3>1, <3>2
  <2>3. /\ jobs'[new] = row /\ row # None
        /\ \A j \in Jobs \ {new} : jobs'[j] = jobs[j]
    BY <2>2 DEF TypeOK
  <2>4. ASSUME NEW j \in Jobs
        PROVE  /\ <<"scheduled", j>> \in {<<"scheduled", new>>} => ~JobExists(j)
               /\ JobExists(j)' <=> JobExists(j) \/ <<"scheduled", j>> \in {<<"scheduled", new>>}
    <3>1. CASE j = new
      BY <2>2, <2>3, <3>1 DEF JobExists
    <3>2. CASE j # new
      BY <2>3, <3>2 DEF JobExists
    <3> QED
      BY <3>1, <3>2
  <2>5. ASSUME NEW j \in Jobs, NEW s \in {"dispatched", "cancelled"}
        PROVE  HasStatus(j, s)' <=> HasStatus(j, s)
    <3>1. CASE j = new
      BY <2>2, <2>3, <3>1 DEF HasStatus
    <3>2. CASE j # new
      BY <2>3, <3>2 DEF JobExists, HasStatus
    <3> QED
      BY <3>1, <3>2
  <2>6. \A r \in RunIds : RunExists(r)' <=> RunExists(r)
    BY <1>1 DEF RunExists
  <2> QED
    BY <2>2, <2>4, <2>5, <2>6, CountsFollow
<1> QED
  BY <1>2, <1>3

LEMMA InsertRunCounted ==
    ASSUME IInv, EvidenceCounted, NEW c \in RunClients, InsertRun(c)
    PROVE  EvidenceCounted'
<1> USE NullIsNoRow DEF IInv
<1>1. jobs' = jobs
  BY DEF InsertRun
<1>2. CASE UNCHANGED <<runs, outbox>>
  BY <1>1, <1>2, NothingCounted
<1>3. CASE ~UNCHANGED <<runs, outbox>>
  <2>1. PICK new \in RunIds :
          /\ ~RunExists(new)
          /\ runs' = [runs EXCEPT ![new] = Direct]
          /\ outbox' = Emit({<<"created", new>>})
    <3>1. txn[c].run \in RunIds
      BY DEF InsertRun, TypeOK, Idle, RunTxn
    <3> QED
      BY <1>3, <3>1 DEF InsertRun
  <2>2. runs'[new] = Direct /\ \A r \in RunIds \ {new} : runs'[r] = runs[r]
    BY <2>1 DEF TypeOK
  <2>3. ASSUME NEW r \in RunIds
        PROVE  /\ <<"created", r>> \in {<<"created", new>>} => ~RunExists(r)
               /\ RunExists(r)' <=> RunExists(r) \/ <<"created", r>> \in {<<"created", new>>}
    <3>1. CASE r = new
      BY <2>1, <2>2, <3>1 DEF RunExists
    <3>2. CASE r # new
      BY <2>2, <3>2 DEF RunExists
    <3> QED
      BY <3>1, <3>2
  <2>4. \A j \in Jobs : /\ JobExists(j)' <=> JobExists(j)
                        /\ \A s \in {"dispatched", "cancelled"} : HasStatus(j, s)' <=> HasStatus(j, s)
    BY <1>1 DEF JobExists, HasStatus
  <2> QED
    BY <2>1, <2>3, <2>4, CountsFollow
<1> QED
  BY <1>2, <1>3

LEMMA CancelCounted ==
    ASSUME IInv, EvidenceCounted, NEW j \in Jobs, NEW v \in 1 .. 2, CancelJob(j, v)
    PROVE  EvidenceCounted'
<1> USE NullIsNoRow DEF IInv
<1>1. /\ jobs[j] \in JobRow /\ jobs[j].status = "scheduled"
      /\ runs' = runs /\ outbox' = Emit({<<"cancelled", j>>})
  BY RowShape DEF CancelJob
<1>2. /\ \A k \in Jobs \ {j} : jobs'[k] = jobs[k]
      /\ jobs'[j] \in JobRow /\ jobs'[j].status = "cancelled"
  BY <1>1 DEF CancelJob, TypeOK, JobRow, JobStatus
<1>3. \A k \in Jobs : JobExists(k)' <=> JobExists(k)
  BY <1>1, <1>2 DEF JobExists
<1>4. ASSUME NEW k \in Jobs, NEW s \in {"dispatched", "cancelled"}
      PROVE  /\ <<s, k>> \in {<<"cancelled", j>>} => ~HasStatus(k, s)
             /\ HasStatus(k, s)' <=> HasStatus(k, s) \/ <<s, k>> \in {<<"cancelled", j>>}
  <2>1. CASE k = j
    BY <1>1, <1>2, <2>1 DEF HasStatus, JobExists
  <2>2. CASE k # j
    BY <1>2, <2>2 DEF HasStatus, JobExists
  <2> QED
    BY <2>1, <2>2
<1>5. \A r \in RunIds : RunExists(r)' <=> RunExists(r)
  BY <1>1 DEF RunExists
<1> QED
  BY <1>1, <1>3, <1>4, <1>5, CountsFollow

LEMMA CommitCounted ==
    ASSUME IInv, EvidenceCounted, NEW s \in Schedulers, CommitDispatch(s)
    PROVE  EvidenceCounted'
<1> USE NullIsNoRow DEF IInv
<1> DEFINE kinds == UNION {{<<"created", jobs[j].run>>, <<"dispatched", j>>} : j \in batch[s]}
<1>1. \A j \in batch[s] : /\ j \in Jobs /\ jobs[j] \in JobRow
                          /\ jobs[j].status = "scheduled" /\ ~RunExists(jobs[j].run)
  <2>1. \A j \in batch[s] : j \in Jobs /\ Due(j)
    BY DEF ClaimsAreExclusive, TypeOK
  <2> QED
    BY <2>1, RowShape DEF CommitDispatch, Due, HasStatus
<1>2. /\ \A j \in Jobs : <<"scheduled", j>> \notin kinds
      /\ \A j \in Jobs : <<"cancelled", j>> \notin kinds
      /\ \A j \in Jobs : <<"dispatched", j>> \in kinds <=> j \in batch[s]
      /\ \A r \in RunIds : <<"created", r>> \in kinds <=> \E j \in batch[s] : jobs[j].run = r
  OBVIOUS
<1>3. outbox' = Emit(kinds)
  BY DEF CommitDispatch
<1> HIDE DEF kinds
<1>4. \A j \in Jobs : /\ j \notin batch[s] => jobs'[j] = jobs[j]
                      /\ j \in batch[s] => JobExists(j) /\ JobExists(j)' /\ jobs'[j].status = "dispatched"
  <2> SUFFICES ASSUME NEW j \in Jobs
               PROVE  /\ j \notin batch[s] => jobs'[j] = jobs[j]
                      /\ j \in batch[s] => JobExists(j) /\ JobExists(j)' /\ jobs'[j].status = "dispatched"
    OBVIOUS
  <2>1. jobs'[j] = IF j \in batch[s]
                   THEN [jobs[j] EXCEPT !.status = "dispatched", !.version = @ + 1]
                   ELSE jobs[j]
    BY DEF CommitDispatch
  <2>2. CASE j \in batch[s]
    <3>1. jobs'[j] = [run |-> jobs[j].run, due |-> jobs[j].due,
                      status |-> "dispatched", version |-> jobs[j].version + 1]
      BY <1>1, <2>1, <2>2 DEF JobRow
    <3>2. jobs'[j] \in JobRow
      BY <1>1, <2>2, <3>1 DEF JobRow, JobStatus
    <3> QED
      BY <1>1, <2>2, <3>1, <3>2 DEF JobExists
  <2> QED
    BY <2>1, <2>2
<1>5. \A r \in RunIds : runs'[r] = IF \E j \in batch[s] : jobs[j].run = r
                                 THEN CHOOSE j \in batch[s] : jobs[j].run = r ELSE runs[r]
  BY DEF CommitDispatch
<1>6. \A j \in Jobs : JobExists(j)' <=> JobExists(j)
  BY <1>4 DEF JobExists
<1>7. ASSUME NEW j \in Jobs, NEW t \in {"dispatched", "cancelled"}
      PROVE  /\ <<t, j>> \in kinds => ~HasStatus(j, t)
             /\ HasStatus(j, t)' <=> HasStatus(j, t) \/ <<t, j>> \in kinds
  <2>1. CASE j \in batch[s]
    BY <1>1, <1>2, <1>4, <2>1 DEF HasStatus
  <2>2. CASE j \notin batch[s]
    BY <1>2, <1>4, <2>2 DEF HasStatus, JobExists
  <2> QED
    BY <2>1, <2>2
<1>8. ASSUME NEW r \in RunIds
      PROVE  /\ <<"created", r>> \in kinds => ~RunExists(r)
             /\ RunExists(r)' <=> RunExists(r) \/ <<"created", r>> \in kinds
  <2>1. CASE \E j \in batch[s] : jobs[j].run = r
    BY <1>1, <1>2, <1>5, <2>1 DEF RunExists
  <2>2. CASE ~\E j \in batch[s] : jobs[j].run = r
    BY <1>2, <1>5, <2>2 DEF RunExists
  <2> QED
    BY <2>1, <2>2
<1> QED
  BY <1>2, <1>3, <1>6, <1>7, <1>8, CountsFollow

\* Every committed change of a job or a run left exactly one event in the
\* outbox and every rolled back one none, for any number of lost races,
\* failed batches and killed replicas.
THEOREM ExactEvidence == Spec => []EvidenceExact
<1>1. Init => EvidenceCounted
  BY NullIsNoRow DEF Init, EvidenceCounted, EventKinds, HasStatus, JobExists, RunExists
<1>2. ASSUME IInv, EvidenceCounted, [Next]_vars
      PROVE  EvidenceCounted'
  <2> USE <1>2
  <2>1. CASE \E c \in JobClients : JobRequest(c)
    BY <2>1, InsertJobCounted, NothingCounted
       DEF JobRequest, BeginCreateJob, CheckRunOfJob, AbortRequest
  <2>2. CASE \E c \in RunClients : RunRequest(c)
    BY <2>2, InsertRunCounted, NothingCounted
       DEF RunRequest, BeginCreateRun, CheckReservation, AbortRequest
  <2>3. CASE \E j \in Jobs, v \in 1 .. 2 : CancelJob(j, v)
    BY <2>3, CancelCounted
  <2>4. CASE \E s \in Schedulers : Dispatch(s) \/ CrashScheduler(s)
    BY <2>4, CommitCounted, NothingCounted
       DEF Dispatch, SelectDue, FailDispatch, CrashScheduler
  <2>5. CASE Tick \/ UNCHANGED vars
    BY <2>5, NothingCounted DEF Tick, vars
  <2> QED
    BY <2>1, <2>2, <2>3, <2>4, <2>5 DEF Next
<1>3. IInv /\ EvidenceCounted => EvidenceExact
  BY DEF IInv, EvidenceExact
<1> QED
  BY <1>1, <1>2, <1>3, Invariance, PTL DEF Spec
HIDE DEF Times, Clients, Locked

-----------------------------------------------------------------------------
(* The run and its cases                                                     *)

\* How many cases of the run's suite are complete, in percent and cut down.
Share(k, n) == (k * 100) \div n

\* The inductive invariant of the run: beside RunIsDerived, a queued run has no
\* progress and an unfinished catalog run none beyond its complete cases.
LifecycleInv ==
    /\ LifecycleTypeOK
    /\ RunIsDerived
    /\ IsFiniteSet(events.result_recorded)
    /\ run.status = "queued" => run.progress = 0
    /\ suite # {} /\ run.status \in {"queued", "running"} =>
          run.progress <= Share(Cardinality(Complete(results)), Cardinality(suite))

\* FinishedIsFinal, of one step.
FinalStep ==
    /\ run.status \notin RunTerminal
    /\ run'.progress >= run.progress \/ run'.status = "cancelled"
    /\ run'.version = run.version + 1

\* Shares grow with what is complete.
LEMMA ShareGrows ==
    ASSUME NEW n \in Nat \ {0}, NEW k \in 0 .. n, NEW j \in 0 .. k
    PROVE  /\ Share(k, n) \in Nat /\ Share(j, n) <= Share(k, n)
<1>1. \A x \in Nat : x \div n \in Nat /\ n * (x \div n) <= x /\ x < n * (x \div n) + n
  OBVIOUS
<1> DEFINE p == (k * 100) \div n
           q == (j * 100) \div n
<1>2. k * 100 \in Nat /\ j * 100 \in Nat /\ j * 100 <= k * 100
  OBVIOUS
<1>3. p \in Nat /\ q \in Nat /\ n * q <= j * 100 /\ k * 100 < n * p + n
  BY <1>1, <1>2
<1> HIDE DEF p, q
<1>4. ASSUME q > p PROVE FALSE
  <2>1. q >= p + 1
    BY <1>3, <1>4
  <2>2. n * q >= n * (p + 1)
    BY <1>3, <2>1
  <2>3. n * (p + 1) = n * p + n
    BY <1>3
  <2>4. QED
    BY <1>2, <1>3, <2>2, <2>3
<1>5. q <= p
  BY <1>3, <1>4
<1>6. QED
  BY <1>3, <1>5 DEF Share, p, q

\* The suite of a run is finite, and so are its complete cases.
LEMMA CompleteCases ==
    ASSUME NEW rows, DOMAIN rows = suite, suite \in SUBSET Cases
    PROVE  /\ IsFiniteSet(suite) /\ Cardinality(suite) \in Nat
           /\ suite # {} => Cardinality(suite) \in Nat \ {0}
           /\ Complete(rows) \subseteq suite
           /\ Cardinality(Complete(rows)) \in 0 .. Cardinality(suite)
           /\ Cardinality(Complete(rows)) = Cardinality(suite) <=> Complete(rows) = suite
<1>1. IsFiniteSet(suite)
  BY LifecycleAssumption, FS_Subset
<1>2. Complete(rows) \in SUBSET suite
  BY DEF Complete
<1>3. IsFiniteSet(Complete(rows)) /\ Cardinality(Complete(rows)) <= Cardinality(suite)
      /\ (Cardinality(Complete(rows)) = Cardinality(suite) => Complete(rows) = suite)
  BY <1>1, <1>2, FS_Subset
<1>4. Cardinality(suite) \in Nat /\ Cardinality(Complete(rows)) \in Nat
  BY <1>1, <1>3, FS_CardinalityType
<1>5. suite # {} => Cardinality(suite) # 0
  BY <1>1, FS_EmptySet
<1>6. QED
  BY <1>1, <1>2, <1>3, <1>4, <1>5

\* A run begins queued, its cases pending.
LEMMA InitLifecycle == LifecycleInit => LifecycleInv
<1> SUFFICES ASSUME LifecycleInit PROVE LifecycleInv
  OBVIOUS
<1>1. /\ run = [status |-> "queued", progress |-> 0, version |-> 1, started |-> FALSE, completed |-> FALSE]
      /\ suite \in SUBSET Cases /\ required \in SUBSET suite
      /\ results = [c \in suite |-> [status |-> "pending", version |-> 1]]
      /\ events = [created |-> 1, status_changed |-> 0, result_recorded |-> {}]
  BY DEF LifecycleInit
<1>2. DOMAIN results = suite
  BY <1>1
<1>3. /\ IsFiniteSet(suite) /\ Complete(results) = {}
      /\ suite # {} => Cardinality(suite) \in Nat \ {0}
      /\ Cardinality({}) = 0 /\ IsFiniteSet({})
  BY <1>1, <1>2, CompleteCases, FS_EmptySet DEF Complete, CaseTerminal
<1>4. LifecycleTypeOK
  BY <1>1 DEF LifecycleTypeOK, RunRow, RunStatus, CaseRow, CaseStatus
<1>5. AggregateIsDerived /\ MarksAgree
  BY <1>1, <1>3 DEF AggregateIsDerived, MarksAgree, RunTerminal
<1>6. VersionsAreEvidenced
  <2>1. UNION {{c} \X (2 .. results[c].version) : c \in suite} = {}
    BY <1>1
  <2>2. QED
    BY <1>1, <1>3, <2>1 DEF VersionsAreEvidenced
<1>7. suite # {} => run.progress <= Share(0, Cardinality(suite))
  <2>1. suite # {} => Share(0, Cardinality(suite)) \in Nat
    BY <1>3, ShareGrows
  <2>2. QED
    BY <1>1, <2>1
<1>8. QED
  BY <1>1, <1>3, <1>4, <1>5, <1>6, <1>7 DEF LifecycleInv, RunIsDerived

\* A status command.
LEMMA StatusStep ==
    ASSUME LifecycleInv, NEW v, NEW s \in RunStatus, NEW p \in Progresses, UpdateStatus(v, s, p)
    PROVE  LifecycleInv' /\ FinalStep
<1>1. /\ ValidProgress(s, p) /\ s \in ALLOWED_TRANSITIONS[run.status] /\ (suite # {} => s = "cancelled")
      /\ run' = [run EXCEPT !.status = s, !.progress = p, !.version = run.version + 1,
                            !.started = run.started \/ s = "running",
                            !.completed = run.completed \/ s \in RunTerminal]
      /\ events' = [events EXCEPT !.status_changed = events.status_changed + 1]
      /\ UNCHANGED <<suite, required, results>>
  BY DEF UpdateStatus, ApplyStatus
<1>2. run \in RunRow /\ p \in 0 .. 100 /\ LifecycleTypeOK
  BY LifecycleAssumption DEF LifecycleInv, LifecycleTypeOK
<1>3. /\ run' \in RunRow /\ run'.status = s /\ run'.progress = p /\ run'.version = run.version + 1
      /\ run'.started = (run.started \/ s = "running")
      /\ run'.completed = (run.completed \/ s \in RunTerminal)
  <2>1. run'.status = s /\ run'.progress = p /\ run'.version = run.version + 1
    BY <1>1, <1>2 DEF RunRow
  <2>2. run'.started = (run.started \/ s = "running") /\ run'.completed = (run.completed \/ s \in RunTerminal)
    BY <1>1, <1>2, Zenon DEF RunRow
  <2>3. run.version + 1 \in Nat /\ s \in RunStatus /\ p \in 0 .. 100
    BY <1>2 DEF RunRow
  <2>4. (run.started \/ s = "running") \in BOOLEAN /\ (run.completed \/ s \in RunTerminal) \in BOOLEAN
    OBVIOUS
  <2>5. run' \in RunRow
    BY <1>1, <1>2, <2>3, <2>4, Zenon DEF RunRow
  <2>6. QED
    BY <2>1, <2>2, <2>5
<1>4. s \in {"running", "passed", "failed", "cancelled"} /\ run.status \in {"queued", "running"}
      /\ (s = "running" => run.status = "queued") /\ (s \in {"passed", "failed"} => run.status = "running")
  BY <1>1, <1>2 DEF ALLOWED_TRANSITIONS, RunRow, RunStatus
<1>5. /\ events' \in [created : Nat, status_changed : Nat, result_recorded : SUBSET (suite \X Nat)]
      /\ events'.created = events.created /\ events'.status_changed = events.status_changed + 1
      /\ events'.result_recorded = events.result_recorded
  BY <1>1, <1>2 DEF LifecycleTypeOK
<1>6. LifecycleTypeOK'
  BY <1>1, <1>2, <1>3, <1>5 DEF LifecycleTypeOK
<1>7. AggregateIsDerived'
  BY <1>1, <1>3 DEF AggregateIsDerived
<1>8. MarksAgree /\ MarksAgree'
  <2>1. MarksAgree
    BY DEF LifecycleInv, RunIsDerived
  <2>2. (s = "running" => p < 100) /\ (s \in {"passed", "failed"} => p = 100)
    BY <1>1 DEF ValidProgress
  <2>3. QED
    BY <1>3, <1>4, <2>1, <2>2 DEF MarksAgree, RunTerminal
<1>9. VersionsAreEvidenced'
  <2>1. /\ run.version = events.created + events.status_changed + Cardinality(events.result_recorded)
        /\ events.result_recorded = UNION {{c} \X (2 .. results[c].version) : c \in suite}
    BY DEF LifecycleInv, RunIsDerived, VersionsAreEvidenced
  <2>2. events'.result_recorded = UNION {{c} \X (2 .. results'[c].version) : c \in suite'}
    BY <1>1, <1>5, <2>1
  <2>3. Cardinality(events.result_recorded) \in Nat /\ events.created \in Nat /\ events.status_changed \in Nat
    BY <1>2, FS_CardinalityType DEF LifecycleInv, LifecycleTypeOK
  <2>4. run'.version = events'.created + events'.status_changed + Cardinality(events'.result_recorded)
    BY <1>3, <1>5, <2>1, <2>3
  <2>5. QED
    BY <2>2, <2>4 DEF VersionsAreEvidenced
<1>10. FinalStep
  BY <1>1, <1>2, <1>3, <1>4 DEF FinalStep, LifecycleInv, RunTerminal, ValidProgress, RunRow
<1>11. IsFiniteSet(events'.result_recorded) /\ run'.status # "queued" /\ (suite' # {} => run'.status = "cancelled")
  BY <1>1, <1>3, <1>4, <1>5 DEF LifecycleInv
<1>12. QED
  BY <1>6, <1>7, <1>8, <1>9, <1>10, <1>11 DEF LifecycleInv, RunIsDerived

\* A case result, and the aggregate of the run that it refreshes.
LEMMA CaseStep ==
    ASSUME LifecycleInv, NEW c \in suite, NEW v, NEW s \in CaseStatus, UpdateCase(c, v, s)
    PROVE  LifecycleInv' /\ FinalStep
<1> DEFINE n == Cardinality(suite)
           k == Cardinality(Complete(results'))
           j == Cardinality(Complete(results))
           failed == RequiredWith(results', {"failed", "skipped"})
<1>1. /\ run.status \notin RunTerminal /\ s \in CASE_TRANSITIONS[results[c].status]
      /\ results' = [results EXCEPT ![c] = [status |-> s, version |-> results[c].version + 1]]
      /\ RefreshRunAggregate(results')
      /\ events' = [events EXCEPT !.result_recorded = events.result_recorded \cup {<<c, results'[c].version>>}]
      /\ UNCHANGED <<suite, required>>
  BY DEF UpdateCase, RecordResult
<1>2. /\ LifecycleTypeOK /\ run \in RunRow /\ results \in [suite -> CaseRow] /\ suite # {}
      /\ suite \in SUBSET Cases /\ required \in SUBSET suite
      /\ run.status \in {"queued", "running"}
  BY <1>1 DEF LifecycleInv, LifecycleTypeOK, RunRow, RunStatus, RunTerminal
<1>3. /\ results'[c] = [status |-> s, version |-> results[c].version + 1]
      /\ \A d \in suite : d # c => results'[d] = results[d]
      /\ results' \in [suite -> CaseRow] /\ DOMAIN results' = suite
  <2>1. [status |-> s, version |-> results[c].version + 1] \in CaseRow
    BY <1>2 DEF CaseRow
  <2>2. QED
    BY <1>1, <1>2, <2>1
<1>4. /\ results[c].status \in {"pending", "running"} /\ s # "pending"
      /\ results[c].status \notin CaseTerminal
  BY <1>1, <1>2 DEF CASE_TRANSITIONS, CaseRow, CaseStatus, CaseTerminal
<1>5. /\ n \in Nat \ {0} /\ k \in 0 .. n /\ (k = n <=> Complete(results') = suite)
      /\ Complete(results') \subseteq suite
      /\ j \in 0 .. k /\ IsFiniteSet(suite)
  <2>1. /\ IsFiniteSet(suite) /\ n \in Nat \ {0} /\ k \in 0 .. n /\ (k = n <=> Complete(results') = suite)
        /\ Complete(results') \subseteq suite
    BY <1>2, <1>3, CompleteCases
  <2>2. Complete(results) \in SUBSET Complete(results')
    BY <1>2, <1>3, <1>4 DEF Complete
  <2>3. j <= k /\ j \in Nat
    BY <2>1, <2>2, FS_Subset, FS_CardinalityType
  <2>4. QED
    BY <2>1, <2>3
<1>6. /\ run' = [status |-> IF k # n THEN "running" ELSE IF failed THEN "failed" ELSE "passed",
                 progress |-> IF k = n THEN 100 ELSE Min({99, (k * 100) \div n}),
                 version |-> run.version + 1, started |-> TRUE, completed |-> k = n]
  BY <1>1, <1>3 DEF RefreshRunAggregate, Aggregate
<1>7. Share(k, n) \in Nat /\ Share(j, n) <= Share(k, n) /\ Share(j, n) \in Nat
  <2>1. j \in 0 .. j /\ j \in 0 .. n
    BY <1>5
  <2>2. QED
    BY <1>5, <2>1, ShareGrows
<1> HIDE DEF n, k, j, failed
<1>8. \A x \in Nat : Min({99, x}) \in 0 .. 99 /\ Min({99, x}) <= x /\ (x <= 99 => Min({99, x}) = x) /\ (x > 99 => Min({99, x}) = 99)
  <2>1. ASSUME NEW x \in Nat
        PROVE  \E m \in {99, x} : \A y \in {99, x} : m <= y
    <3>1. CASE x <= 99
      BY <3>1
    <3>2. CASE 99 <= x
      BY <3>2
    <3>3. QED
      BY <3>1, <3>2
  <2>2. ASSUME NEW x \in Nat
        PROVE  Min({99, x}) \in {99, x} /\ \A y \in {99, x} : Min({99, x}) <= y
    <3>1. \A S : (\E m \in S : \A y \in S : m <= y) => Min(S) \in S /\ \A y \in S : Min(S) <= y
      BY ONLY Zenon DEF Min
    <3>2. QED
      BY ONLY <2>1, <3>1, x \in Nat
  <2>3. QED
    BY <2>2
<1>9. /\ run'.version = run.version + 1
      /\ run'.started = TRUE /\ (run'.completed <=> k = n)
      /\ k # n => run'.status = "running" /\ run'.progress = Min({99, Share(k, n)})
      /\ k = n => run'.status = (IF failed THEN "failed" ELSE "passed") /\ run'.progress = 100
  BY <1>6 DEF Share
<1>10. /\ k # n => run'.progress \in 0 .. 99 /\ run'.progress <= Share(k, n)
       /\ run'.progress >= run.progress
  <2>1. run.progress <= Share(j, n) /\ run.progress \in 0 .. 100 /\ run.progress < 100
    <3>1. run.progress <= Share(j, n)
      BY <1>2 DEF LifecycleInv, n, j
    <3>2. MarksAgree /\ run.progress \in 0 .. 100 /\ (run.status = "queued" => run.progress = 0)
      BY <1>2 DEF LifecycleInv, RunIsDerived, RunRow
    <3>3. QED
      BY <1>2, <3>1, <3>2 DEF MarksAgree
  <2>2. CASE k = n
    BY <1>9, <2>1, <2>2
  <2>3. CASE k # n
    <3>1. /\ run'.progress \in 0 .. 99 /\ run'.progress <= Share(k, n)
          /\ Share(k, n) <= 99 => run'.progress = Share(k, n)
          /\ Share(k, n) > 99 => run'.progress = 99
      BY <1>7, <1>8, <1>9, <2>3
    <3>2. QED
      BY <1>7, <2>1, <2>3, <3>1
  <2>4. QED
    BY <2>2, <2>3
<1>11. LifecycleTypeOK'
  <2>1. run' \in RunRow
    <3>1. run'.progress \in 0 .. 100 /\ run'.status \in RunStatus /\ run'.version \in Nat
      BY <1>2, <1>9, <1>10 DEF RunRow, RunStatus
    <3>2. PICK done \in BOOLEAN, yes \in BOOLEAN : done = (k = n) /\ yes = TRUE
      OBVIOUS
    <3>3. run' = [status |-> run'.status, progress |-> run'.progress, version |-> run'.version,
                  started |-> yes, completed |-> done]
      BY <1>6, <3>2, Zenon
    <3>4. \A a \in RunStatus, b \in 0 .. 100, d \in Nat, f, g \in BOOLEAN :
             [status |-> a, progress |-> b, version |-> d, started |-> f, completed |-> g] \in RunRow
      BY DEF RunRow
    <3>5. yes \in BOOLEAN /\ done \in BOOLEAN
      OBVIOUS
    <3>6. QED
      BY ONLY <3>1, <3>3, <3>4, <3>5, Zenon
  <2>2. events' \in [created : Nat, status_changed : Nat, result_recorded : SUBSET (suite \X Nat)]
    <3>1. results'[c].version \in Nat
      BY <1>3 DEF CaseRow
    <3>2. events \in [created : Nat, status_changed : Nat, result_recorded : SUBSET (suite \X Nat)]
      BY <1>2 DEF LifecycleTypeOK
    <3>3. events.result_recorded \cup {<<c, results'[c].version>>} \in SUBSET (suite \X Nat)
      BY <3>1, <3>2
    <3> DEFINE more == events.result_recorded \cup {<<c, results'[c].version>>}
    <3>4. events' = [events EXCEPT !.result_recorded = more]
      BY <1>1
    <3> HIDE DEF more
    <3>5. more \in SUBSET (suite \X Nat)
      BY <3>3 DEF more
    <3>6. QED
      BY <3>2, <3>4, <3>5
  <2>3. QED
    BY <1>1, <1>2, <1>3, <2>1, <2>2 DEF LifecycleTypeOK
<1>12. AggregateIsDerived'
  <2>1. results'[c].status # "pending" /\ run'.status # "queued"
    BY <1>3, <1>4, <1>9
  <2>2. run'.status \in {"passed", "failed"} <=> Complete(results') = suite
    BY <1>5, <1>9
  <2>3. run'.progress = 100 <=> Complete(results') = suite
    BY <1>5, <1>9, <1>10
  <2>4. failed <=> \E d \in required : results'[d].status \in {"failed", "skipped"}
    BY <1>1 DEF failed, RequiredWith
  <2>5. run'.status = "failed" => \E d \in required : results'[d].status \in {"failed", "skipped"}
    BY <1>9, <2>4
  <2>6. run'.status = "passed" => \A d \in required : results'[d].status = "passed"
    <3>1. ASSUME run'.status = "passed", NEW d \in required PROVE results'[d].status = "passed"
      <4>1. ~failed /\ d \in Complete(results')
        BY <1>2, <1>5, <1>9, <3>1
      <4>2. QED
        BY <2>4, <4>1 DEF Complete, CaseTerminal
    <3>2. QED
      BY <3>1
  <2>7. QED
    BY <1>1, <2>1, <2>2, <2>3, <2>5, <2>6 DEF AggregateIsDerived
<1>13. MarksAgree'
  BY <1>9, <1>10 DEF MarksAgree, RunTerminal
<1>14. VersionsAreEvidenced' /\ IsFiniteSet(events'.result_recorded)
  <2> DEFINE recorded == events.result_recorded
             e == <<c, results[c].version + 1>>
  <2>1. /\ run.version = events.created + events.status_changed + Cardinality(recorded)
        /\ recorded = UNION {{d} \X (2 .. results[d].version) : d \in suite}
        /\ IsFiniteSet(recorded)
    BY DEF LifecycleInv, RunIsDerived, VersionsAreEvidenced
  <2>2. /\ events'.created = events.created /\ events'.status_changed = events.status_changed
        /\ events'.result_recorded = recorded \cup {e}
        /\ events.created \in Nat /\ events.status_changed \in Nat
    BY <1>1, <1>2, <1>3 DEF LifecycleTypeOK
  <2>3. \A d \in suite : results[d].version \in Nat
    BY <1>2 DEF CaseRow
  <2>4. e \notin recorded
    BY <2>1, <2>3
  <2>5. IsFiniteSet(recorded \cup {e}) /\ Cardinality(recorded \cup {e}) = Cardinality(recorded) + 1
        /\ Cardinality(recorded) \in Nat
    BY <2>1, <2>4, FS_AddElement, FS_CardinalityType
  <2> HIDE DEF recorded
  <2>6. run'.version = events'.created + events'.status_changed + Cardinality(events'.result_recorded)
    BY <1>9, <2>1, <2>2, <2>5
  <2>7. results'[c].version = results[c].version + 1 /\ \A d \in suite : d # c => results'[d].version = results[d].version
    BY <1>3
  <2>9. results[c].version \in Nat /\ results[c].version >= 1
    BY <1>2 DEF CaseRow
  <2>10. events'.result_recorded = UNION {{d} \X (2 .. results'[d].version) : d \in suite}
    <3>1. 2 .. results'[c].version = (2 .. results[c].version) \cup {results[c].version + 1}
      BY <2>7, <2>9
    <3>2. \A d \in suite : {d} \X (2 .. results'[d].version)
             = ({d} \X (2 .. results[d].version)) \cup (IF d = c THEN {e} ELSE {})
      BY <2>7, <3>1
    <3>3. UNION {{d} \X (2 .. results'[d].version) : d \in suite} = recorded \cup {e}
      BY <2>1, <3>2
    <3>4. QED
      BY <2>2, <3>3
  <2>11. QED
    BY <1>1, <2>2, <2>5, <2>6, <2>10 DEF VersionsAreEvidenced
<1>15. run'.status \in {"queued", "running"} => run'.progress <= Share(Cardinality(Complete(results')), Cardinality(suite'))
  BY <1>1, <1>9, <1>10 DEF n, k
<1>16. FinalStep
  BY <1>1, <1>9, <1>10 DEF FinalStep
<1>17. run'.status # "queued"
  BY <1>9
<1>18. QED
  BY <1>11, <1>12, <1>13, <1>14, <1>15, <1>16, <1>17 DEF LifecycleInv, RunIsDerived

\* A request that has no effect, or a step of the stream, keeps all of it.
LEMMA LifecycleKept ==
    ASSUME LifecycleInv, UNCHANGED lifecycleVars
    PROVE  LifecycleInv'
<1>1. UNCHANGED <<suite, required, run, results, events>>
  BY DEF lifecycleVars
<1>2. LifecycleTypeOK'
  BY <1>1 DEF LifecycleInv, LifecycleTypeOK
<1>3. Complete(results)' = Complete(results)
  BY <1>1 DEF Complete
<1>4. AggregateIsDerived' /\ MarksAgree'
  BY <1>1, <1>3 DEF LifecycleInv, RunIsDerived, AggregateIsDerived, MarksAgree
<1>5. VersionsAreEvidenced'
  BY <1>1, Zenon DEF LifecycleInv, RunIsDerived, VersionsAreEvidenced
<1>6. QED
  BY <1>1, <1>2, <1>3, <1>4, <1>5 DEF LifecycleInv, RunIsDerived

\* One request of either endpoint.
LEMMA LifecycleStep ==
    ASSUME LifecycleInv, LifecycleNext
    PROVE  LifecycleInv' /\ FinalStep
BY StatusStep, CaseStep DEF LifecycleNext

-----------------------------------------------------------------------------
(* The stream                                                                *)

\* The newest state of the run is still to come to the viewer.
Coming(v) == run \in unpublished \/ \E i \in 1 .. Len(queue[v]) : queue[v][i] = run

\* The row is the newest state, or that is still to come.
UpToDate(v, row) == row \in RunRow /\ row.version <= run.version
                    /\ (faults \/ row.version = run.version \/ Coming(v))

\* One viewer: nothing that travels is ahead of the run, and what it shows, or
\* is about to show first, is up to date in that sense.
ViewerInv(v) ==
    /\ conn[v] \in {"closed", "subscribed", "accepted", "live"}
    /\ queue[v] \in Seq(RunRow)
    /\ \A i \in 1 .. Len(queue[v]) : queue[v][i].version <= run.version
    /\ snapshot[v] \in RunRow \cup {Nothing}
    /\ shown[v] \in RunRow \cup {Nothing}
    /\ shown[v] # Nothing => shown[v].version <= run.version
    /\ conn[v] = "accepted" => UpToDate(v, snapshot[v])
    /\ conn[v] = "live" => UpToDate(v, shown[v])

\* The inductive invariant.
StreamInv ==
    /\ LifecycleInv
    /\ unpublished \subseteq RunRow
    /\ \A row \in unpublished : row.version <= run.version
    /\ conn = [v \in Viewers |-> conn[v]] /\ queue = [v \in Viewers |-> queue[v]]
    /\ snapshot = [v \in Viewers |-> snapshot[v]] /\ shown = [v \in Viewers |-> shown[v]]
    /\ \A v \in Viewers : ViewerInv(v)

\* ViewNeverRegresses, of one step and one viewer.
ViewStep(v) == shown[v] # Nothing => shown'[v] # Nothing /\ shown'[v].version >= shown[v].version

\* The row of the run is a row, and no version is the absence of one.
LEMMA RunIsRow ==
    ASSUME LifecycleInv
    PROVE  run \in RunRow /\ run.version \in Nat /\ \A row \in RunRow : row # Nothing /\ row.version \in Nat
BY StreamAssumption DEF LifecycleInv, LifecycleTypeOK, RunRow

\* Nobody is connected at first.
LEMMA StreamInitHolds == StreamInit => StreamInv
<1> SUFFICES ASSUME StreamInit PROVE StreamInv
  OBVIOUS
<1>1. LifecycleInv /\ run \in RunRow /\ run.version \in Nat
  BY InitLifecycle, RunIsRow DEF StreamInit
<1>2. /\ unpublished \in {{}, {run}}
      /\ conn = [v \in Viewers |-> "closed"] /\ queue = [v \in Viewers |-> <<>>]
      /\ snapshot = [v \in Viewers |-> Nothing] /\ shown = [v \in Viewers |-> Nothing]
  BY DEF StreamInit
<1>3. ASSUME NEW v \in Viewers
      PROVE  ViewerInv(v)
  <2>1. conn[v] = "closed" /\ queue[v] = <<>> /\ snapshot[v] = Nothing /\ shown[v] = Nothing
    BY <1>2
  <2>2. <<>> \in Seq(RunRow) /\ Len(<<>>) = 0
    OBVIOUS
  <2>3. QED
    BY <2>1, <2>2 DEF ViewerInv
<1>4. QED
  BY <1>1, <1>2, <1>3 DEF StreamInv

\* A row that is up to date stays so while the run stays and what is to come
\* still comes.
LEMMA StaysUpToDate ==
    ASSUME LifecycleInv, NEW v \in Viewers, NEW row, UpToDate(v, row),
           UNCHANGED <<run, faults>>, Coming(v) => faults \/ Coming(v)'
    PROVE  (UpToDate(v, row))'
<1> QED
  BY DEF UpToDate

\* A commit: the newest state is about to be published.
LEMMA StreamCommitStep ==
    ASSUME StreamInv, Commit
    PROVE  StreamInv' /\ \A v \in Viewers : ViewStep(v)
<1>1. /\ LifecycleNext /\ unpublished' = unpublished \cup {run'}
      /\ UNCHANGED <<conn, snapshot, queue, shown, faults>>
  BY DEF Commit
<1>2. LifecycleInv' /\ run' \in RunRow /\ run'.version = run.version + 1 /\ run.version \in Nat
      /\ \A row \in RunRow : row # Nothing /\ row.version \in Nat
  <2>1. LifecycleInv' /\ FinalStep /\ LifecycleInv
    BY <1>1, LifecycleStep DEF StreamInv
  <2>2. QED
    BY <2>1, RunIsRow DEF FinalStep, LifecycleInv, LifecycleTypeOK
<1>3. ASSUME NEW v \in Viewers
      PROVE  ViewerInv(v)' /\ ViewStep(v)
  <2>1. ViewerInv(v)
    BY DEF StreamInv
  <2>2. Coming(v)'
    BY <1>1 DEF Coming
  <2>3. \A row : UpToDate(v, row) => (UpToDate(v, row))'
    BY <1>2, <2>2 DEF UpToDate
  <2>4. \A i \in 1 .. Len(queue[v]) : queue[v][i] \in RunRow
    BY <2>1 DEF ViewerInv
  <2>5. ViewerInv(v)'
    <3>1. \A i \in 1 .. Len(queue[v]) : queue[v][i].version <= run'.version
      BY <1>2, <2>1, <2>4 DEF ViewerInv
    <3>2. shown[v] # Nothing => shown[v].version <= run'.version
      BY <1>2, <2>1 DEF ViewerInv
    <3>3. QED
      BY <1>1, <2>1, <2>3, <3>1, <3>2 DEF ViewerInv
  <2>6. ViewStep(v)
    BY <1>1, <1>2, <2>1 DEF ViewStep, ViewerInv
  <2>7. QED
    BY <2>5, <2>6
<1>4. unpublished' \subseteq RunRow /\ \A row \in unpublished' : row.version <= run'.version
  BY <1>1, <1>2 DEF StreamInv
<1>5. QED
  BY <1>1, <1>2, <1>3, <1>4 DEF StreamInv

\* A viewer whose own state stays is up to date while what is to come comes.
LEMMA ViewerKept ==
    ASSUME StreamInv, NEW v \in Viewers, UNCHANGED <<run, faults>>,
           conn'[v] = conn[v], snapshot'[v] = snapshot[v], shown'[v] = shown[v],
           queue'[v] \in Seq(RunRow),
           \A i \in 1 .. Len(queue'[v]) : queue'[v][i].version <= run.version,
           conn[v] # "closed" => (Coming(v) => faults \/ Coming(v)')
    PROVE  ViewerInv(v)' /\ ViewStep(v)
<1>1. ViewerInv(v) /\ LifecycleInv
  BY DEF StreamInv
<1>2. \A row : conn[v] # "closed" /\ UpToDate(v, row) => (UpToDate(v, row))'
  BY <1>1, StaysUpToDate
<1>3. ViewerInv(v)'
  BY <1>1, <1>2 DEF ViewerInv
<1>4. ViewStep(v)
  BY <1>1, RunIsRow DEF ViewStep, ViewerInv
<1>5. QED
  BY <1>3, <1>4

\* A publication reaches every subscribed viewer, in particular with the
\* newest state.
LEMMA PublishStep ==
    ASSUME StreamInv, NEW row \in unpublished, Publish(row)
    PROVE  StreamInv' /\ \A v \in Viewers : ViewStep(v)
<1>1. /\ unpublished' = unpublished \ {row}
      /\ queue' = [v \in Viewers |-> IF conn[v] # "closed" THEN Append(queue[v], row) ELSE queue[v]]
      /\ UNCHANGED <<lifecycleVars, conn, snapshot, shown, faults>> /\ UNCHANGED run
      /\ row \in RunRow /\ row.version <= run.version
  BY DEF Publish, StreamInv, lifecycleVars
<1>2. ASSUME NEW v \in Viewers
      PROVE  ViewerInv(v)' /\ ViewStep(v)
  <2>1. ViewerInv(v)
    BY DEF StreamInv
  <2>2. queue[v] \in Seq(RunRow) /\ Len(queue[v]) \in Nat
    BY <2>1 DEF ViewerInv
  <2>3. CASE conn[v] # "closed"
    <3>1. queue'[v] = Append(queue[v], row)
      BY <1>1, <2>3
    <3>2. /\ queue'[v] \in Seq(RunRow) /\ Len(queue'[v]) = Len(queue[v]) + 1
          /\ \A i \in 1 .. Len(queue[v]) : queue'[v][i] = queue[v][i]
          /\ queue'[v][Len(queue[v]) + 1] = row
      BY <1>1, <2>2, <3>1
    <3>3. \A i \in 1 .. Len(queue'[v]) : queue'[v][i].version <= run.version
      <4>1. ASSUME NEW i \in 1 .. Len(queue'[v])
            PROVE  queue'[v][i].version <= run.version
        <5>1. i \in 1 .. Len(queue[v]) \/ i = Len(queue[v]) + 1
          BY <2>2, <3>2
        <5>2. QED
          BY <1>1, <2>1, <3>2, <5>1 DEF ViewerInv
      <4>2. QED
        BY <4>1
    <3>4. Coming(v) => Coming(v)'
      <4>1. CASE run \in unpublished /\ run = row
        <5>1. Len(queue[v]) + 1 \in 1 .. Len(queue'[v])
          BY <2>2, <3>2
        <5>2. QED
          BY <1>1, <3>2, <4>1, <5>1 DEF Coming
      <4>2. CASE run \in unpublished /\ run # row
        BY <1>1, <4>2 DEF Coming
      <4>3. CASE \E i \in 1 .. Len(queue[v]) : queue[v][i] = run
        <5>1. \A i \in 1 .. Len(queue[v]) : i \in 1 .. Len(queue'[v])
          BY <2>2, <3>2
        <5>2. QED
          BY <1>1, <3>2, <4>3, <5>1 DEF Coming
      <4>4. QED
        BY <4>1, <4>2, <4>3 DEF Coming
    <3>5. QED
      BY <1>1, <3>2, <3>3, <3>4, ViewerKept
  <2>4. CASE conn[v] = "closed"
    <3>1. queue'[v] = queue[v]
      BY <1>1, <2>4
    <3>2. QED
      BY <1>1, <2>1, <2>4, <3>1, ViewerKept DEF ViewerInv
  <2>5. QED
    BY <2>3, <2>4
<1>3. LifecycleInv'
  BY <1>1, LifecycleKept DEF StreamInv
<1>4. queue' = [v \in Viewers |-> queue'[v]]
  BY <1>1
<1>5. QED
  BY <1>1, <1>2, <1>3, <1>4 DEF StreamInv

\* A publication is lost only where faults are.
LEMMA LoseStep ==
    ASSUME StreamInv, NEW row \in unpublished, LosePublication(row)
    PROVE  StreamInv' /\ \A v \in Viewers : ViewStep(v)
<1>1. /\ unpublished' = unpublished \ {row} /\ faults
      /\ UNCHANGED <<lifecycleVars, conn, snapshot, queue, shown, faults>> /\ UNCHANGED run
  BY DEF LosePublication, lifecycleVars
<1>2. ASSUME NEW v \in Viewers
      PROVE  ViewerInv(v)' /\ ViewStep(v)
  BY <1>1, ViewerKept DEF StreamInv, ViewerInv
<1>3. LifecycleInv'
  BY <1>1, LifecycleKept DEF StreamInv
<1>4. QED
  BY <1>1, <1>2, <1>3 DEF StreamInv

\* A step of one viewer leaves the others alone.
LEMMA OneViewer ==
    ASSUME StreamInv, NEW v \in Viewers, ViewerInv(v)' /\ ViewStep(v),
           UNCHANGED <<lifecycleVars, unpublished, faults>>,
           \A w \in Viewers \ {v} : /\ conn'[w] = conn[w] /\ queue'[w] = queue[w]
                                    /\ snapshot'[w] = snapshot[w] /\ shown'[w] = shown[w],
           conn' = [w \in Viewers |-> conn'[w]], queue' = [w \in Viewers |-> queue'[w]],
           snapshot' = [w \in Viewers |-> snapshot'[w]], shown' = [w \in Viewers |-> shown'[w]]
    PROVE  StreamInv' /\ \A w \in Viewers : ViewStep(w)
<1>1. run' = run /\ unpublished' = unpublished /\ faults' = faults
  BY DEF lifecycleVars
<1>2. ASSUME NEW w \in Viewers \ {v}
      PROVE  ViewerInv(w)' /\ ViewStep(w)
  <2>1. Coming(w) => Coming(w)'
    BY <1>1 DEF Coming
  <2>2. QED
    BY <1>1, <2>1, ViewerKept DEF StreamInv, ViewerInv
<1>3. LifecycleInv'
  BY LifecycleKept DEF StreamInv
<1>4. QED
  BY <1>1, <1>2, <1>3 DEF StreamInv

\* The viewer keeps the later of what it shows and what arrives.
LEMMA Shown ==
    ASSUME StreamInv, NEW v \in Viewers, NEW row \in RunRow, row.version <= run.version, Show(v, row)
    PROVE  /\ shown' = [w \in Viewers |-> shown'[w]]
           /\ \A w \in Viewers \ {v} : shown'[w] = shown[w]
           /\ shown'[v] \in RunRow /\ shown'[v].version <= run.version
           /\ shown'[v].version >= row.version
           /\ shown[v] # Nothing => shown'[v].version >= shown[v].version
<1>1. /\ shown[v] \in RunRow \cup {Nothing}
      /\ shown[v] # Nothing => shown[v].version <= run.version
      /\ shown = [w \in Viewers |-> shown[w]]
      /\ \A r \in RunRow : r # Nothing /\ r.version \in Nat
  BY RunIsRow DEF StreamInv, ViewerInv
<1>2. shown' = [shown EXCEPT ![v] = IF shown[v] = Nothing \/ row.version > shown[v].version THEN row ELSE shown[v]]
  BY DEF Show
<1>3. shown'[v] = (IF shown[v] = Nothing \/ row.version > shown[v].version THEN row ELSE shown[v])
      /\ shown' = [w \in Viewers |-> shown'[w]] /\ \A w \in Viewers \ {v} : shown'[w] = shown[w]
  BY <1>1, <1>2
<1>4. QED
  BY <1>1, <1>3

\* A connection's own steps up to its snapshot, and its end.
LEMMA SubscribeStep ==
    ASSUME StreamInv, NEW v \in Viewers, Subscribe(v)
    PROVE  StreamInv' /\ \A w \in Viewers : ViewStep(w)
<1>1. /\ conn' = [conn EXCEPT ![v] = "subscribed"]
      /\ UNCHANGED <<lifecycleVars, unpublished, snapshot, queue, shown, faults>> /\ UNCHANGED run
  BY DEF Subscribe, lifecycleVars
<1>2. conn'[v] = "subscribed" /\ conn' = [w \in Viewers |-> conn'[w]] /\ \A w \in Viewers \ {v} : conn'[w] = conn[w]
  BY <1>1 DEF StreamInv
<1>3. ViewerInv(v)' /\ ViewStep(v)
  <2>1. ViewerInv(v) /\ LifecycleInv
    BY DEF StreamInv
  <2>2. ViewStep(v)
    BY <1>1, <2>1, RunIsRow DEF ViewStep, ViewerInv
  <2>3. QED
    BY <1>1, <1>2, <2>1, <2>2 DEF ViewerInv
<1>4. QED
  BY <1>1, <1>2, <1>3, OneViewer DEF StreamInv

\* The snapshot is the row of that moment.
LEMMA StreamReadStep ==
    ASSUME StreamInv, NEW v \in Viewers, ReadSnapshot(v)
    PROVE  StreamInv' /\ \A w \in Viewers : ViewStep(w)
<1>1. /\ conn' = [conn EXCEPT ![v] = "accepted"] /\ snapshot' = [snapshot EXCEPT ![v] = run]
      /\ UNCHANGED <<lifecycleVars, unpublished, queue, shown, faults>> /\ UNCHANGED run
  BY DEF ReadSnapshot, lifecycleVars
<1>2. /\ conn'[v] = "accepted" /\ snapshot'[v] = run
      /\ conn' = [w \in Viewers |-> conn'[w]] /\ snapshot' = [w \in Viewers |-> snapshot'[w]]
      /\ \A w \in Viewers \ {v} : conn'[w] = conn[w] /\ snapshot'[w] = snapshot[w]
  BY <1>1 DEF StreamInv
<1>3. ViewerInv(v)' /\ ViewStep(v)
  <2>1. ViewerInv(v) /\ LifecycleInv /\ run \in RunRow /\ run.version \in Nat
    BY RunIsRow DEF StreamInv
  <2>2. ViewStep(v)
    BY <1>1, <2>1, RunIsRow DEF ViewStep, ViewerInv
  <2>3. UpToDate(v, snapshot[v])'
    BY <1>1, <1>2, <2>1 DEF UpToDate
  <2>4. QED
    BY <1>1, <1>2, <2>1, <2>2, <2>3 DEF ViewerInv
<1>4. QED
  BY <1>1, <1>2, <1>3, OneViewer DEF StreamInv

\* The snapshot is shown, unless the viewer kept something newer.
LEMMA SendStep ==
    ASSUME StreamInv, NEW v \in Viewers, SendSnapshot(v)
    PROVE  StreamInv' /\ \A w \in Viewers : ViewStep(w)
<1>1. /\ conn[v] = "accepted" /\ Show(v, snapshot[v])
      /\ conn' = [conn EXCEPT ![v] = "live"] /\ snapshot' = [snapshot EXCEPT ![v] = Nothing]
      /\ UNCHANGED <<lifecycleVars, unpublished, queue, faults>> /\ UNCHANGED run
  BY DEF SendSnapshot, lifecycleVars
<1>2. /\ conn'[v] = "live" /\ snapshot'[v] = Nothing
      /\ conn' = [w \in Viewers |-> conn'[w]] /\ snapshot' = [w \in Viewers |-> snapshot'[w]]
      /\ \A w \in Viewers \ {v} : conn'[w] = conn[w] /\ snapshot'[w] = snapshot[w]
  BY <1>1 DEF StreamInv
<1>3. ViewerInv(v) /\ LifecycleInv /\ UpToDate(v, snapshot[v]) /\ run.version \in Nat
      /\ \A r \in RunRow : r # Nothing /\ r.version \in Nat
  BY <1>1, RunIsRow DEF StreamInv, ViewerInv
<1>4. /\ shown' = [w \in Viewers |-> shown'[w]]
      /\ \A w \in Viewers \ {v} : shown'[w] = shown[w]
      /\ shown'[v] \in RunRow /\ shown'[v].version <= run.version
      /\ shown'[v].version >= snapshot[v].version
      /\ shown[v] # Nothing => shown'[v].version >= shown[v].version
  BY <1>1, <1>3, Shown DEF UpToDate
<1>5. UpToDate(v, shown[v])'
  <2>1. Coming(v) => Coming(v)'
    BY <1>1 DEF Coming
  <2>2. QED
    BY <1>1, <1>3, <1>4, <2>1 DEF UpToDate
<1>6. ViewerInv(v)' /\ ViewStep(v)
  BY <1>1, <1>2, <1>3, <1>4, <1>5 DEF ViewerInv, ViewStep
<1>7. QED
  BY <1>1, <1>2, <1>4, <1>6, OneViewer DEF StreamInv

\* The next message of the channel is shown, unless it is not newer.
LEMMA ForwardStep ==
    ASSUME StreamInv, NEW v \in Viewers, Forward(v)
    PROVE  StreamInv' /\ \A w \in Viewers : ViewStep(w)
<1>1. /\ conn[v] = "live" /\ queue[v] # <<>> /\ Show(v, Head(queue[v]))
      /\ queue' = [queue EXCEPT ![v] = Tail(queue[v])]
      /\ UNCHANGED <<lifecycleVars, unpublished, conn, snapshot, faults>> /\ UNCHANGED run
  BY DEF Forward, lifecycleVars
<1>2. /\ queue'[v] = Tail(queue[v]) /\ queue' = [w \in Viewers |-> queue'[w]]
      /\ \A w \in Viewers \ {v} : queue'[w] = queue[w]
  BY <1>1 DEF StreamInv
<1>3. ViewerInv(v) /\ LifecycleInv /\ run.version \in Nat /\ UpToDate(v, shown[v])
      /\ \A r \in RunRow : r # Nothing /\ r.version \in Nat
  BY <1>1, RunIsRow DEF StreamInv, ViewerInv
<1>4. queue[v] \in Seq(RunRow) /\ \A i \in 1 .. Len(queue[v]) : queue[v][i].version <= run.version
  BY <1>3 DEF ViewerInv
<1>5. /\ Len(queue[v]) \in Nat /\ Len(queue[v]) >= 1 /\ Head(queue[v]) = queue[v][1] /\ queue[v][1] \in RunRow
      /\ queue'[v] \in Seq(RunRow) /\ Len(queue'[v]) = Len(queue[v]) - 1
      /\ \A i \in 1 .. Len(queue'[v]) : i + 1 \in 1 .. Len(queue[v]) /\ queue'[v][i] = queue[v][i + 1]
  <2>1. queue[v] \in Seq(RunRow) /\ queue[v] # <<>> /\ queue'[v] = Tail(queue[v])
    BY <1>1, <1>2, <1>4
  <2>2. \A q \in Seq(RunRow) : q # <<>> =>
           /\ Len(q) \in Nat /\ Len(q) >= 1 /\ Head(q) = q[1] /\ q[1] \in RunRow
           /\ Tail(q) \in Seq(RunRow) /\ Len(Tail(q)) = Len(q) - 1
           /\ \A i \in 1 .. Len(Tail(q)) : i + 1 \in 1 .. Len(q) /\ Tail(q)[i] = q[i + 1]
    OBVIOUS
  <2>3. QED
    BY <2>1, <2>2
<1>6. Head(queue[v]).version <= run.version
  BY <1>4, <1>5
<1>7. /\ shown' = [w \in Viewers |-> shown'[w]]
      /\ \A w \in Viewers \ {v} : shown'[w] = shown[w]
      /\ shown'[v] \in RunRow /\ shown'[v].version <= run.version
      /\ shown'[v].version >= Head(queue[v]).version
      /\ shown[v] # Nothing => shown'[v].version >= shown[v].version
  BY <1>1, <1>5, <1>6, Shown
<1>8. UpToDate(v, shown[v])'
  <2>1. Coming(v) => Coming(v)' \/ run = Head(queue[v])
    <3>1. CASE run \in unpublished
      BY <1>1, <3>1 DEF Coming
    <3>2. CASE \E i \in 1 .. Len(queue[v]) : queue[v][i] = run
      <4>1. PICK i \in 1 .. Len(queue[v]) : queue[v][i] = run
        BY <3>2
      <4>2. CASE i = 1
        BY <1>5, <4>1, <4>2
      <4>3. CASE i # 1
        <5>1. i - 1 \in 1 .. Len(queue'[v]) /\ (i - 1) + 1 = i
          BY <1>5, <4>3
        <5>2. queue'[v][i - 1] = run
          BY <1>5, <4>1, <5>1
        <5>3. QED
          BY <1>1, <5>1, <5>2 DEF Coming
      <4>4. QED
        BY <4>2, <4>3
    <3>3. QED
      BY <3>1, <3>2 DEF Coming
  <2>2. QED
    BY <1>1, <1>3, <1>7, <2>1 DEF UpToDate
<1>9. \A i \in 1 .. Len(queue'[v]) : queue'[v][i].version <= run.version
  BY <1>4, <1>5
<1>10. ViewerInv(v)' /\ ViewStep(v)
  BY <1>1, <1>3, <1>5, <1>7, <1>8, <1>9 DEF ViewerInv, ViewStep
<1>11. QED
  BY <1>1, <1>2, <1>7, <1>10, OneViewer DEF StreamInv

\* A connection ends; the viewer keeps what it shows.
LEMMA CloseStep ==
    ASSUME StreamInv, NEW v \in Viewers, Close(v)
    PROVE  StreamInv' /\ \A w \in Viewers : ViewStep(w)
<1>1. /\ conn' = [conn EXCEPT ![v] = "closed"] /\ snapshot' = [snapshot EXCEPT ![v] = Nothing]
      /\ queue' = [queue EXCEPT ![v] = <<>>]
      /\ UNCHANGED <<lifecycleVars, unpublished, shown, faults>> /\ UNCHANGED run
  BY DEF Close, lifecycleVars
<1>2. /\ conn'[v] = "closed" /\ snapshot'[v] = Nothing /\ queue'[v] = <<>>
      /\ conn' = [w \in Viewers |-> conn'[w]] /\ snapshot' = [w \in Viewers |-> snapshot'[w]]
      /\ queue' = [w \in Viewers |-> queue'[w]]
      /\ \A w \in Viewers \ {v} : conn'[w] = conn[w] /\ snapshot'[w] = snapshot[w] /\ queue'[w] = queue[w]
  BY <1>1 DEF StreamInv
<1>3. ViewerInv(v)' /\ ViewStep(v)
  <2>1. ViewerInv(v) /\ LifecycleInv /\ <<>> \in Seq(RunRow) /\ Len(<<>>) = 0
    BY DEF StreamInv
  <2>2. ViewStep(v)
    BY <1>1, <2>1, RunIsRow DEF ViewStep, ViewerInv
  <2>3. QED
    BY <1>1, <1>2, <2>1, <2>2 DEF ViewerInv
<1>4. QED
  BY <1>1, <1>2, <1>3, OneViewer DEF StreamInv

-----------------------------------------------------------------------------
(* The system                                                                *)

\* One step of the system.
LEMMA StreamStepHolds ==
    ASSUME StreamInv, [StreamNext]_streamVars
    PROVE  StreamInv' /\ (\A v \in Viewers : ViewStep(v)) /\ [FinalStep]_lifecycleVars
<1>1. CASE Commit
  <2>1. FinalStep
    BY <1>1, LifecycleStep DEF Commit, StreamInv
  <2>2. QED
    BY <1>1, <2>1, StreamCommitStep
<1>2. CASE \E row \in unpublished : Publish(row) \/ LosePublication(row)
  <2>1. UNCHANGED lifecycleVars
    BY <1>2 DEF Publish, LosePublication
  <2>2. QED
    BY <1>2, <2>1, PublishStep, LoseStep
<1>3. CASE \E v \in Viewers : Deliver(v) \/ Close(v)
  <2>1. UNCHANGED lifecycleVars
    BY <1>3 DEF Deliver, Subscribe, ReadSnapshot, SendSnapshot, Forward, Close
  <2>2. QED
    BY <1>3, <2>1, SubscribeStep, StreamReadStep, SendStep, ForwardStep, CloseStep DEF Deliver
<1>4. CASE UNCHANGED streamVars
  <2>1. UNCHANGED <<lifecycleVars, run, unpublished, conn, snapshot, queue, shown, faults>>
    BY <1>4 DEF streamVars, lifecycleVars
  <2>2. ASSUME NEW v \in Viewers
        PROVE  ViewerInv(v)' /\ ViewStep(v)
    <3>1. Coming(v) => Coming(v)'
      BY <2>1 DEF Coming
    <3>2. QED
      BY <2>1, <3>1, ViewerKept DEF StreamInv, ViewerInv
  <2>3. LifecycleInv'
    BY <2>1, LifecycleKept DEF StreamInv
  <2>4. QED
    BY <2>1, <2>2, <2>3 DEF StreamInv
<1>5. QED
  BY <1>1, <1>2, <1>3, <1>4 DEF StreamNext

(* Every reachable state satisfies the inductive invariant.                  *)
THEOREM StreamInvariance == StreamSpec => []StreamInv
<1>1. StreamInv /\ [StreamNext]_streamVars => StreamInv'
  BY StreamStepHolds
<1>2. QED
  BY <1>1, StreamInitHolds, PTL DEF StreamSpec

(* TF-F-017, TF-F-018, for any suite: the aggregate is what the cases say,    *)
(* status, timestamps and progress agree, and every version of the run and of *)
(* a case is backed by exactly one outbox event.                              *)
THEOREM RunDerived == StreamSpec => []RunIsDerived
<1>1. StreamInv => RunIsDerived
  BY DEF StreamInv, LifecycleInv
<1>2. QED
  BY <1>1, StreamInvariance, PTL

(* Subscribing before reading the row closes the gap between snapshot and     *)
(* updates, for any number of viewers and of late publications.               *)
THEOREM NewestComing == StreamSpec => []NewestIsOnItsWay
<1>1. StreamInv => NewestIsOnItsWay
  <2> SUFFICES ASSUME StreamInv PROVE NewestIsOnItsWay
    OBVIOUS
  <2>1. StreamTypeOK
    BY DEF StreamInv, ViewerInv, LifecycleInv, StreamTypeOK
  <2>2. ASSUME NEW v \in Viewers, conn[v] = "live"
        PROVE  /\ shown[v] # Nothing
               /\ ~faults => \/ shown[v].version = run.version
                             \/ run \in ToSet(queue[v]) \cup unpublished
    <3>1. ViewerInv(v) /\ UpToDate(v, shown[v])
      BY <2>2 DEF StreamInv, ViewerInv
    <3>2. shown[v] # Nothing
      BY <3>1, RunIsRow DEF StreamInv, UpToDate
    <3>3. Coming(v) => run \in ToSet(queue[v]) \cup unpublished
      <4>1. DOMAIN queue[v] = 1 .. Len(queue[v])
        BY <3>1 DEF ViewerInv
      <4>2. QED
        BY <4>1 DEF Coming, ToSet
    <3>4. QED
      BY <3>1, <3>2, <3>3 DEF UpToDate
  <2>3. QED
    BY <2>1, <2>2 DEF NewestIsOnItsWay
<1>2. QED
  BY <1>1, StreamInvariance, PTL

(* Nothing goes back, for any order of commits, publications and connections: *)
(* a finished run takes no late result or command, progress goes back only by *)
(* a cancellation, and no viewer goes back to an earlier version.             *)
THEOREM NothingGoesBack == StreamSpec => OnlyForward
<1>1. StreamInv /\ [StreamNext]_streamVars => [FinalStep]_lifecycleVars
  BY StreamStepHolds
<1>2. StreamInv /\ [StreamNext]_streamVars => \A v \in Viewers : ViewStep(v)
  BY StreamStepHolds
<1>3. StreamSpec => FinishedIsFinal
  BY <1>1, StreamInvariance, PTL DEF StreamSpec, FinishedIsFinal, FinalStep
<1>4. StreamSpec => ViewNeverRegresses
  BY <1>2, StreamInvariance, PTL DEF StreamSpec, ViewNeverRegresses, ViewStep
<1>5. QED
  BY <1>3, <1>4, PTL DEF OnlyForward
=============================================================================
