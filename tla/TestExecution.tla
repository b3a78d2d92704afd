--------------------------- MODULE TestExecution ---------------------------
(***************************************************************************)
(* Scheduled and direct test execution of the ATEP control plane:          *)
(* test_jobs/service.py (create, cancel, dispatch), test_jobs/scheduler.py *)
(* (the dispatch loop) and the creation half of test_runs/service.py.      *)
(*                                                                         *)
(* The two tables share one namespace, the external run_id: a job reserves *)
(* the run_id of the run its dispatch will insert.  PostgreSQL runs every  *)
(* transaction at READ COMMITTED, so the SELECTs of one API transaction    *)
(* are separate steps here, and other transactions commit in between.  An  *)
(* insert waits for a concurrent insert of the same unique key, so insert  *)
(* and commit are one step.  Rows taken with FOR UPDATE stay locked        *)
(* from the step that selects them to the commit or rollback.              *)
(***************************************************************************)
EXTENDS Integers, FiniteSets

CONSTANTS
    Jobs,          \* external job identifiers (job_id)
    RunIds,        \* external run identifiers (run_id)
    JobClients,    \* API transactions that schedule jobs
    RunClients,    \* API transactions that create runs directly
    Schedulers,    \* scheduler replicas, one dispatch loop each
    BatchSize,     \* settings.test_scheduler_batch_size
    MaxTime,       \* bound on the clock
    None           \* NULL, and the absence of a row

VARIABLES
    jobs,          \* table test_jobs, by job_id
    runs,          \* table test_runs, by run_id: the job that inserted it, or Direct
    txn,           \* create_test_job / create_test_run requests in flight
    batch,         \* rows a scheduler holds FOR UPDATE
    outbox,        \* committed outbox events of each kind, counted
    now            \* wall clock

vars == <<jobs, runs, txn, batch, outbox, now>>

Times == 0 .. MaxTime
Clients == JobClients \cup RunClients
JobStatus == {"scheduled", "dispatched", "cancelled"}
JobRow == [run : RunIds, due : Times, status : JobStatus, version : Nat]
Direct == "direct"                    \* a run POSTed to /test-runs
Idle == [step |-> "idle"]
JobTxn == [step : {"jobsChecked", "insert"}, job : Jobs, run : RunIds, due : Times]
RunTxn == [step : {"runChecked", "insert"}, run : RunIds]
ASSUME TestExecutionAssumption ==
    /\ BatchSize \in Nat \ {0}
    /\ MaxTime \in Nat
    /\ JobClients \cap RunClients = {}
    /\ Direct \notin Jobs
    /\ None \notin JobRow \cup Jobs \cup {Direct}

EventKinds == ({"scheduled", "dispatched", "cancelled"} \X Jobs) \cup ({"created"} \X RunIds)

JobExists(j) == jobs[j] # None
RunExists(r) == runs[r] # None
HasStatus(j, s) == JobExists(j) /\ jobs[j].status = s
Reserved(r) == \E j \in Jobs : JobExists(j) /\ jobs[j].run = r
Locked == UNION {batch[s] : s \in Schedulers}

Emit(kinds) == [k \in EventKinds |-> outbox[k] + (IF k \in kinds THEN 1 ELSE 0)]

Init ==
    /\ jobs = [j \in Jobs |-> None]
    /\ runs = [r \in RunIds |-> None]
    /\ txn = [c \in Clients |-> Idle]
    /\ batch = [s \in Schedulers |-> {}]
    /\ outbox = [k \in EventKinds |-> 0]
    /\ now = 0

-----------------------------------------------------------------------------
(* POST /test-jobs *)

\* The two SELECTs on test_jobs.  A row with this job_id ends the request
\* (replay or conflict), so does a row that reserves this run_id.
BeginCreateJob(c, j, r, d) ==
    /\ txn[c] = Idle
    /\ ~JobExists(j)
    /\ ~Reserved(r)
    /\ txn' = [txn EXCEPT ![c] = [step |-> "jobsChecked", job |-> j, run |-> r, due |-> d]]
    /\ UNCHANGED <<jobs, runs, batch, outbox, now>>

\* The SELECT on test_runs, a statement of its own.
CheckRunOfJob(c) ==
    /\ txn[c].step = "jobsChecked"
    /\ txn' = [txn EXCEPT ![c] = IF RunExists(txn[c].run) THEN Idle
                                 ELSE [txn[c] EXCEPT !.step = "insert"]]
    /\ UNCHANGED <<jobs, runs, batch, outbox, now>>

\* Faulty variant: no unique constraint on run_id.
InsertJobSharingRun(c) ==
    /\ txn[c].step = "insert"
    /\ ~JobExists(txn[c].job)
    /\ jobs' = [jobs EXCEPT ![txn[c].job] =
                  [run |-> txn[c].run, due |-> txn[c].due,
                   status |-> "scheduled", version |-> 1]]
    /\ outbox' = Emit({<<"scheduled", txn[c].job>>})
    /\ txn' = [txn EXCEPT ![c] = Idle]
    /\ UNCHANGED <<runs, batch, now>>

\* Savepoint, INSERT and COMMIT; uq_test_jobs_job_id and uq_test_jobs_run_id
\* turn a lost race into TestJobConflictError, which rolls back.
InsertJob(c) ==
    /\ c \in JobClients
    /\ txn[c].step = "insert"
    /\ txn' = [txn EXCEPT ![c] = Idle]
    /\ \/ /\ JobExists(txn[c].job) \/ Reserved(txn[c].run)
          /\ UNCHANGED <<jobs, outbox>>
       \/ /\ ~JobExists(txn[c].job)
          /\ ~Reserved(txn[c].run)
          /\ jobs' = [jobs EXCEPT ![txn[c].job] =
                        [run |-> txn[c].run, due |-> txn[c].due,
                         status |-> "scheduled", version |-> 1]]
          /\ outbox' = Emit({<<"scheduled", txn[c].job>>})
    /\ UNCHANGED <<runs, batch, now>>

-----------------------------------------------------------------------------
(* POST /test-runs *)

BeginCreateRun(c, r) ==
    /\ txn[c] = Idle
    /\ ~RunExists(r)
    /\ txn' = [txn EXCEPT ![c] = [step |-> "runChecked", run |-> r]]
    /\ UNCHANGED <<jobs, runs, batch, outbox, now>>

\* A job in any status keeps its run_id reserved.
CheckReservation(c) ==
    /\ txn[c].step = "runChecked"
    /\ txn' = [txn EXCEPT ![c] = IF Reserved(txn[c].run) THEN Idle
                                 ELSE [txn[c] EXCEPT !.step = "insert"]]
    /\ UNCHANGED <<jobs, runs, batch, outbox, now>>

\* uq_test_runs_run_id is the only constraint the database checks here.
InsertRun(c) ==
    /\ c \in RunClients
    /\ txn[c].step = "insert"
    /\ txn' = [txn EXCEPT ![c] = Idle]
    /\ \/ /\ RunExists(txn[c].run)
          /\ UNCHANGED <<runs, outbox>>
       \/ /\ ~RunExists(txn[c].run)
          /\ runs' = [runs EXCEPT ![txn[c].run] = Direct]
          /\ outbox' = Emit({<<"created", txn[c].run>>})
    /\ UNCHANGED <<jobs, batch, now>>

\* The process or its connection dies: the open transaction rolls back.
AbortRequest(c) ==
    /\ txn[c] # Idle
    /\ txn' = [txn EXCEPT ![c] = Idle]
    /\ UNCHANGED <<jobs, runs, batch, outbox, now>>

-----------------------------------------------------------------------------
(* PATCH /test-jobs/{job_id}/cancel.  FOR UPDATE waits for a scheduler that *)
(* holds the row; the checks then see the row it left.                      *)

\* Faulty variants: no status check; no row lock.
CancelJobInAnyStatus(j, expectedVersion) ==
    /\ JobExists(j)
    /\ j \notin Locked
    /\ expectedVersion = jobs[j].version
    /\ jobs' = [jobs EXCEPT ![j].status = "cancelled", ![j].version = @ + 1]
    /\ outbox' = Emit({<<"cancelled", j>>})
    /\ UNCHANGED <<runs, txn, batch, now>>

CancelJobWithoutLock(j, expectedVersion) ==
    /\ HasStatus(j, "scheduled")
    /\ expectedVersion = jobs[j].version
    /\ jobs' = [jobs EXCEPT ![j].status = "cancelled", ![j].version = @ + 1]
    /\ outbox' = Emit({<<"cancelled", j>>})
    /\ UNCHANGED <<runs, txn, batch, now>>

CancelJob(j, expectedVersion) ==
    /\ JobExists(j)
    /\ j \notin Locked
    /\ expectedVersion = jobs[j].version
    /\ jobs[j].status = "scheduled"
    /\ jobs' = [jobs EXCEPT ![j].status = "cancelled", ![j].version = @ + 1]
    /\ outbox' = Emit({<<"cancelled", j>>})
    /\ UNCHANGED <<runs, txn, batch, now>>

-----------------------------------------------------------------------------
(* run_test_scheduler / dispatch_due_test_jobs *)

Due(j) == HasStatus(j, "scheduled") /\ jobs[j].due <= now

\* ORDER BY scheduled_for, id LIMIT n FOR UPDATE SKIP LOCKED; id is a random
\* UUID, so jobs due at one instant are taken in any order.
OldestFirst(B, S) ==
    /\ B \subseteq S
    /\ Cardinality(B) = IF Cardinality(S) < BatchSize THEN Cardinality(S) ELSE BatchSize
    /\ \A j \in B, k \in S \ B : jobs[j].due <= jobs[k].due

SelectDue(s) ==
    /\ batch[s] = {}
    /\ LET free == {j \in Jobs : Due(j) /\ j \notin Locked}
       IN  /\ free # {}
           /\ \E B \in SUBSET free :
                /\ OldestFirst(B, free)
                /\ batch' = [batch EXCEPT ![s] = B]
    /\ UNCHANGED <<jobs, runs, txn, outbox, now>>

\* Faulty variant: a duplicate run_id is ignored and the job still marked.
CommitDispatchIgnoringDuplicates(s) ==
    /\ batch[s] # {}
    /\ runs' = [r \in RunIds |->
                  IF ~RunExists(r) /\ \E j \in batch[s] : jobs[j].run = r
                  THEN CHOOSE j \in batch[s] : jobs[j].run = r
                  ELSE runs[r]]
    /\ jobs' = [j \in Jobs |->
                  IF j \in batch[s]
                  THEN [jobs[j] EXCEPT !.status = "dispatched", !.version = @ + 1]
                  ELSE jobs[j]]
    /\ batch' = [batch EXCEPT ![s] = {}]
    /\ UNCHANGED <<txn, outbox, now>>

\* One transaction inserts the runs, marks every job and writes both events.
CommitDispatch(s) ==
    /\ batch[s] # {}
    /\ \A j \in batch[s] : ~RunExists(jobs[j].run)
    /\ runs' = [r \in RunIds |->
                  IF \E j \in batch[s] : jobs[j].run = r
                  THEN CHOOSE j \in batch[s] : jobs[j].run = r
                  ELSE runs[r]]
    /\ jobs' = [j \in Jobs |->
                  IF j \in batch[s]
                  THEN [jobs[j] EXCEPT !.status = "dispatched", !.version = @ + 1]
                  ELSE jobs[j]]
    /\ outbox' = Emit(UNION {{<<"created", jobs[j].run>>, <<"dispatched", j>>} : j \in batch[s]})
    /\ batch' = [batch EXCEPT ![s] = {}]
    /\ UNCHANGED <<txn, now>>

\* Faulty variant: the jobs' events are written outside the transaction.
FailDispatchKeepingEvents(s) ==
    /\ \E j \in batch[s] : RunExists(jobs[j].run)
    /\ batch' = [batch EXCEPT ![s] = {}]
    /\ outbox' = Emit({<<"dispatched", j>> : j \in batch[s]})
    /\ UNCHANGED <<jobs, runs, txn, now>>

\* A duplicate run_id raises IntegrityError in flush(): the whole batch rolls
\* back, the loop counts an error and tries again after its interval.
FailDispatch(s) ==
    /\ \E j \in batch[s] : RunExists(jobs[j].run)
    /\ batch' = [batch EXCEPT ![s] = {}]
    /\ UNCHANGED <<jobs, runs, txn, outbox, now>>

\* The replica is killed inside a cycle; PostgreSQL releases its locks.
CrashScheduler(s) ==
    /\ batch[s] # {}
    /\ batch' = [batch EXCEPT ![s] = {}]
    /\ UNCHANGED <<jobs, runs, txn, outbox, now>>

Tick ==
    /\ now < MaxTime
    /\ now' = now + 1
    /\ UNCHANGED <<jobs, runs, txn, batch, outbox>>

-----------------------------------------------------------------------------

JobRequest(c) ==
    \/ \E j \in Jobs, r \in RunIds, d \in Times : BeginCreateJob(c, j, r, d)
    \/ CheckRunOfJob(c)
    \/ InsertJob(c)
    \/ AbortRequest(c)

RunRequest(c) ==
    \/ \E r \in RunIds : BeginCreateRun(c, r)
    \/ CheckReservation(c)
    \/ InsertRun(c)
    \/ AbortRequest(c)

Dispatch(s) ==
    \/ SelectDue(s)
    \/ CommitDispatch(s)
    \/ FailDispatch(s)

Next ==
    \/ \E c \in JobClients : JobRequest(c)
    \/ \E c \in RunClients : RunRequest(c)
    \/ \E j \in Jobs, v \in 1 .. 2 : CancelJob(j, v)
    \/ \E s \in Schedulers : Dispatch(s) \/ CrashScheduler(s)
    \/ Tick

Spec == Init /\ [][Next]_vars

\* The scheduler sleeps between cycles but keeps running; a replica may be
\* killed again and again, only not inside every one of its cycles.  Clients
\* owe nothing: no fairness on requests, cancellations or crashes.
Fairness ==
    /\ WF_vars(Tick)
    /\ \A s \in Schedulers : SF_vars(SelectDue(s))
    /\ \A s \in Schedulers : SF_vars(CommitDispatch(s))
    /\ \A s \in Schedulers : WF_vars(FailDispatch(s))

FairSpec == Spec /\ Fairness

-----------------------------------------------------------------------------
(* Properties *)

\* Type correctness of the two tables, the open transactions and the locks.
TypeOK ==
    /\ jobs \in [Jobs -> JobRow \cup {None}]
    /\ runs \in [RunIds -> Jobs \cup {Direct, None}]
    /\ txn \in [Clients -> {Idle} \cup JobTxn \cup RunTxn]
    /\ \A c \in JobClients : txn[c] \in {Idle} \cup JobTxn
    /\ \A c \in RunClients : txn[c] \in {Idle} \cup RunTxn
    /\ batch \in [Schedulers -> SUBSET Jobs]
    /\ outbox \in [EventKinds -> Nat]
    /\ now \in Times

\* Dispatch is exactly-once and all-or-nothing: a job is marked dispatched
\* (test_jobs/service.py dispatch_due_test_jobs) exactly when the run it
\* reserved exists and was inserted by that job, and by no other.
DispatchCreatesItsRun ==
    /\ \A j \in Jobs : HasStatus(j, "dispatched") =>
           runs[jobs[j].run] = j
    /\ \A r \in RunIds, j \in Jobs : runs[r] = j =>
           HasStatus(j, "dispatched") /\ jobs[j].run = r

\* SKIP LOCKED: two replicas never hold one job, and a job that is held is
\* still scheduled and due, whatever cancellations arrive meanwhile.
ClaimsAreExclusive ==
    /\ \A s, t \in Schedulers : s # t => batch[s] \cap batch[t] = {}
    /\ \A j \in Locked : Due(j)

\* No two jobs ever reserve one run_id, although the check and the insert of
\* create_test_job are separate statements.
ReservationsUnique ==
    \A i, j \in Jobs : JobExists(i) /\ JobExists(j) /\ jobs[i].run = jobs[j].run => i = j

EvidenceCounted ==
    /\ \A j \in Jobs : outbox[<<"scheduled", j>>] = IF JobExists(j) THEN 1 ELSE 0
    /\ \A j \in Jobs, s \in {"dispatched", "cancelled"} :
           outbox[<<s, j>>] = IF HasStatus(j, s) THEN 1 ELSE 0
    /\ \A r \in RunIds : outbox[<<"created", r>>] = IF RunExists(r) THEN 1 ELSE 0

\* Every effective change left exactly one outbox event in its transaction,
\* and nothing that rolled back left any.
EvidenceExact == TypeOK /\ EvidenceCounted

\* A cancelled or dispatched job is never touched again, a run is never
\* re-inserted or re-owned, and no job is dispatched before it is due.
Settled ==
    [][/\ \A j \in Jobs : JobExists(j) /\ jobs[j].status # "scheduled" => jobs'[j] = jobs[j]
       /\ \A r \in RunIds : RunExists(r) => runs'[r] = runs[r]
       /\ \A j \in Jobs : HasStatus(j, "dispatched")' /\ ~HasStatus(j, "dispatched") =>
              jobs[j].due <= now]_vars

\* A direct run has taken the run_id of a job that is still scheduled: both
\* requests read the other table before the other insert was committed.
RunIdTaken(j) == HasStatus(j, "scheduled") /\ runs[jobs[j].run] = Direct

\* A due job is eventually dispatched or cancelled, however often requests
\* and replicas fail, unless a direct run has taken the run_id of some job.
DueJobsSettle ==
    \A j \in Jobs : Due(j) ~> ~HasStatus(j, "scheduled") \/ \E k \in Jobs : RunIdTaken(k)
=============================================================================
