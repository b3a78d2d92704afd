-------------------------- MODULE TestRunLifecycle --------------------------
(***************************************************************************)
(* One test run and the results of its cases: test_runs/service.py         *)
(* (update_test_run_status, update_case_result, _refresh_run_aggregate)    *)
(* with the request validators of test_runs/schemas.py.                    *)
(*                                                                         *)
(* Every handler first takes the run's row FOR UPDATE, so a request is one *)
(* step.  A request that repeats the recorded values, is stale or asks for *)
(* an illegal transition leaves everything alone and is not a step here.   *)
(***************************************************************************)
EXTENDS Integers, FiniteSets, FiniteSetsExt

CONSTANTS
    Cases,         \* case definitions a catalog suite may hold
    Progresses     \* progress values operators send

ASSUME LifecycleAssumption ==
    /\ IsFiniteSet(Cases)
    /\ Progresses \subseteq 0 .. 100

VARIABLES
    suite,         \* case definitions of the run's suite snapshot, {} without one
    required,      \* those marked required
    run,           \* the test_runs row
    results,       \* its test_case_results rows, by case
    events         \* outbox events: those of the run counted, those of its
                   \* cases by case and version

lifecycleVars == <<suite, required, run, results, events>>

RunStatus == {"queued", "running", "passed", "failed", "cancelled"}
CaseStatus == {"pending", "running", "passed", "failed", "skipped"}
RunTerminal == {"passed", "failed", "cancelled"}
CaseTerminal == {"passed", "failed", "skipped"}

ALLOWED_TRANSITIONS ==
    [queued |-> {"running", "cancelled"},
     running |-> {"passed", "failed", "cancelled"},
     passed |-> {}, failed |-> {}, cancelled |-> {}]

CASE_TRANSITIONS ==
    [pending |-> {"running", "skipped"},
     running |-> {"passed", "failed", "skipped"},
     passed |-> {}, failed |-> {}, skipped |-> {}]

RunRow == [status : RunStatus, progress : 0 .. 100, version : Nat,
           started : BOOLEAN, completed : BOOLEAN]
CaseRow == [status : CaseStatus, version : Nat \ {0}]

MaxVersion == 2 * Cardinality(Cases) + 3   \* no run has more versions

\* create_test_run: a queued run and, with a catalog suite, a pending result
\* for each case of the snapshot.
LifecycleInit ==
    /\ suite \in SUBSET Cases
    /\ required \in SUBSET suite
    /\ run = [status |-> "queued", progress |-> 0, version |-> 1,
              started |-> FALSE, completed |-> FALSE]
    /\ results = [c \in suite |-> [status |-> "pending", version |-> 1]]
    /\ events = [created |-> 1, status_changed |-> 0, result_recorded |-> {}]

-----------------------------------------------------------------------------
(* PATCH /test-runs/{run_id}/status *)

\* TestRunStatusUpdate.validate_progress
ValidProgress(status, progress) ==
    /\ status = "queued" => progress = 0
    /\ status = "running" => progress < 100
    /\ status \in {"passed", "failed"} => progress = 100

ApplyStatus(status, progress) ==
    /\ run' = [run EXCEPT !.status = status,
                          !.progress = progress,
                          !.version = @ + 1,
                          !.started = @ \/ status = "running",
                          !.completed = @ \/ status \in RunTerminal]
    /\ events' = [events EXCEPT !.status_changed = @ + 1]
    /\ UNCHANGED <<suite, required, results>>

UpdateStatus(expectedVersion, status, progress) ==
    /\ ValidProgress(status, progress)
    /\ expectedVersion = run.version
    /\ suite # {} => status = "cancelled"
    /\ status \in ALLOWED_TRANSITIONS[run.status]
    /\ ApplyStatus(status, progress)

-----------------------------------------------------------------------------
(* PATCH /test-runs/{run_id}/cases/{case_id} *)

Complete(rows) == {c \in DOMAIN rows : rows[c].status \in CaseTerminal}
RequiredWith(rows, S) == \E c \in required : rows[c].status \in S

\* The run is queued or running here, and total is not zero: a row was just
\* updated.
Aggregate(complete, total, failed) ==
    run' = [status |-> IF complete # total THEN "running"
                       ELSE IF failed THEN "failed" ELSE "passed",
            progress |-> IF complete = total THEN 100
                         ELSE Min({99, (complete * 100) \div total}),
            version |-> run.version + 1,
            started |-> TRUE,
            completed |-> complete = total]

\* Faulty variant: a skipped case never fails the run.
LenientRefresh(rows) ==
    Aggregate(Cardinality(Complete(rows)), Cardinality(DOMAIN rows),
              RequiredWith(rows, {"failed"}))

\* _refresh_run_aggregate, over the rows the transaction has flushed.
RefreshRunAggregate(rows) ==
    Aggregate(Cardinality(Complete(rows)), Cardinality(DOMAIN rows),
              RequiredWith(rows, {"failed", "skipped"}))

RecordResult(c, status) ==
    /\ results' = [results EXCEPT ![c] = [status |-> status, version |-> @.version + 1]]
    /\ RefreshRunAggregate(results')
    /\ UNCHANGED <<suite, required>>

UpdateCase(c, expectedVersion, status) ==
    /\ run.status \notin RunTerminal
    /\ expectedVersion = results[c].version
    /\ status \in CASE_TRANSITIONS[results[c].status]
    /\ RecordResult(c, status)
    /\ events' = [events EXCEPT !.result_recorded = @ \cup {<<c, results'[c].version>>}]

-----------------------------------------------------------------------------

LifecycleNext ==
    \/ \E v \in 1 .. MaxVersion, s \in RunStatus, p \in Progresses : UpdateStatus(v, s, p)
    \/ \E c \in suite, v \in 1 .. 3, s \in CaseStatus : UpdateCase(c, v, s)

-----------------------------------------------------------------------------
(* Properties *)

\* Type correctness of the run, its snapshot and its case rows.
LifecycleTypeOK ==
    /\ suite \in SUBSET Cases
    /\ required \in SUBSET suite
    /\ run \in RunRow
    /\ results \in [suite -> CaseRow]
    /\ events \in [created : Nat, status_changed : Nat,
                  result_recorded : SUBSET (suite \X Nat)]

\* TF-F-017, TF-F-018: a catalog run that nobody cancelled is exactly as far
\* as its case results say: untouched, under way, or finished with the verdict
\* its required cases give.
AggregateIsDerived ==
    suite # {} /\ run.status # "cancelled" =>
        /\ run.status = "queued" <=> \A c \in suite : results[c].status = "pending"
        /\ run.status \in {"passed", "failed"} <=> Complete(results) = suite
        /\ run.status = "passed" => \A c \in required : results[c].status = "passed"
        /\ run.status = "failed" =>
               \E c \in required : results[c].status \in {"failed", "skipped"}
        /\ run.progress = 100 <=> Complete(results) = suite

\* Whatever endpoint moved it, a run's status agrees with its timestamps and
\* its progress: only an unfinished run lacks completed_at, only a run that
\* never ran lacks started_at, and 100 percent is claimed by no running run.
MarksAgree ==
    /\ run.completed <=> run.status \in RunTerminal
    /\ run.status = "queued" => ~run.started
    /\ run.status \in {"running", "passed", "failed"} => run.started
    /\ run.status \in {"passed", "failed"} => run.progress = 100
    /\ run.status = "running" => run.progress < 100

\* Every version of the run, which live clients use to order its states, is
\* backed by exactly one outbox event, and so is every later version of a case.
VersionsAreEvidenced ==
    /\ run.version = events.created + events.status_changed + Cardinality(events.result_recorded)
    /\ events.result_recorded = UNION {{c} \X (2 .. results[c].version) : c \in suite}

\* Every endpoint leaves the run, its rows and its evidence consistent.
RunIsDerived == AggregateIsDerived /\ MarksAgree /\ VersionsAreEvidenced

\* Late results and late commands never touch a finished run, and progress
\* goes back only by a cancellation.
FinishedIsFinal ==
    [][/\ run.status \notin RunTerminal
       /\ run'.progress >= run.progress \/ run'.status = "cancelled"
       /\ run'.version = run.version + 1]_lifecycleVars
=============================================================================
