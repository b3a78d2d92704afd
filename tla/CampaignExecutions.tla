------------------------ MODULE CampaignExecutions ------------------------
(* Executions of fault and of mutation campaigns, and requirement coverage.  *)
(* An execution snapshots its campaign and materialises one pending result   *)
(* per step or mutant; every reported result locks the execution and then    *)
(* the result, and recomputes the aggregate from all of them.                *)
EXTENDS TestCatalog, FiniteSetsExt

CONSTANTS
    FaultExecutions, MutationExecutions,
    Steps,         \* the steps of a fault campaign, and its mutants
    Required,      \* those whose outcome decides the execution
    Requirements,
    MaxCoverageVersion, \* bound: updates of one requirement's coverage
    NoScore

(* The schemas ask for 1 to 32 steps, and 1 to 500 mutants.                  *)
ASSUME RequiredAreSteps ==
    /\ Required \subseteq Steps /\ IsFiniteSet(Steps) /\ Cardinality(Steps) \in 1..500
    /\ MaxCoverageVersion \in Nat \ {0} /\ NoScore \notin Nat

VARIABLES
    faultRuns,     \* fault execution -> NotStored or its row
    mutationRuns,  \* mutation execution -> NotStored or its row
    coverage       \* requirement -> NotStored or its row

executionVars == <<faultRuns, mutationRuns, coverage>>

StepTransitions ==
    [pending |-> {"injecting", "skipped"}, injecting |-> {"injected", "failed"},
     injected |-> {"recovering", "failed"}, recovering |-> {"recovered", "failed"},
     recovered |-> {}, failed |-> {}, skipped |-> {}]
TerminalSteps == {"recovered", "failed", "skipped"}

ResultTransitions ==
    [pending |-> {"running", "skipped"},
     running |-> {"killed", "survived", "error", "skipped"},
     killed |-> {}, survived |-> {}, error |-> {}, skipped |-> {}]
TerminalResults == {"killed", "survived", "error", "skipped"}

Finished == {"passed", "failed", "cancelled"}
ExecutionStatuses == Finished \cup {"queued", "running"}

ResultRows(statuses) == [Steps -> [status : statuses, version : 1..5]]
FaultRow == [campaign : Refs, status : ExecutionStatuses, progress : 0..100,
             version : Nat, results : ResultRows(DOMAIN StepTransitions)]
MutationRow == [campaign : Refs, status : ExecutionStatuses, completed : 0..Cardinality(Steps),
                killed : 0..Cardinality(Steps), survived : 0..Cardinality(Steps),
                score : Nat \cup {NoScore}, version : Nat,
                results : ResultRows(DOMAIN ResultTransitions)]
CoverageRow == [definitions : SUBSET Definitions, evidence : BOOLEAN,
                status : {"covered", "partial", "gap"}, version : 1..MaxCoverageVersion]

(* What a request of any kind reads before it inserts.                       *)
Composed == Suites \cup MutationCampaigns
ReadRow == ReadingRow(Composed \cup Jobs \cup FaultExecutions \cup MutationExecutions)
ASSUME ExecutionAssumption ==
    /\ (Composed \cup Jobs) \cap (FaultExecutions \cup MutationExecutions) = {}
    /\ FaultExecutions \cap MutationExecutions = {}
    /\ Idle \notin ReadRow
    /\ NotStored \notin FaultRow /\ NotStored \notin MutationRow /\ NotStored \notin CoverageRow

Pending == [s \in Steps |-> [status |-> "pending", version |-> 1]]
Those(results, statuses) == {s \in Steps : results[s].status \in statuses}

-----------------------------------------------------------------------------
(* A request reads its campaign, which must be active, without a lock ...    *)
ReadsCampaign(q, e, c) ==
    /\ reading[q] = Idle
    /\ IsActive(c)
    /\ Reads(q, e, {RefTo(c)}, {})
    /\ UNCHANGED executionVars

ReadFaultCampaign(q, e, c) == faultRuns[e] = NotStored /\ ReadsCampaign(q, e, c)
ReadMutationCampaign(q, e, c) == mutationRuns[e] = NotStored /\ ReadsCampaign(q, e, c)

(* ... and inserts the execution with its pending results; an identifier     *)
(* taken meanwhile is a conflict.                                            *)
CreateFaultExecution(q) ==
    LET r == reading[q] IN
    /\ r # Idle /\ r.name \in FaultExecutions
    /\ faultRuns' = IF faultRuns[r.name] # NotStored THEN faultRuns
                    ELSE [faultRuns EXCEPT ![r.name] =
                            [campaign |-> CHOOSE ref \in r.refs : TRUE, status |-> "queued",
                             progress |-> 0, version |-> 1, results |-> Pending]]
    /\ reading' = [reading EXCEPT ![q] = Idle]
    /\ UNCHANGED <<catalog, jobs, runs, mutationRuns, coverage>>

CreateMutationExecution(q) ==
    LET r == reading[q] IN
    /\ r # Idle /\ r.name \in MutationExecutions
    /\ mutationRuns' = IF mutationRuns[r.name] # NotStored THEN mutationRuns
                       ELSE [mutationRuns EXCEPT ![r.name] =
                               [campaign |-> CHOOSE ref \in r.refs : TRUE, status |-> "queued",
                                completed |-> 0, killed |-> 0, survived |-> 0, score |-> NoScore,
                                version |-> 1, results |-> Pending]]
    /\ reading' = [reading EXCEPT ![q] = Idle]
    /\ UNCHANGED <<catalog, jobs, runs, faultRuns, coverage>>

-----------------------------------------------------------------------------
(* A required step that failed or was skipped fails the execution.           *)
Verdict(results, bad) ==
    IF \E s \in Required : results[s].status \in bad THEN "failed" ELSE "passed"

Started(status) == IF status = "queued" THEN "running" ELSE status

RefreshFaultAggregate(row, results) ==
    LET complete == Cardinality(Those(results, TerminalSteps))
        total == Cardinality(Steps)
    IN [row EXCEPT
          !.results = results,
          !.progress = IF complete = total THEN 100
                       ELSE Min({99, (complete * 100) \div total}),
          !.status = IF complete = total THEN Verdict(results, {"failed", "skipped"})
                     ELSE Started(@),
          !.version = @ + 1]

(* The score in millionths, rounded.                                         *)
Score(killed, survived) ==
    IF killed + survived = 0 THEN NoScore
    ELSE (2 * killed * 1000000 + killed + survived) \div (2 * (killed + survived))

RefreshMutationAggregate(row, results) ==
    LET complete == Cardinality(Those(results, TerminalResults))
        killed == Cardinality(Those(results, {"killed"}))
        survived == Cardinality(Those(results, {"survived"}))
        done == complete = Cardinality(Steps)
    IN [row EXCEPT
          !.results = results,
          !.completed = complete, !.killed = killed, !.survived = survived,
          !.score = IF done THEN Score(killed, survived) ELSE @,
          !.status = IF done THEN Verdict(results, {"survived", "error", "skipped"})
                     ELSE Started(@),
          !.version = @ + 1]

(* A reported result: refused once the execution is finished, at a stale     *)
(* version and out of order; the reported state itself is a replay.          *)
Report(row, s, status, expected, transitions) ==
    /\ row.status \notin Finished
    /\ row.results[s].version = expected
    /\ status \in transitions[row.results[s].status]

Reported(row, s, status) ==
    [row.results EXCEPT ![s] = [status |-> status, version |-> @.version + 1]]

UpdateStepResult(e, s, status, expected) ==
    /\ faultRuns[e] # NotStored
    /\ Report(faultRuns[e], s, status, expected, StepTransitions)
    /\ faultRuns' = [faultRuns EXCEPT ![e] = RefreshFaultAggregate(@, Reported(@, s, status))]
    /\ UNCHANGED <<catalogVars, mutationRuns, coverage>>

UpdateMutantResult(e, s, status, expected) ==
    /\ mutationRuns[e] # NotStored
    /\ Report(mutationRuns[e], s, status, expected, ResultTransitions)
    /\ mutationRuns' = [mutationRuns EXCEPT ![e] = RefreshMutationAggregate(@, Reported(@, s, status))]
    /\ UNCHANGED <<catalogVars, faultRuns, coverage>>

(* Cancellation keeps the results and the progress as they stand.            *)
CancelFaultExecution(e, expected) ==
    /\ faultRuns[e] # NotStored
    /\ faultRuns[e].version = expected
    /\ faultRuns[e].status \notin Finished
    /\ faultRuns' = [faultRuns EXCEPT ![e].status = "cancelled", ![e].version = @ + 1]
    /\ UNCHANGED <<catalogVars, mutationRuns, coverage>>

-----------------------------------------------------------------------------
CoverageStatus(definitions, evidence) ==
    CASE definitions # {} /\ evidence -> "covered"
      [] definitions = {} /\ ~evidence -> "gap"
      [] OTHER -> "partial"

(* A mapping of a requirement: created without an expected version, changed  *)
(* at the version the caller saw (0 stands for none); the same mapping is a  *)
(* replay.  The title and the criticality, left out here, are compared too:  *)
(* a change of theirs raises the version as any other.  The definitions must *)
(* exist, in whatever status.                                                *)
UpsertCoverage(r, definitions, evidence, expected) ==
    LET row == coverage[r]
        Mapped(version) == [definitions |-> definitions, evidence |-> evidence, version |-> version,
                            status |-> CoverageStatus(definitions, evidence)]
    IN /\ \A d \in definitions : Stored(d)
       /\ \/ row = NotStored /\ expected = 0 /\ coverage' = [coverage EXCEPT ![r] = Mapped(1)]
          \/ /\ row # NotStored
             /\ row.version = expected /\ expected < MaxCoverageVersion
             /\ coverage' = [coverage EXCEPT ![r] = Mapped(expected + 1)]
       /\ UNCHANGED <<catalogVars, faultRuns, mutationRuns>>

-----------------------------------------------------------------------------
ExecutionInit ==
    /\ faultRuns = [e \in FaultExecutions |-> NotStored]
    /\ mutationRuns = [e \in MutationExecutions |-> NotStored]
    /\ coverage = [r \in Requirements |-> NotStored]

FaultStep(q) ==
    \/ \E e \in FaultExecutions, c \in FaultCampaigns : ReadFaultCampaign(q, e, c)
    \/ CreateFaultExecution(q)
    \/ \E e \in FaultExecutions, s \in Steps, expected \in 1..5 :
          \E status \in DOMAIN StepTransitions : UpdateStepResult(e, s, status, expected)
    \/ \E e \in FaultExecutions, expected \in 1..10 : CancelFaultExecution(e, expected)

MutationStep(q) ==
    \/ \E e \in MutationExecutions, c \in MutationCampaigns : ReadMutationCampaign(q, e, c)
    \/ CreateMutationExecution(q)
    \/ \E e \in MutationExecutions, s \in Steps, expected \in 1..5 :
          \E status \in DOMAIN ResultTransitions : UpdateMutantResult(e, s, status, expected)

CoverageStep ==
    \E r \in Requirements, ds \in SUBSET Definitions, evidence \in BOOLEAN,
       expected \in 0..MaxCoverageVersion : UpsertCoverage(r, ds, evidence, expected)

-----------------------------------------------------------------------------
ExecutionTypeOK ==
    /\ \A e \in FaultExecutions : faultRuns[e] = NotStored \/ faultRuns[e] \in FaultRow
    /\ \A e \in MutationExecutions : mutationRuns[e] = NotStored \/ mutationRuns[e] \in MutationRow
    /\ \A r \in Requirements : coverage[r] = NotStored \/ coverage[r] \in CoverageRow

Changes(results) == MapThenSumSet(LAMBDA s : results[s].version - 1, Steps)

(* The status of an execution says what its results say.                     *)
StatusIsOf(row, terminal, bad) ==
    CASE row.status = "queued" -> row.results = Pending
      [] row.status = "running" -> row.results # Pending /\ \E s \in Steps : row.results[s].status \notin terminal
      [] row.status = "passed" -> /\ \A s \in Steps : row.results[s].status \in terminal
                                  /\ \A s \in Required : row.results[s].status \notin bad
      [] row.status = "failed" -> /\ \A s \in Steps : row.results[s].status \in terminal
                                  /\ \E s \in Required : row.results[s].status \in bad
      [] row.status = "cancelled" -> \E s \in Steps : row.results[s].status \notin terminal

(* Every stored aggregate is the one its results imply, whatever order they  *)
(* were reported in and wherever a cancellation cut them off: one version    *)
(* per recorded change, 100 % exactly when every step ended, a score exactly *)
(* when every mutant did and some counted, and a requirement "covered" only  *)
(* with both a definition and evidence.                                      *)
AggregatesAreDerived ==
    /\ \A e \in FaultExecutions : faultRuns[e] # NotStored =>
         LET row == faultRuns[e]
             ended == Those(row.results, TerminalSteps)
         IN /\ StatusIsOf(row, TerminalSteps, {"failed", "skipped"})
            /\ row.version = 1 + Changes(row.results) + (IF row.status = "cancelled" THEN 1 ELSE 0)
            /\ (row.progress = 100) <=> (ended = Steps)
            /\ row.progress < 100 => row.progress * Cardinality(Steps) <= Cardinality(ended) * 100
    /\ \A e \in MutationExecutions : mutationRuns[e] # NotStored =>
         LET row == mutationRuns[e]
             counted == Those(row.results, {"killed", "survived"})
         IN /\ StatusIsOf(row, TerminalResults, {"survived", "error", "skipped"})
            /\ row.version = 1 + Changes(row.results)
            /\ row.killed + row.survived = Cardinality(counted)
            /\ (row.score # NoScore) <=> (row.completed = Cardinality(Steps) /\ counted # {})
            /\ row.score # NoScore => row.score <= 1000000 /\ ((row.score = 1000000) <=> (row.survived = 0))
    /\ \A r \in Requirements : coverage[r] # NotStored =>
         /\ \A d \in coverage[r].definitions : Stored(d)
         /\ (coverage[r].status = "covered") <=> (coverage[r].definitions # {} /\ coverage[r].evidence)
         /\ (coverage[r].status = "gap") <=> (coverage[r].definitions = {} /\ ~coverage[r].evidence)

ExecutionsAreOfActiveVersions ==
    /\ \A e \in FaultExecutions : faultRuns[e] # NotStored => WasActive(faultRuns[e].campaign)
    /\ \A e \in MutationExecutions : mutationRuns[e] # NotStored => WasActive(mutationRuns[e].campaign)
=============================================================================
