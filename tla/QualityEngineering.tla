------------------------ MODULE QualityEngineering ------------------------
(* The road of a test: from an analysis request over a suggestion, a         *)
(* definition, a suite and a campaign to its executions and scheduled runs.  *)
(* The parts share the catalogue.  The kinds of requests a behaviour serves  *)
(* are chosen once, in Init: the runs explore every kind, not every product. *)
EXTENDS CampaignExecutions, AiEngine

CONSTANT QualityWorkloads
ASSUME WorkloadsAreKnown ==
    QualityWorkloads \subseteq {"schedule", "fault", "mutation", "coverage", "attempt", "log", "risk", "suggestion", "chat"}

VARIABLE workload

qualityVars == <<catalogVars, executionVars, aiVars, workload>>

QualityInit ==
    /\ CatalogInit /\ ExecutionInit /\ AiInit
    /\ workload \in QualityWorkloads

CatalogWork(q, R) == (Govern(R) \/ Compose(q)) /\ UNCHANGED executionVars

ScheduleWork(q) ==
    /\ workload = "schedule"
    /\ CatalogWork(q, Definitions \cup Suites \cup Profiles) \/ (Schedule(q) /\ UNCHANGED executionVars)
FaultWork(q) ==
    workload = "fault" /\ (FaultStep(q) \/ CatalogWork(q, FaultCampaigns))
MutationWork(q) ==
    /\ workload = "mutation"
    /\ MutationStep(q) \/ CatalogWork(q, {CHOOSE d \in Definitions : TRUE} \cup Suites \cup MutationCampaigns)
CoverageWork ==
    workload = "coverage" /\ (CoverageStep \/ (Govern(Definitions) /\ UNCHANGED executionVars))

QualityNext ==
    /\ UNCHANGED workload
    /\ \/ /\ UNCHANGED aiVars
          /\ \/ \E q \in Requests : ScheduleWork(q) \/ FaultWork(q) \/ MutationWork(q)
             \/ CoverageWork
       \/ /\ UNCHANGED executionVars
          /\ \/ workload = "attempt" /\ AttemptStep
             \/ workload = "log" /\ LogStep
             \/ workload = "risk" /\ RiskStep
             \/ workload = "suggestion" /\ SuggestionStep
             \/ workload = "chat" /\ ChatStep

QualitySpec == QualityInit /\ [][QualityNext]_qualityVars

-----------------------------------------------------------------------------
(* Every snapshot on the road, from a suite's cases to an execution or a     *)
(* run, is of a version its source was active at, and every stored aggregate *)
(* is the one its results imply.                                             *)
ExecutionsAreSound ==
    /\ workload \in QualityWorkloads /\ CatalogTypeOK /\ ExecutionTypeOK
    /\ AggregatesAreDerived
    /\ CompositionsAreOfActiveVersions
    /\ RunsAreWhatWasScheduled
    /\ ExecutionsAreOfActiveVersions

(* What the AI engine stored can be followed back to its request.            *)
EvidenceIsGoverned ==
    /\ AiTypeOK
    /\ AttemptsAreOneHistory
    /\ ConversationsAreSound
    /\ SuggestionsAreTraceable
    /\ AnalysesAreGrounded
    /\ CardsAreSnapshots

(* What is decided stays decided: a finished execution keeps its outcome and *)
(* its results, a succeeded request and a reviewed rejection stay, a stored  *)
(* card and a composition never change, no resource goes back in its         *)
(* lifecycle, and no step of the AI engine activates a definition.           *)
DecisionsStand ==
    [][/\ \A e \in FaultExecutions :
            faultRuns[e] # NotStored /\ faultRuns[e].status \in Finished => faultRuns'[e] = faultRuns[e]
       /\ \A e \in MutationExecutions :
            mutationRuns[e] # NotStored /\ mutationRuns[e].status \in Finished => mutationRuns'[e] = mutationRuns[e]
       /\ \A r \in Governed : Stored(r) =>
            /\ catalog'[r].refs = catalog[r].refs
            /\ catalog'[r].version \in {catalog[r].version, catalog[r].version + 1}
            /\ catalog'[r].status = catalog[r].status <=> catalog'[r].version = catalog[r].version
       /\ \A r \in AiRequests :
            Known(aiRequests[r]) /\ aiRequests[r].status = "succeeded" => aiRequests'[r] = aiRequests[r]
       /\ \A x \in Suggestions :
            Known(suggestions[x]) /\ suggestions[x].status \in {"rejected", "promoted"} => suggestions'[x] = suggestions[x]
       /\ \A p \in Projections : Known(projections[p]) => projections'[p] = projections[p]
       /\ workload = "suggestion" => \A d \in Definitions : IsActive(d)' => IsActive(d)
      ]_qualityVars

=============================================================================
