---------------------------- MODULE AdasScenarios ----------------------------
(* What the planner decides from a perception result, the scenarios that      *)
(* judge its decisions under injected faults, and the evidence that ties a    *)
(* scenario to a test run, its telemetry and its vehicle commands.            *)
EXTENDS AdasScene

CONSTANTS
    Evaluations, Executions, Evidences,   \* identifiers
    Parameters,      \* [lane, following, warning, braking, margin] of a request
    EgoWidth, LaneWidth,
    Faults,          \* <<>> or <<place in the list, class or None>>: misclassify or drop
    Expectations,    \* [maneuver, alerts, f1] of a scenario, f1 in percent
    Run,             \* the test run, on the vehicle of the scene
    References       \* [telemetry, commands, displayed]: what clients attach

\* The brake threshold of a request is below its warning threshold, in seconds.
ASSUME ScenarioAssumption ==
    /\ Parameters \subseteq [lane : DOMAIN Lanes, following : Nat, warning : Nat,
                             braking : Nat, margin : Nat]
    /\ \A p \in Parameters : p.braking < p.warning
    /\ Lanes \in [DOMAIN Lanes -> Int] /\ LaneWidth \in Nat /\ EgoWidth \in Nat

VARIABLES evaluations, executions, evidence

scenarioVars == <<evaluations, executions, evidence>>
vars == <<sceneVars, scenarioVars>>

Init == SceneInit /\ evaluations = {} /\ executions = {} /\ evidence = {}

-----------------------------------------------------------------------------
(* evaluate_plan.  An actor counts once a prediction names it as an object or *)
(* a pedestrian, whatever class it gives.                                     *)
Perceived(predictions) ==
    {p[2] : p \in {t \in ToSet(predictions) : t[1] \in {"object", "pedestrian"}}} \cap DOMAIN Actors
InFront(s, predictions) == {a \in Perceived(predictions) : Distance(s, a) > 0}

ClosingSpeed(s, a) == s.actors[Ego].v - s.actors[a].v
TtcWithin(s, predictions, seconds) ==
    \E a \in InFront(s, predictions) :
        ClosingSpeed(s, a) > 0 /\ Distance(s, a) <= seconds * ClosingSpeed(s, a)

RiskMetrics(s, predictions, parameters) ==
    [imminent |-> TtcWithin(s, predictions, parameters.braking),
     warned |-> TtcWithin(s, predictions, parameters.warning),
     safe |-> \A a \in InFront(s, predictions) :
                Actors[a].type = "vehicle" => Distance(s, a) >= parameters.following,
     departure |-> Max({Lanes[parameters.lane], -Lanes[parameters.lane]})
                     > Max({0, (LaneWidth - EgoWidth) \div 2 - parameters.margin}),
     red |-> \E p \in ToSet(predictions) : p[1] = "signal" /\ p[3] = "red"]

\* Faulty variant: the red signal is asked for first.
ManeuverSignalFirst(m) ==
    IF m.red THEN "stop"
    ELSE IF m.imminent THEN "emergency_brake"
    ELSE IF m.warned \/ ~m.safe THEN "brake"
    ELSE IF m.departure THEN "lane_centering"
    ELSE "maintain_lane"

Maneuver(m) ==
    IF m.imminent THEN "emergency_brake"
    ELSE IF m.red THEN "stop"
    ELSE IF m.warned \/ ~m.safe THEN "brake"
    ELSE IF m.departure THEN "lane_centering"
    ELSE "maintain_lane"

Alerts(m) ==
    {a \in {<<"forward_collision", IF m.imminent THEN "critical" ELSE "warning">>} : m.warned}
        \cup {a \in {<<"unsafe_following_distance", "warning">>} : ~m.safe}
        \cup {a \in {<<"lane_departure", "warning">>} : m.departure}
        \cup {a \in {<<"red_signal", "critical">>} : m.red}

Decision(s, predictions, parameters) ==
    LET m == RiskMetrics(s, predictions, parameters)
    IN  [maneuver |-> Maneuver(m), alerts |-> Alerts(m)]

CreatePlanningEvaluation(q, id, result, parameters) ==
    /\ Finish(q)
    /\ request[q].revision = result.revision
    /\ InWorld(request[q].actors, DOMAIN Actors)
    /\ \A e \in evaluations : <<e.result, e.id>> # <<result, id>>
    /\ evaluations' = evaluations \cup
         {[id |-> id, result |-> result, parameters |-> parameters,
           decision |-> Decision(request[q], result.predictions, parameters)]}
    /\ UNCHANGED <<rowVars, evidenceVars, executions, evidence>>

-----------------------------------------------------------------------------
(* Scenarios                                                                  *)

\* A fault names a prediction that the result has.
InjectFaults(predictions, fault) ==
    IF fault = <<>> THEN predictions
    ELSE IF fault[2] = None THEN RemoveAt(predictions, fault[1])
    ELSE [predictions EXCEPT ![fault[1]] = <<@[1], @[2], fault[2]>>]

(* 2 tp / (2 tp + fp + fn) of a truth that is never empty.                    *)
F1AtLeast(score, percent) == 200 * score.tp >= percent * (2 * score.tp + score.fp + score.fn)

AlertTypes(alerts) == {a[1] : a \in alerts}
Assertions(decision, score, expected) ==
    <<decision.maneuver = expected.maneuver,
      expected.alerts \subseteq AlertTypes(decision.alerts),
      F1AtLeast(score, expected.f1)>>

(* Its identifier is unique in the scene, whichever result it is for; the     *)
(* stored execution answers a repeated command and refuses another one.       *)
ExecuteScenario(q, id, result, parameters, fault, expected) ==
    /\ Finish(q)
    /\ request[q].revision = result.revision
    /\ fault # <<>> => fault[1] \in DOMAIN result.predictions
    /\ InWorld(request[q].actors, DOMAIN Actors)
    /\ \A x \in executions : x.id # id
    /\ LET decision == Decision(request[q], InjectFaults(result.predictions, fault), parameters)
           passed == Assertions(decision, result.score, expected)
       IN  executions' = executions \cup
             {[id |-> id, result |-> result, parameters |-> parameters, fault |-> fault,
               expected |-> expected, decision |-> decision,
               coverage |-> Cardinality({i \in 1..3 : passed[i]}),
               status |-> IF \A i \in 1..3 : passed[i] THEN "passed" ELSE "failed"]}
    /\ UNCHANGED <<rowVars, evidenceVars, evaluations, evidence>>

-----------------------------------------------------------------------------
(* Integration evidence: one for a scenario, of references that exist, belong *)
(* to the vehicle and the test run, and display the stored status.            *)
CreateIntegrationEvidence(q, id, execution, references) ==
    /\ Finish(q)
    /\ \A e \in evidence : e.id # id /\ e.execution # execution.id
    /\ references.telemetry \cup references.commands \cup references.displayed # {}
    /\ references.telemetry \subseteq Run.telemetry
    /\ references.commands \subseteq Run.commands
    /\ references.displayed \subseteq {execution.status}
    /\ evidence' = evidence \cup
         {[id |-> id, execution |-> execution.id, references |-> references,
           status |-> execution.status, maneuver |-> execution.decision.maneuver,
           alerts |-> AlertTypes(execution.decision.alerts), coverage |-> execution.coverage]}
    /\ UNCHANGED <<rowVars, evidenceVars, evaluations, executions>>

Next ==
    \/ SceneStep /\ UNCHANGED scenarioVars
    \/ \E q \in Requests, result \in results, parameters \in Parameters :
         \/ \E id \in Evaluations : CreatePlanningEvaluation(q, id, result, parameters)
         \/ \E id \in Executions, fault \in Faults, expected \in Expectations :
              ExecuteScenario(q, id, result, parameters, fault, expected)
    \/ \E q \in Requests, id \in Evidences, execution \in executions, references \in References :
         CreateIntegrationEvidence(q, id, execution, references)

Spec == Init /\ [][Next]_vars

-----------------------------------------------------------------------------
(* ADAS-F-028, ADAS-F-039: every decision can be computed again from a scene  *)
(* committed at the revision of its perception result, and evidence shows     *)
(* what its execution stored.                                                 *)
DecisionsAreReproducible ==
    /\ \A e \in evaluations : \E s \in history :
         s.revision = e.result.revision /\ e.decision = Decision(s, e.result.predictions, e.parameters)
    /\ \A x \in executions : \E s \in history :
         /\ s.revision = x.result.revision
         /\ x.decision = Decision(s, InjectFaults(x.result.predictions, x.fault), x.parameters)
    /\ \A e \in evidence : \E x \in executions :
         /\ e.execution = x.id /\ e.status = x.status
         /\ e.references.displayed \subseteq {x.status}
         /\ e.alerts = AlertTypes(x.decision.alerts)

(* Scene, observation, perception, plan and scenario tell one story.          *)
EvidenceIsReproducible ==
    /\ SceneTypeOK
    /\ ResultsAreReproducible /\ DecisionsAreReproducible
    /\ ActorsFollowTheirScripts

(* ADAS-F-032: the maneuver is at least as strong as every alert asks for and *)
(* no stronger, in each of the thresholds.                                    *)
ManeuverAnswers(decision) ==
    LET types == AlertTypes(decision.alerts)
    IN  /\ decision.maneuver = "emergency_brake" <=> <<"forward_collision", "critical">> \in decision.alerts
        /\ decision.maneuver = "maintain_lane" <=> types = {}
        /\ decision.maneuver = "lane_centering" <=> types = {"lane_departure"}
        /\ "red_signal" \in types => decision.maneuver \in {"stop", "emergency_brake"}

(* A prediction that a fault drops only takes alerts away, and a scenario     *)
(* passes exactly when it met all it expected, so that one whose fault hides  *)
(* the expected alert fails.                                                  *)
DecisionsAnswerRisks ==
    /\ \A e \in evaluations \cup executions : ManeuverAnswers(e.decision)
    /\ \A x \in executions, e \in evaluations :
         /\ ~overtaken
         /\ e.result = x.result /\ e.parameters = x.parameters
         /\ x.fault # <<>> => x.fault[2] = None
         => AlertTypes(x.decision.alerts) \subseteq AlertTypes(e.decision.alerts)
    /\ \A x \in executions : x.status = "passed" =>
         /\ x.coverage = 3
         /\ x.decision.maneuver = x.expected.maneuver
         /\ x.expected.alerts \subseteq AlertTypes(x.decision.alerts)
=============================================================================
