------------------------------ MODULE AdasScene ------------------------------
(* A world scene of a vehicle, what a sensor observes in it and how well a    *)
(* perception model has seen it.  Actors share one axis, along which the ego  *)
(* drives and the sensors look; lengths are decimetres, times seconds.        *)
(*                                                                            *)
(* Every endpoint reads the scene without a lock, compares the revision of    *)
(* the row it read and commits later: requests overlap freely, and an UPDATE  *)
(* writes the columns that differ from that row.                              *)
EXTENDS Integers, FiniteSets, FiniteSetsExt, Sequences, SequencesExt

CONSTANTS
    Actors,          \* [actor -> [type, order, trajectory]], one of them the ego;
                     \* order is the place of its identifier
    Initial,         \* [actors, context]: the scenes that clients create
    Durations,       \* seconds of an advance
    Contexts,        \* [visibility, light]: what context updates set
    Sensors,         \* [sensor -> [range, latency]]
    Lanes,           \* [lane -> offset of its centre from the axis]
    PredictionLists, \* what a model may report: sequences of <<target, id, class>>
    Requests,        \* requests in flight at one time
    Observations, Results,  \* identifiers
    Limit,           \* of a coordinate
    MaxRevision,     \* bound on the revisions
    None

(* A time of 0 comes first and times increase: WorldActor validates it.       *)
Trajectories ==
    {t \in Seq([time : Nat, x : Int, v : Int \cup {None}]) :
        /\ t # <<>> => t[1].time = 0
        /\ \A k \in 1..Len(t) - 1 : t[k].time < t[k + 1].time}

(* The columns that commands write: visibility is what the environment        *)
(* decides, light what the traffic controls show.                             *)
Settings == Contexts \cup {s.context : s \in Initial}
Row == [actors : [DOMAIN Actors -> [x : Int, v : Int]],
        visibility : {c.visibility : c \in Settings}, light : {c.light : c \in Settings},
        revision : Nat, time : Nat]

ASSUME SceneAssumption ==
    /\ \A a \in DOMAIN Actors : Actors[a].trajectory \in Trajectories
    /\ \E a \in DOMAIN Actors : Actors[a].type = "ego_vehicle"
    /\ \A s \in Initial : s.actors \in [DOMAIN Actors -> [x : -Limit..Limit, v : Int]]
    /\ Durations \subseteq Nat \ {0}
    /\ PredictionLists \subseteq Seq(STRING \X STRING \X STRING)
    /\ Limit \in Nat
    /\ None \notin Int /\ None \notin Row

VARIABLES
    scene,           \* the row
    sensors,         \* the configured ones
    observations, results,  \* rows that hold the row they refer to
    request,         \* the scene as each request has read it
    history,         \* every content a committed scene has had
    overtaken        \* a command was applied to a row that it had not read

evidenceVars == <<sensors, observations, results>>
rowVars == <<scene, history, overtaken>>
sceneVars == <<rowVars, evidenceVars, request>>

Ego == CHOOSE a \in DOMAIN Actors : Actors[a].type = "ego_vehicle"

SceneInit ==
    /\ scene = None /\ history = {} /\ overtaken = FALSE
    /\ sensors = {} /\ observations = {} /\ results = {}
    /\ request = [q \in Requests |-> None]

CreateScene ==
    /\ scene = None
    /\ \E s \in Initial :
         scene' = [actors |-> s.actors, visibility |-> s.context.visibility,
                   light |-> s.context.light, revision |-> 1, time |-> 0]
    /\ history' = {scene'}
    /\ UNCHANGED <<evidenceVars, request, overtaken>>

(* require_scene: the one SELECT of the row, which decides.                   *)
Load(q) ==
    /\ request[q] = None /\ scene # None
    /\ request' = [request EXCEPT ![q] = scene]
    /\ UNCHANGED <<rowVars, evidenceVars>>

(* The request ends; one that is refused ends with nothing stored.            *)
Finish(q) == request[q] # None /\ request' = [request EXCEPT ![q] = None]

Refuse(q) == Finish(q) /\ UNCHANGED <<rowVars, evidenceVars>>

-----------------------------------------------------------------------------
(* The scene                                                                  *)

(* Position and velocity on the trajectory; a waypoint belongs to the segment *)
(* that ends in it, and after the last one the actor keeps its velocity.      *)
TrajectoryState(trajectory, time) ==
    LET last == Last(trajectory)
        Velocity(w, otherwise) == IF w.v = None THEN otherwise ELSE w.v
    IN  IF time >= last.time
        THEN [x |-> last.x + Velocity(last, 0) * (time - last.time), v |-> Velocity(last, 0)]
        ELSE LET i == Min({k \in 1..Len(trajectory) - 1 : time <= trajectory[k + 1].time})
                 start == trajectory[i]
                 end == trajectory[i + 1]
                 average == (end.x - start.x) \div (end.time - start.time)
             IN  [x |-> start.x + ((end.x - start.x) * (time - start.time)) \div (end.time - start.time),
                  v |-> Velocity(end, average)]

(* Rows are validated when they are read and trajectory states when they are  *)
(* made; an actor that just drives on may be stored outside the world.        *)
InWorld(actors, A) == \A a \in A : actors[a].x \in -Limit..Limit
Scripted == {a \in DOMAIN Actors : Actors[a].trajectory # <<>>}

Advanced(s, seconds) ==
    [a \in DOMAIN Actors |->
        IF a \in Scripted THEN TrajectoryState(Actors[a].trajectory, s.time + seconds)
        ELSE [s.actors[a] EXCEPT !.x = @ + s.actors[a].v * seconds]]

(* The flush of a request that read the row old and leaves it as new.         *)
Flush(old, new) ==
    /\ scene' = [column \in DOMAIN scene |->
                   IF new[column] # old[column] THEN new[column] ELSE scene[column]]
    /\ history' = history \cup {scene'}
    /\ overtaken' = (overtaken \/ scene # old)
    /\ UNCHANGED evidenceVars

AdvanceScene(q, seconds) ==
    /\ Finish(q)
    /\ LET old == request[q]
           advanced == Advanced(old, seconds)
       IN  /\ old.revision < MaxRevision
           /\ InWorld(old.actors, DOMAIN Actors) /\ InWorld(advanced, Scripted)
           /\ Flush(old, [old EXCEPT !.actors = advanced,
                                     !.revision = @ + 1, !.time = @ + seconds])

UpdateSceneContext(q, context) ==
    /\ Finish(q)
    /\ LET old == request[q] IN
         /\ old.revision < MaxRevision
         /\ Flush(old, [old EXCEPT !.visibility = context.visibility, !.light = context.light,
                                   !.revision = @ + 1])

-----------------------------------------------------------------------------
(* Observations                                                               *)

(* On one axis every actor in range and ahead has the same bearing: the first *)
(* by distance, then by identifier, hides the others.                         *)
Distance(s, a) == s.actors[a].x - s.actors[Ego].x
Candidates(s, sensor) ==
    LET effective == Min({Sensors[sensor].range, s.visibility})
    IN  {a \in DOMAIN Actors \ {Ego} : Distance(s, a) \in 0..effective}
SimulateDetections(s, sensor) ==
    {a \in Candidates(s, sensor) :
        \A b \in Candidates(s, sensor) \ {a} :
            \/ Distance(s, a) < Distance(s, b)
            \/ Distance(s, a) = Distance(s, b) /\ Actors[a].order < Actors[b].order}

Observation(id, s, sensor) ==
    [id |-> id, sensor |-> sensor, revision |-> s.revision, time |-> s.time,
     observed |-> Max({0, s.time - Sensors[sensor].latency}),
     detections |-> SimulateDetections(s, sensor)]

CreateSensor(q, sensor) ==
    /\ Finish(q)
    /\ sensor \notin sensors
    /\ sensors' = sensors \cup {sensor}
    /\ UNCHANGED <<rowVars, observations, results>>

CaptureObservation(q, id, sensor) ==
    /\ Finish(q)
    /\ InWorld(request[q].actors, DOMAIN Actors)
    /\ \A o \in observations : <<o.sensor, o.id>> # <<sensor, id>>
    /\ observations' = observations \cup {Observation(id, request[q], sensor)}
    /\ UNCHANGED <<rowVars, sensors, results>>

-----------------------------------------------------------------------------
(* Perception results                                                         *)

TargetType(a) == IF Actors[a].type = "pedestrian" THEN "pedestrian" ELSE "object"
GroundTruth(s, observation) ==
    {<<TargetType(a), a, Actors[a].type>> : a \in observation.detections}
        \cup {<<"lane", l, "lane">> : l \in DOMAIN Lanes}
        \cup {<<"signal", "light", s.light>>}

(* A prediction matches an item of the truth once.                            *)
ScorePredictions(predictions, truth) ==
    LET matched == ToSet(predictions) \cap truth
        hits == Cardinality(matched)
    IN  [tp |-> hits, fp |-> Len(predictions) - hits, fn |-> Cardinality(truth) - hits]

Store(q, id, observation, predictions) ==
    /\ InWorld(request[q].actors, DOMAIN Actors)
    /\ \A r \in results : <<r.observation, r.id>> # <<observation, id>>
    /\ results' = results \cup
         {[id |-> id, observation |-> observation, revision |-> observation.revision,
           predictions |-> predictions,
           score |-> ScorePredictions(predictions, GroundTruth(request[q], observation))]}
    /\ UNCHANGED <<rowVars, sensors, observations>>

\* Faulty variant: the score is of the scene as it is now.
CreatePerceptionUnchecked(q, id, observation, predictions) ==
    Finish(q) /\ Store(q, id, observation, predictions)

CreatePerceptionResult(q, id, observation, predictions) ==
    /\ Finish(q)
    /\ request[q].revision = observation.revision
    /\ Store(q, id, observation, predictions)

SceneStep ==
    \/ CreateScene
    \/ \E q \in Requests :
        \/ Load(q) \/ Refuse(q)
        \/ \E seconds \in Durations : AdvanceScene(q, seconds)
        \/ \E context \in Contexts : UpdateSceneContext(q, context)
        \/ \E sensor \in DOMAIN Sensors : CreateSensor(q, sensor)
        \/ \E id \in Observations, sensor \in sensors : CaptureObservation(q, id, sensor)
        \/ \E id \in Results, observation \in observations, predictions \in PredictionLists :
              CreatePerceptionResult(q, id, observation, predictions)

-----------------------------------------------------------------------------
SceneTypeOK ==
    /\ scene \in Row \cup {None} /\ history \subseteq Row /\ overtaken \in BOOLEAN
    /\ scene # None => scene \in history
    /\ \A o \in observations : o.sensor \in sensors /\ o.detections \subseteq DOMAIN Actors
    /\ \A r \in results : r.observation \in observations
    /\ request \in [Requests -> history \cup {None}]

(* ADAS-F-016, ADAS-NF-009: every stored observation and score can be         *)
(* computed again from a scene that was committed at the revision it names,   *)
(* both from the same one unless a command overtook another.                  *)
ResultsAreReproducible ==
    /\ \A o \in observations : \E s \in history : o = Observation(o.id, s, o.sensor)
    /\ \A r \in results : \E s \in history :
         /\ s.revision = r.observation.revision
         /\ r.score = ScorePredictions(r.predictions, GroundTruth(s, r.observation))

(* Where an actor is and how fast it moves depends on the time only, not on   *)
(* the advances that led there, as long as every command was applied to the   *)
(* row it had read: one that had not writes its columns beside older ones.    *)
ActorsFollowTheirScripts ==
    ~overtaken =>
        \A s, t \in history : \A a \in DOMAIN Actors :
            /\ s.time = t.time => s.actors[a] = t.actors[a]
            /\ s.time > 0 /\ a \in Scripted =>
                 s.actors[a] = TrajectoryState(Actors[a].trajectory, s.time)
            /\ s.time = 0 /\ a \notin Scripted =>
                 t.actors[a] = [s.actors[a] EXCEPT !.x = @ + s.actors[a].v * t.time]
=============================================================================
