----------------------------- MODULE AdasProofs -----------------------------
(* The scenes, observations, scores, plans, scenarios and evidence of a       *)
(* vehicle, for any actors, trajectories, sensors, requests and identifiers:  *)
(* everything stored can be computed again from a committed scene, motion     *)
(* depends on time only, and maneuvers answer the alerts.                     *)
EXTENDS AdasScenarios, FiniteSetTheorems, SequenceTheorems, TLAPS

-----------------------------------------------------------------------------
(* The operators                                                              *)

\* Where an actor is and how fast it moves.
Motion == [x : Int, v : Int]

\* A nonempty set of naturals has a least one, which Min names.
LEMMA MinIsIn ==
    ASSUME NEW S \in SUBSET Nat, S # {}
    PROVE  Min(S) \in S
<1> DEFINE Below(n) == 0 .. n
           T == {Below(n) : n \in S}
           R == StrictSubsetOrdering(Nat)
           F == FiniteSubsetsOf(Nat)
<1>1. T \subseteq F /\ T # {}
  <2>1. \A n \in S : Below(n) \in SUBSET Nat /\ IsFiniteSet(Below(n))
    BY FS_Interval
  <2> QED
    BY <2>1 DEF FiniteSubsetsOf
<1>2. IsWellFoundedOn(R, F)
  BY FS_StrictSubsetOrderingWellFounded
<1> HIDE DEF R, F, T
<1>3. PICK t \in T : \A u \in T : ~(<<u, t>> \in R)
  BY ONLY <1>1, <1>2, WFMin
<1>4. PICK x \in S : t = Below(x)
  BY <1>3 DEF T
<1>5. ASSUME NEW y \in S, y < x PROVE FALSE
  <2>1. Below(y) \subseteq Below(x) /\ Below(x) \subseteq Nat /\ Below(y) \subseteq Nat
    BY <1>5
  <2>2. x \in Below(x) /\ x \notin Below(y)
    BY <1>5
  <2>3. Below(y) \in T
    BY DEF T
  <2> QED
    BY <1>3, <1>4, <2>1, <2>2, <2>3 DEF R, StrictSubsetOrdering
<1>6. \A y \in S : x <= y
  BY <1>5
<1> QED
  BY <1>6 DEF Min

\* The larger of two integers.
LEMMA MaxOfTwo ==
    ASSUME NEW m \in Int, NEW n \in Int
    PROVE  Max({m, n}) \in Int
<1>1. \E x \in {m, n} : \A y \in {m, n} : x >= y
  <2>1. CASE m >= n
    BY <2>1
  <2>2. CASE ~(m >= n)
    BY <2>2
  <2> QED
    BY <2>1, <2>2
<1> QED
  BY <1>1 DEF Max

\* A trajectory gives a position and a velocity at every time.
LEMMA TrajectoryTyped ==
    ASSUME NEW tr \in Trajectories, tr # <<>>, NEW time \in Nat, None \notin Int
    PROVE  TrajectoryState(tr, time) \in Motion
<1> DEFINE W == [time : Nat, x : Int, v : Int \cup {None}]
           Velocity(w, otherwise) == IF w.v = None THEN otherwise ELSE w.v
<1>1. /\ tr \in Seq(W) /\ tr[1].time = 0
      /\ \A k \in 1..Len(tr) - 1 : tr[k].time < tr[k + 1].time
  BY DEF Trajectories
<1>2. /\ Len(tr) \in Nat /\ Len(tr) >= 1
      /\ \A k \in 1..Len(tr) : tr[k] \in W
  <2> HIDE DEF W
  <2> QED
    BY <1>1, EmptySeq, LenProperties, ElementOfSeq
<1>3. \A w \in W, o \in Int : Velocity(w, o) \in Int
  OBVIOUS
<1>4. CASE time >= Last(tr).time
  <2>1. Last(tr) \in W
    BY <1>2 DEF Last
  <2>2. Velocity(Last(tr), 0) \in Int
    BY <2>1, <1>3
  <2>3. Last(tr).x \in Int /\ time - Last(tr).time \in Int
    BY <2>1
  <2>4. Last(tr).x + Velocity(Last(tr), 0) * (time - Last(tr).time) \in Int
    BY ONLY <2>2, <2>3
  <2> QED
    BY <1>4, <2>2, <2>4 DEF TrajectoryState, Motion
<1>5. CASE ~(time >= Last(tr).time)
  <2> DEFINE S == {k \in 1..Len(tr) - 1 : time <= tr[k + 1].time}
             i == Min(S)
  <2>1. Len(tr) - 1 \in S
    <3>1. tr[Len(tr)].time \in Nat
      BY <1>2
    <3>2. time < tr[Len(tr)].time
      BY <1>5, <3>1 DEF Last
    <3>3. Len(tr) # 1
      BY <3>2, <1>1
    <3> QED
      <4>1. /\ Len(tr) - 1 \in 1 .. Len(tr) - 1 /\ (Len(tr) - 1) + 1 = Len(tr)
        <5>1. \A n \in Nat : n >= 1 /\ n # 1 => n - 1 \in 1 .. n - 1 /\ (n - 1) + 1 = n
          OBVIOUS
        <5> HIDE DEF S, W
        <5> QED
          BY ONLY <5>1, <1>2, <3>3
      <4>2. time <= tr[(Len(tr) - 1) + 1].time
        BY <3>1, <3>2, <4>1
      <4> QED
        BY <4>1, <4>2
  <2>2. i \in S
    <3>1. S \in SUBSET Nat /\ S # {}
      <4>1. \A n \in Nat : 1 .. n - 1 \subseteq Nat
        OBVIOUS
      <4> QED
        BY <1>2, <2>1, <4>1
    <3> HIDE DEF S
    <3> QED
      BY <3>1, MinIsIn
  <2> HIDE DEF i
  <2>3. /\ tr[i] \in W /\ tr[i + 1] \in W /\ tr[i].time < tr[i + 1].time
    BY <2>2, <1>1, <1>2
  <2> DEFINE start == tr[i]
             end == tr[i + 1]
             average == (end.x - start.x) \div (end.time - start.time)
             way == ((end.x - start.x) * (time - start.time)) \div (end.time - start.time)
  <2>4. /\ end.x - start.x \in Int /\ time - start.time \in Int /\ start.x \in Int
        /\ end.time - start.time \in Nat \ {0}
    BY <2>3
  <2>5. (end.x - start.x) * (time - start.time) \in Int
    BY ONLY <2>4
  <2>6. average \in Int /\ way \in Int
    <3>1. \A n \in Int, d \in Nat \ {0} : n \div d \in Int
      OBVIOUS
    <3> QED
      BY ONLY <3>1, <2>4, <2>5
  <2> HIDE DEF average, way
  <2>7. start.x + way \in Int /\ Velocity(end, average) \in Int
    BY <2>3, <2>4, <2>6, <1>3
  <2>8. TrajectoryState(tr, time) = [x |-> start.x + way, v |-> Velocity(end, average)]
    BY <1>5 DEF TrajectoryState, i, average, way
  <2> QED
    BY <2>7, <2>8 DEF Motion
<1> QED
  BY <1>4, <1>5

\* Time leaves every actor with a position and a velocity.
LEMMA AdvancedTyped ==
    ASSUME NEW s \in Row, NEW seconds \in Nat
    PROVE  Advanced(s, seconds) \in [DOMAIN Actors -> Motion]
<1> SUFFICES ASSUME NEW a \in DOMAIN Actors
             PROVE  (IF a \in Scripted THEN TrajectoryState(Actors[a].trajectory, s.time + seconds)
                     ELSE [s.actors[a] EXCEPT !.x = @ + s.actors[a].v * seconds]) \in Motion
  BY DEF Advanced
<1>1. s.time + seconds \in Nat /\ s.actors[a] \in Motion
  BY DEF Row, Motion
<1>2. CASE a \in Scripted
  <2>1. Actors[a].trajectory \in Trajectories /\ Actors[a].trajectory # <<>> /\ None \notin Int
    BY <1>2, SceneAssumption DEF Scripted
  <2> QED
    BY <1>1, <1>2, <2>1, TrajectoryTyped
<1>3. CASE a \notin Scripted
  <2>1. s.actors[a].x + s.actors[a].v * seconds \in Int
    BY <1>1 DEF Motion
  <2> QED
    BY <1>1, <1>3, <2>1 DEF Motion
<1> QED
  BY <1>2, <1>3

\* What is left of a list after one prediction is dropped was in it.
LEMMA DroppedFewer ==
    ASSUME NEW S, NEW list \in Seq(S), NEW i \in DOMAIN list
    PROVE  ToSet(RemoveAt(list, i)) \subseteq ToSet(list)
<1> DEFINE f == SubSeq(list, 1, i - 1)
           g == SubSeq(list, i + 1, Len(list))
<1>1. i \in 1..Len(list) /\ Len(list) \in Nat
  OBVIOUS
<1>2. /\ f \in Seq(S) /\ Len(f) = i - 1 /\ \A k \in 1..Len(f) : f[k] = list[k]
  BY <1>1
<1>3. /\ g \in Seq(S) /\ Len(g) = Len(list) - i
      /\ \A k \in 1..Len(g) : g[k] = list[k + i]
  BY <1>1
<1>4. RemoveAt(list, i) = f \o g
  BY ONLY DEF RemoveAt, f, g
<1> HIDE DEF f, g
<1>5. /\ DOMAIN (f \o g) = 1..Len(f) + Len(g) /\ Len(f) \in Nat /\ Len(g) \in Nat
      /\ \A k \in 1..Len(f) + Len(g) : (f \o g)[k] = IF k <= Len(f) THEN f[k] ELSE g[k - Len(f)]
  <2>1. /\ f \o g \in Seq(S) /\ Len(f \o g) = Len(f) + Len(g)
        /\ \A k \in 1..Len(f) + Len(g) : (f \o g)[k] = IF k <= Len(f) THEN f[k] ELSE g[k - Len(f)]
    BY <1>2, <1>3, ConcatProperties
  <2>2. DOMAIN (f \o g) = 1..Len(f \o g) /\ Len(f) \in Nat /\ Len(g) \in Nat
    BY <1>2, <1>3, <2>1, LenProperties
  <2> QED
    BY ONLY <2>1, <2>2
<1>6. \A x \in ToSet(RemoveAt(list, i)) : \E k \in 1..Len(f) + Len(g) : x = (f \o g)[k]
  <2>1. \A x \in ToSet(f \o g) : \E k \in DOMAIN (f \o g) : x = (f \o g)[k]
    BY ONLY DEF ToSet
  <2>2. DOMAIN (f \o g) = 1..Len(f) + Len(g)
    BY ONLY <1>5
  <2> QED
    BY ONLY <1>4, <2>1, <2>2, Zenon
<1>7. ASSUME NEW k \in 1..Len(f) + Len(g)
       PROVE  (f \o g)[k] \in ToSet(list)
  <2>1. CASE k <= Len(f)
    <3>1. k \in 1..Len(f) /\ k \in 1..Len(list)
      BY ONLY <1>1, <1>2, <1>5, <2>1, <1>7
    <3>2. (f \o g)[k] = list[k]
      BY ONLY <1>2, <1>5, <2>1, <3>1, <1>7
    <3> QED
      BY <3>1, <3>2 DEF ToSet
  <2>2. CASE k > Len(f)
    <3>1. (f \o g)[k] = g[k - Len(f)] /\ k - Len(f) \in 1..Len(g)
      BY ONLY <1>5, <2>2, <1>7
    <3>2. k - Len(f) + i \in 1..Len(list)
      <4>1. \A n \in Nat : \A j \in 1 .. n : \A m \in 1 .. n - j : m + j \in 1 .. n
        OBVIOUS
      <4>2. k - Len(f) \in 1 .. Len(list) - i
        BY ONLY <3>1, <1>3
      <4> QED
        BY ONLY <4>1, <4>2, <1>1
    <3>3. g[k - Len(f)] = list[k - Len(f) + i]
      BY <3>1, <1>3
    <3> QED
      BY <3>1, <3>2, <3>3, <1>1 DEF ToSet
  <2> QED
    BY ONLY <1>5, <1>7, <2>2, <2>1
<1> QED
  BY ONLY <1>6, <1>7, Zenon

\* A decision in terms of its five risks.
LEMMA RisksAnswered ==
    ASSUME NEW imminent \in BOOLEAN, NEW warned \in BOOLEAN, NEW safe \in BOOLEAN,
           NEW departure \in BOOLEAN, NEW red \in BOOLEAN, imminent => warned
    PROVE  LET m == [imminent |-> imminent, warned |-> warned, safe |-> safe,
                     departure |-> departure, red |-> red]
           IN  ManeuverAnswers([maneuver |-> Maneuver(m), alerts |-> Alerts(m)])
<1> DEFINE m == [imminent |-> imminent, warned |-> warned, safe |-> safe,
                 departure |-> departure, red |-> red]
           collision == <<"forward_collision", IF imminent THEN "critical" ELSE "warning">>
           types == AlertTypes(Alerts(m))
<1>1. \A a : a \in Alerts(m) <=>
         \/ warned /\ a = collision
         \/ ~safe /\ a = <<"unsafe_following_distance", "warning">>
         \/ departure /\ a = <<"lane_departure", "warning">>
         \/ red /\ a = <<"red_signal", "critical">>
  BY DEF Alerts
<1>2. <<"forward_collision", "critical">> \in Alerts(m) <=> imminent
  BY <1>1
<1>3. \A t : t \in types <=>
         \/ warned /\ t = "forward_collision"
         \/ ~safe /\ t = "unsafe_following_distance"
         \/ departure /\ t = "lane_departure"
         \/ red /\ t = "red_signal"
  <2> DEFINE alerts == Alerts(m)
  <2>1. \A t : t \in types <=> \E a \in alerts : t = a[1]
    BY DEF AlertTypes
  <2>2. /\ collision[1] = "forward_collision"
        /\ <<"unsafe_following_distance", "warning">>[1] = "unsafe_following_distance"
        /\ <<"lane_departure", "warning">>[1] = "lane_departure"
        /\ <<"red_signal", "critical">>[1] = "red_signal"
    OBVIOUS
  <2> HIDE DEF m, collision, types, alerts
  <2> DEFINE Named(t) ==
               \/ warned /\ t = "forward_collision"
               \/ ~safe /\ t = "unsafe_following_distance"
               \/ departure /\ t = "lane_departure"
               \/ red /\ t = "red_signal"
  <2>3. \A t : t \in types => Named(t)
    BY <1>1, <2>1, <2>2 DEF alerts
  <2>4. ASSUME NEW t, Named(t) PROVE t \in types
    <3>1. CASE warned /\ t = "forward_collision"
      BY <1>1, <2>1, <2>2, <3>1 DEF alerts
    <3>2. CASE ~safe /\ t = "unsafe_following_distance"
      BY <1>1, <2>1, <2>2, <3>2 DEF alerts
    <3>3. CASE departure /\ t = "lane_departure"
      BY <1>1, <2>1, <2>2, <3>3 DEF alerts
    <3>4. CASE red /\ t = "red_signal"
      BY <1>1, <2>1, <2>2, <3>4 DEF alerts
    <3> QED
      BY <2>4, <3>1, <3>2, <3>3, <3>4
  <2> QED
    BY <2>3, <2>4
<1>4. /\ Maneuver(m) = "emergency_brake" <=> imminent
      /\ Maneuver(m) = "maintain_lane" <=> ~warned /\ safe /\ ~departure /\ ~red
      /\ Maneuver(m) = "lane_centering" <=> ~warned /\ safe /\ departure /\ ~red
      /\ red => Maneuver(m) \in {"stop", "emergency_brake"}
  BY DEF Maneuver
<1> HIDE DEF types
<1>5. /\ types = {} <=> ~warned /\ safe /\ ~departure /\ ~red
      /\ types = {"lane_departure"} <=> ~warned /\ safe /\ departure /\ ~red
      /\ "red_signal" \in types <=> red
  BY <1>3
<1> QED
  BY <1>2, <1>4, <1>5 DEF ManeuverAnswers, types

\* The five risks that RiskMetrics finds in a scene.
Risks(s, predictions, p, imminent, warned, safe, departure, red) ==
    /\ imminent <=> TtcWithin(s, predictions, p.braking)
    /\ warned <=> TtcWithin(s, predictions, p.warning)
    /\ safe <=> \A a \in InFront(s, predictions) :
                   Actors[a].type = "vehicle" => Distance(s, a) >= p.following
    /\ red <=> \E t \in ToSet(predictions) : t[1] = "signal" /\ t[3] = "red"
    /\ departure <=> (Max({Lanes[p.lane], -Lanes[p.lane]})
                        > Max({0, (LaneWidth - EgoWidth) \div 2 - p.margin}))
    /\ RiskMetrics(s, predictions, p) =
         [imminent |-> imminent, warned |-> warned, safe |-> safe,
          departure |-> departure, red |-> red]

\* The risks of a decision are truth values.
LEMMA RisksAreBoolean ==
    ASSUME NEW s, NEW predictions, NEW p \in Parameters
    PROVE  \E imminent, warned, safe, departure, red \in BOOLEAN :
             Risks(s, predictions, p, imminent, warned, safe, departure, red)
<1>1. PICK imminent \in BOOLEAN : imminent = TtcWithin(s, predictions, p.braking)
  BY DEF TtcWithin
<1>2. PICK warned \in BOOLEAN : warned = TtcWithin(s, predictions, p.warning)
  BY DEF TtcWithin
<1>3. PICK safe \in BOOLEAN :
        safe = \A a \in InFront(s, predictions) :
                  Actors[a].type = "vehicle" => Distance(s, a) >= p.following
  OBVIOUS
<1>4. PICK departure \in BOOLEAN :
        departure = (Max({Lanes[p.lane], -Lanes[p.lane]})
                       > Max({0, (LaneWidth - EgoWidth) \div 2 - p.margin}))
  <2>1. /\ Lanes[p.lane] \in Int /\ -Lanes[p.lane] \in Int
        /\ (LaneWidth - EgoWidth) \div 2 - p.margin \in Int
    BY ScenarioAssumption
  <2>2. Max({Lanes[p.lane], -Lanes[p.lane]}) \in Int
    BY <2>1, MaxOfTwo
  <2>3. Max({0, (LaneWidth - EgoWidth) \div 2 - p.margin}) \in Int
    BY <2>1, MaxOfTwo
  <2>4. ASSUME NEW m \in Int, NEW n \in Int
        PROVE  \E b \in BOOLEAN : b = (m > n)
    <3>1. (m > n) \in BOOLEAN
      BY SMT
    <3> QED
      BY <3>1, Zenon
  <2> QED
    BY ONLY <2>2, <2>3, <2>4
<1>5. PICK red \in BOOLEAN :
        red = \E t \in ToSet(predictions) : t[1] = "signal" /\ t[3] = "red"
  OBVIOUS
<1>6. RiskMetrics(s, predictions, p) =
        [imminent |-> imminent, warned |-> warned, safe |-> safe,
         departure |-> departure, red |-> red]
  BY ONLY <1>1, <1>2, <1>3, <1>4, <1>5 DEF RiskMetrics
<1> QED
  <2>1. /\ imminent <=> TtcWithin(s, predictions, p.braking)
        /\ warned <=> TtcWithin(s, predictions, p.warning)
    BY ONLY <1>1, <1>2
  <2>2. safe <=> \A a \in InFront(s, predictions) :
                   Actors[a].type = "vehicle" => Distance(s, a) >= p.following
    BY ONLY <1>3
  <2>3. red <=> \E t \in ToSet(predictions) : t[1] = "signal" /\ t[3] = "red"
    BY ONLY <1>5
  <2>4. departure <=> (Max({Lanes[p.lane], -Lanes[p.lane]})
                         > Max({0, (LaneWidth - EgoWidth) \div 2 - p.margin}))
    BY ONLY <1>4
  <2> QED
    BY ONLY <1>6, <2>1, <2>2, <2>3, <2>4, Zenon DEF Risks

\* Distances and closing speeds are integers.
LEMMA DistancesTyped ==
    ASSUME NEW s \in Row, NEW a \in DOMAIN Actors
    PROVE  Distance(s, a) \in Int /\ ClosingSpeed(s, a) \in Int
<1>1. Ego \in DOMAIN Actors
  BY SceneAssumption DEF Ego
<1>2. s.actors[a] \in Motion /\ s.actors[Ego] \in Motion
  BY <1>1 DEF Row, Motion
<1> QED
  BY <1>2 DEF Motion, Distance, ClosingSpeed

\* ADAS-F-032 of one decision.
LEMMA DecisionAnswers ==
    ASSUME NEW s \in Row, NEW predictions, NEW p \in Parameters
    PROVE  ManeuverAnswers(Decision(s, predictions, p))
<1>1. p.braking \in Nat /\ p.warning \in Nat /\ p.braking < p.warning
  BY ScenarioAssumption
<1>2. TtcWithin(s, predictions, p.braking) => TtcWithin(s, predictions, p.warning)
  <2>1. SUFFICES ASSUME NEW a \in InFront(s, predictions), ClosingSpeed(s, a) > 0,
                        Distance(s, a) <= p.braking * ClosingSpeed(s, a)
                 PROVE  Distance(s, a) <= p.warning * ClosingSpeed(s, a)
    BY DEF TtcWithin
  <2>2. Distance(s, a) \in Int /\ ClosingSpeed(s, a) \in Int
    BY DistancesTyped DEF InFront, Perceived
  <2>3. \A b, w \in Nat, d, c \in Int :
            b < w /\ c > 0 /\ d <= b * c => d <= w * c
    <3>1. SUFFICES ASSUME NEW b \in Nat, NEW w \in Nat, NEW d \in Int, NEW c \in Int,
                          b < w, c > 0, d <= b * c
                   PROVE  d <= w * c
      OBVIOUS
    <3>2. (w - b) * c >= 0 /\ w * c = b * c + (w - b) * c
      BY ONLY <3>1
    <3> QED
      BY <3>1, <3>2
  <2> QED
    BY ONLY <2>1, <2>2, <2>3, <1>1
<1>3. PICK imminent, warned, safe, departure, red \in BOOLEAN :
        Risks(s, predictions, p, imminent, warned, safe, departure, red)
  BY RisksAreBoolean
<1> DEFINE m == [imminent |-> imminent, warned |-> warned, safe |-> safe,
                 departure |-> departure, red |-> red]
<1>4. ManeuverAnswers([maneuver |-> Maneuver(m), alerts |-> Alerts(m)])
  <2>1. imminent => warned
    BY <1>2, <1>3 DEF Risks
  <2> QED
    BY ONLY <2>1, RisksAnswered, SMTT(60)
<1>5. RiskMetrics(s, predictions, p) = m
  BY <1>3 DEF Risks
<1> HIDE DEF m
<1> QED
  BY <1>4, <1>5 DEF Decision

\* Fewer predictions never raise another type of alert.
LEMMA FewerAlerts ==
    ASSUME NEW s \in Row, NEW some, NEW all, NEW p \in Parameters,
           ToSet(some) \subseteq ToSet(all)
    PROVE  AlertTypes(Decision(s, some, p).alerts) \subseteq AlertTypes(Decision(s, all, p).alerts)
<1>1. InFront(s, some) \subseteq InFront(s, all)
  BY DEF InFront, Perceived
<1>2. TtcWithin(s, some, p.warning) => TtcWithin(s, all, p.warning)
  BY <1>1 DEF TtcWithin
<1>3. PICK i1, w1, s1, d1, r1 \in BOOLEAN : Risks(s, some, p, i1, w1, s1, d1, r1)
  BY RisksAreBoolean
<1>4. PICK i2, w2, s2, d2, r2 \in BOOLEAN : Risks(s, all, p, i2, w2, s2, d2, r2)
  BY RisksAreBoolean
<1>5. (w1 => w2) /\ (s2 => s1) /\ (d1 => d2) /\ (r1 => r2)
  BY ONLY <1>1, <1>2, <1>3, <1>4, ToSet(some) \subseteq ToSet(all), Zenon DEF Risks
<1> DEFINE m1 == [imminent |-> i1, warned |-> w1, safe |-> s1, departure |-> d1, red |-> r1]
           m2 == [imminent |-> i2, warned |-> w2, safe |-> s2, departure |-> d2, red |-> r2]
<1>6. AlertTypes(Alerts(m1)) \subseteq AlertTypes(Alerts(m2))
  <2>1. SUFFICES ASSUME NEW a \in Alerts(m1)
                 PROVE  \E b \in Alerts(m2) : a[1] = b[1]
    BY DEF AlertTypes
  <2> DEFINE c1 == <<"forward_collision", IF i1 THEN "critical" ELSE "warning">>
             c2 == <<"forward_collision", IF i2 THEN "critical" ELSE "warning">>
  <2>2. \/ w1 /\ a = c1
        \/ ~s1 /\ a = <<"unsafe_following_distance", "warning">>
        \/ d1 /\ a = <<"lane_departure", "warning">>
        \/ r1 /\ a = <<"red_signal", "critical">>
    BY DEF Alerts
  <2>3. w1 => c2 \in Alerts(m2)
    BY <1>5 DEF Alerts
  <2>4. a \notin Alerts(m2) => w1 /\ a = c1
    BY <2>2, <1>5 DEF Alerts
  <2>5. c1[1] = c2[1]
    OBVIOUS
  <2> QED
    BY <2>3, <2>4, <2>5
<1>7. Decision(s, some, p).alerts = Alerts(m1) /\ Decision(s, all, p).alerts = Alerts(m2)
  <2>1. RiskMetrics(s, some, p) = m1 /\ RiskMetrics(s, all, p) = m2
    BY <1>3, <1>4 DEF Risks
  <2> HIDE DEF m1, m2
  <2> QED
    BY <2>1 DEF Decision
<1> QED
  BY ONLY <1>6, <1>7

-----------------------------------------------------------------------------
(* The scene                                                                  *)

\* While no command overtook another, the row is the newest of its revisions,
\* no revision was committed twice, and time passed only when a revision did.
OneLine ==
    /\ scene = None => history = {}
    /\ ~overtaken =>
         /\ \A s \in history :
              /\ s.revision <= scene.revision
              /\ s.revision = scene.revision => s = scene
              /\ s.time <= scene.time
              /\ s.time = scene.time => s.actors = scene.actors
         /\ \A s, t \in history : s.revision = t.revision => s = t

\* ActorsFollowTheirScripts, of two contents and an actor.
Follows(s, t, a) ==
    /\ s.time = t.time => s.actors[a] = t.actors[a]
    /\ s.time > 0 /\ a \in Scripted =>
         s.actors[a] = TrajectoryState(Actors[a].trajectory, s.time)
    /\ s.time = 0 /\ a \notin Scripted =>
         t.actors[a] = [s.actors[a] EXCEPT !.x = @ + s.actors[a].v * t.time]

\* An actor that just drives on for a time.
Drive(m, time) == [m EXCEPT !.x = @ + m.v * time]

\* Driving on for a time and then for another is driving on for both.
LEMMA DrivingOn ==
    ASSUME NEW m \in Motion, NEW time \in Nat, NEW seconds \in Nat
    PROVE  Drive(Drive(m, time), seconds) = Drive(m, time + seconds)
<1> DEFINE n == Drive(m, time)
<1>1. m.x \in Int /\ m.v \in Int /\ m = [x |-> m.x, v |-> m.v]
  BY DEF Motion
<1>2. n = [x |-> m.x + m.v * time, v |-> m.v]
  BY <1>1 DEF Drive
<1>3. \A x, v \in Int, i, j \in Nat : (x + v * i) + v * j = x + v * (i + j)
  OBVIOUS
<1>4. (m.x + m.v * time) + m.v * seconds = m.x + m.v * (time + seconds)
  BY <1>1, <1>3
<1>5. [n EXCEPT !.x = @ + n.v * seconds] = [x |-> (m.x + m.v * time) + m.v * seconds, v |-> m.v]
  <2> DEFINE y == m.x + m.v * time
  <2>1. n = [x |-> y, v |-> m.v]
    BY <1>2
  <2> HIDE DEF y, n
  <2>2. n.x = y /\ n.v = m.v /\ [n EXCEPT !.x = n.x + n.v * seconds] = [x |-> n.x + n.v * seconds, v |-> n.v]
    BY ONLY <2>1
  <2> QED
    BY ONLY <2>2 DEF y
<1>6. [m EXCEPT !.x = @ + m.v * (time + seconds)] = [x |-> m.x + m.v * (time + seconds), v |-> m.v]
  BY <1>1
<1> QED
  BY ONLY <1>4, <1>5, <1>6 DEF Drive

\* An actor that has not driven on is where it was.
LEMMA StandingStill ==
    ASSUME NEW m \in Motion
    PROVE  Drive(m, 0) = m
<1>1. m.x + m.v * 0 = m.x /\ m = [x |-> m.x, v |-> m.v]
  BY DEF Motion
<1> QED
  BY <1>1 DEF Drive

\* What a command leaves: a new revision, at the same time or some seconds on.
Succeeds(new, old) ==
    /\ new \in Row /\ new.revision = old.revision + 1
    /\ \/ new.time = old.time /\ new.actors = old.actors
       \/ \E seconds \in Durations :
            new.time = old.time + seconds /\ new.actors = Advanced(old, seconds)

\* A flush writes a row, and the one its command computed unless overtaken.
LEMMA FlushWrites ==
    ASSUME scene \in Row, NEW old \in Row, NEW new \in Row, Flush(old, new),
           overtaken \in BOOLEAN
    PROVE  /\ scene' \in Row /\ overtaken' \in BOOLEAN
           /\ history' = history \cup {scene'}
           /\ ~overtaken' => scene = old /\ scene' = new /\ ~overtaken
<1>1. /\ scene' = [column \in DOMAIN scene |->
                    IF new[column] # old[column] THEN new[column] ELSE scene[column]]
      /\ history' = history \cup {scene'}
      /\ overtaken' = (overtaken \/ scene # old)
  BY DEF Flush
<1>2. DOMAIN scene = {"actors", "visibility", "light", "revision", "time"}
  BY DEF Row
<1>3. scene' = [actors |-> IF new.actors # old.actors THEN new.actors ELSE scene.actors,
                visibility |-> IF new.visibility # old.visibility THEN new.visibility ELSE scene.visibility,
                light |-> IF new.light # old.light THEN new.light ELSE scene.light,
                revision |-> IF new.revision # old.revision THEN new.revision ELSE scene.revision,
                time |-> IF new.time # old.time THEN new.time ELSE scene.time]
  BY <1>1, <1>2
<1>4. scene' \in Row
  BY <1>3 DEF Row
<1>5. ASSUME scene = old PROVE scene' = new
  BY <1>3, <1>5 DEF Row
<1> QED
  BY <1>1, <1>4, <1>5

\* A command keeps the line of revisions, and every actor on its script.
LEMMA CommitKeeps ==
    ASSUME SceneTypeOK, OneLine, ActorsFollowTheirScripts,
           NEW old \in history, NEW new, Succeeds(new, old), Flush(old, new)
    PROVE  /\ scene' \in Row /\ history' \subseteq Row /\ overtaken' \in BOOLEAN
           /\ scene' \in history' /\ history \subseteq history'
           /\ OneLine' /\ ActorsFollowTheirScripts'
<1>1. scene \in Row /\ history \subseteq Row /\ old \in Row /\ new \in Row /\ overtaken \in BOOLEAN
  BY DEF SceneTypeOK, OneLine, Succeeds
<1>2. /\ scene' \in Row /\ overtaken' \in BOOLEAN /\ history' = history \cup {scene'}
      /\ ~overtaken' => scene = old /\ scene' = new /\ ~overtaken
  BY <1>1, FlushWrites
<1>3. /\ scene' \in Row /\ history' \subseteq Row /\ overtaken' \in BOOLEAN
      /\ scene' \in history' /\ history \subseteq history'
  BY <1>1, <1>2
<1>4. CASE overtaken'
  <2>1. None \notin Row
    BY SceneAssumption
  <2> QED
    BY <1>2, <1>3, <1>4, <2>1 DEF OneLine, ActorsFollowTheirScripts
<1>5. CASE ~overtaken'
  <2>1. scene = old /\ scene' = new /\ ~overtaken /\ history' = history \cup {new}
    BY <1>2, <1>5
  <2>2. \A s \in history :
          /\ s.revision \in Nat /\ s.time \in Nat
          /\ s.revision <= old.revision /\ s.time <= old.time
          /\ s.time = old.time => s.actors = old.actors
    BY <1>1, <2>1 DEF OneLine, Row
  <2>3. /\ old.revision \in Nat /\ new.revision = old.revision + 1
        /\ new.time \in Nat /\ old.time \in Nat
        /\ \A seconds \in Durations : seconds \in Nat \ {0}
    BY <1>1, SceneAssumption DEF Succeeds, Row
  <2>4. \A s \in history : s.revision < new.revision
    BY <2>2, <2>3
  <2>5. \A s, t \in history' : s.revision = t.revision => s = t
    <3>1. \A s, t \in history : s.revision = t.revision => s = t
      BY <2>1 DEF OneLine
    <3>2. \A s \in history : s.revision # new.revision
      BY <2>2, <2>3, <2>4
    <3> QED
      BY ONLY <3>1, <3>2, <2>1
  <2>6. CASE new.time = old.time /\ new.actors = old.actors
    <3>1. \A s \in history' :
            /\ s.revision <= new.revision
            /\ s.revision = new.revision => s = new
            /\ s.time <= new.time
            /\ s.time = new.time => s.actors = new.actors
      <4> SUFFICES ASSUME NEW s \in history'
                   PROVE  /\ s.revision <= new.revision
                          /\ s.revision = new.revision => s = new
                          /\ s.time <= new.time
                          /\ s.time = new.time => s.actors = new.actors
        OBVIOUS
      <4>1. CASE s \in history
        BY <2>2, <2>3, <2>4, <2>6, <4>1
      <4>2. CASE s = new
        BY <2>3, <4>2
      <4> QED
        BY <2>1, <4>1, <4>2
    <3>2. \A s, t \in history, a \in DOMAIN Actors : Follows(s, t, a)
      BY <2>1 DEF ActorsFollowTheirScripts, Follows
    <3>3. \A s, t \in history', a \in DOMAIN Actors : Follows(s, t, a)
      <4> SUFFICES ASSUME NEW s \in history', NEW t \in history', NEW a \in DOMAIN Actors
                   PROVE  Follows(s, t, a)
        OBVIOUS
      <4>1. PICK u \in history : u.time = s.time /\ u.actors = s.actors
        BY <2>1, <2>6
      <4>2. PICK w \in history : w.time = t.time /\ w.actors = t.actors
        BY <2>1, <2>6
      <4>3. Follows(u, w, a)
        BY <3>2
      <4> QED
        BY ONLY <4>1, <4>2, <4>3 DEF Follows
    <3> QED
      BY <1>3, <2>1, <2>5, <3>1, <3>3, SceneAssumption DEF OneLine, ActorsFollowTheirScripts, Follows
  <2>7. CASE \E seconds \in Durations :
               new.time = old.time + seconds /\ new.actors = Advanced(old, seconds)
    <3>1. PICK seconds \in Durations :
            new.time = old.time + seconds /\ new.actors = Advanced(old, seconds)
      BY <2>7
    <3>2. new.time > old.time /\ new.time > 0 /\ \A s \in history : s.time < new.time
      BY <2>2, <2>3, <3>1
    <3>3. \A s \in history' :
            /\ s.revision <= new.revision
            /\ s.revision = new.revision => s = new
            /\ s.time <= new.time
            /\ s.time = new.time => s.actors = new.actors
      <4> SUFFICES ASSUME NEW s \in history'
                   PROVE  /\ s.revision <= new.revision
                          /\ s.revision = new.revision => s = new
                          /\ s.time <= new.time
                          /\ s.time = new.time => s.actors = new.actors
        OBVIOUS
      <4>1. CASE s \in history
        BY <2>2, <2>3, <2>4, <3>2, <4>1
      <4>2. CASE s = new
        BY <2>3, <4>2
      <4> QED
        BY <2>1, <4>1, <4>2
    <3>4. \A s, t \in history, a \in DOMAIN Actors : Follows(s, t, a)
      BY <2>1 DEF ActorsFollowTheirScripts, Follows
    <3>5. ASSUME NEW s \in history', NEW t \in history', NEW a \in DOMAIN Actors
          PROVE  Follows(s, t, a)
      <4>1. CASE s \in history /\ t \in history
        BY <3>4, <4>1
      <4>2. CASE s = new
        <5>1. s.time = t.time => s.actors[a] = t.actors[a]
          BY <2>1, <2>2, <3>2, <4>2
        <5>2. a \in Scripted => s.actors[a] = TrajectoryState(Actors[a].trajectory, s.time)
          BY <3>1, <4>2 DEF Advanced
        <5>3. ~(s.time = 0)
          BY <2>3, <3>2, <4>2
        <5> QED
          BY ONLY <5>1, <5>2, <5>3 DEF Follows
      <4>3. CASE s \in history /\ t = new
        <5>1. Follows(s, old, a)
          BY <3>4, <4>3
        <5>2. s.time # t.time
          BY <2>2, <3>2, <4>3
        <5>3. ASSUME s.time = 0, a \notin Scripted
              PROVE  t.actors[a] = [s.actors[a] EXCEPT !.x = @ + s.actors[a].v * t.time]
          <6>1. old.actors[a] = Drive(s.actors[a], old.time)
            BY <5>1, <5>3 DEF Follows, Drive
          <6>2. t.actors[a] = Drive(old.actors[a], seconds)
            BY <3>1, <4>3, <5>3 DEF Advanced, Drive
          <6>3. s.actors[a] \in Motion /\ old.time \in Nat /\ seconds \in Nat
            BY <1>1, <2>3, <4>3 DEF Row, Motion
          <6>4. t.actors[a] = Drive(s.actors[a], old.time + seconds)
            BY ONLY <6>1, <6>2, <6>3, DrivingOn
          <6> QED
            BY <6>4, <3>1, <4>3 DEF Drive
        <5> QED
          BY <5>1, <5>2, <5>3 DEF Follows
      <4> QED
        BY <2>1, <4>1, <4>2, <4>3
    <3> QED
      BY <1>3, <2>1, <2>5, <3>3, <3>5, SceneAssumption DEF OneLine, ActorsFollowTheirScripts, Follows
  <2> QED
    BY <2>6, <2>7 DEF Succeeds
<1> QED
  BY <1>3, <1>4, <1>5

\* A new scene starts the line.
LEMMA CreateKeeps ==
    ASSUME SceneTypeOK, OneLine, CreateScene
    PROVE  /\ scene' \in Row /\ history' \subseteq Row /\ overtaken' \in BOOLEAN
           /\ scene' \in history' /\ history \subseteq history'
           /\ OneLine' /\ ActorsFollowTheirScripts'
<1>1. PICK s \in Initial :
        scene' = [actors |-> s.actors, visibility |-> s.context.visibility,
                  light |-> s.context.light, revision |-> 1, time |-> 0]
  BY DEF CreateScene
<1>2. /\ scene = None /\ history = {} /\ history' = {scene'} /\ overtaken' = overtaken
  BY DEF CreateScene, OneLine
<1>3. s.actors \in [DOMAIN Actors -> Motion]
  <2>1. s.actors \in [DOMAIN Actors -> [x : -Limit..Limit, v : Int]] /\ Limit \in Nat
    BY SceneAssumption
  <2>2. -Limit..Limit \subseteq Int
    BY <2>1
  <2> QED
    BY <2>1, <2>2 DEF Motion
<1>4. scene' \in Row
  BY <1>1, <1>3 DEF Row, Settings, Motion
<1>5. /\ scene'.revision <= scene'.revision /\ scene'.time <= scene'.time
      /\ scene'.time = 0 /\ scene' # None
  BY <1>1, <1>4, SceneAssumption DEF Row
<1>6. OneLine'
  BY <1>2, <1>5 DEF OneLine
<1>7. ActorsFollowTheirScripts'
  <2>1. \A a \in DOMAIN Actors : scene'.actors[a] = Drive(scene'.actors[a], 0)
    BY <1>4, StandingStill DEF Row, Motion
  <2>2. ~(scene'.time > 0)
    BY <1>5
  <2> QED
    BY <1>2, <1>5, <2>1, <2>2 DEF ActorsFollowTheirScripts, Drive
<1> QED
  BY <1>2, <1>4, <1>6, <1>7 DEF SceneTypeOK

\* Steps that leave the row alone leave its line alone.
LEMMA RowKept ==
    ASSUME SceneTypeOK, OneLine, ActorsFollowTheirScripts, UNCHANGED rowVars
    PROVE  /\ scene' \in Row \cup {None} /\ history' \subseteq Row /\ overtaken' \in BOOLEAN
           /\ scene' # None => scene' \in history'
           /\ history' = history /\ OneLine' /\ ActorsFollowTheirScripts'
BY DEF SceneTypeOK, OneLine, ActorsFollowTheirScripts, rowVars

-----------------------------------------------------------------------------
(* Everything that refers to the scene                                        *)

\* The inductive invariant.
AdasInv ==
    /\ SceneTypeOK /\ OneLine /\ ActorsFollowTheirScripts
    /\ ResultsAreReproducible /\ DecisionsAreReproducible

\* What is stored stays reproducible while more is committed.
LEMMA ResultsKept ==
    ASSUME ResultsAreReproducible, history \subseteq history',
           UNCHANGED <<observations, results>>
    PROVE  ResultsAreReproducible'
<1>1. \A o \in observations' : \E s \in history' : o = Observation(o.id, s, o.sensor)
  BY DEF ResultsAreReproducible
<1>2. \A r \in results' : \E s \in history' :
        /\ s.revision = r.observation.revision
        /\ r.score = ScorePredictions(r.predictions, GroundTruth(s, r.observation))
  BY DEF ResultsAreReproducible
<1> QED
  BY <1>1, <1>2 DEF ResultsAreReproducible

\* And so do the decisions.
LEMMA DecisionsKept ==
    ASSUME DecisionsAreReproducible, history \subseteq history', UNCHANGED scenarioVars
    PROVE  DecisionsAreReproducible'
<1>0. evaluations' = evaluations /\ executions' = executions /\ evidence' = evidence
  BY DEF scenarioVars
<1>1. \A e \in evaluations' : \E s \in history' :
        s.revision = e.result.revision /\ e.decision = Decision(s, e.result.predictions, e.parameters)
  BY <1>0 DEF DecisionsAreReproducible
<1>2. \A x \in executions' : \E s \in history' :
        /\ s.revision = x.result.revision
        /\ x.decision = Decision(s, InjectFaults(x.result.predictions, x.fault), x.parameters)
  BY <1>0 DEF DecisionsAreReproducible
<1>3. \A e \in evidence' : \E x \in executions' :
        /\ e.execution = x.id /\ e.status = x.status
        /\ e.references.displayed \subseteq {x.status}
        /\ e.alerts = AlertTypes(x.decision.alerts)
  BY <1>0 DEF DecisionsAreReproducible
<1> QED
  BY <1>1, <1>2, <1>3 DEF DecisionsAreReproducible

\* A request that ends has read a committed scene.
LEMMA FinishKeeps ==
    ASSUME SceneTypeOK, NEW q \in Requests, Finish(q), history \subseteq history'
    PROVE  request[q] \in history /\ request' \in [Requests -> history' \cup {None}]
BY DEF SceneTypeOK, Finish

\* Detections are actors.
LEMMA ObservationTyped ==
    ASSUME NEW id, NEW s, NEW sensor
    PROVE  /\ Observation(id, s, sensor).detections \subseteq DOMAIN Actors
           /\ Observation(id, s, sensor).sensor = sensor
           /\ Observation(id, s, sensor).id = id
<1>1. SimulateDetections(s, sensor) \subseteq DOMAIN Actors
  <2> SUFFICES ASSUME NEW a \in SimulateDetections(s, sensor) PROVE a \in DOMAIN Actors
    OBVIOUS
  <2>1. a \in Candidates(s, sensor)
    BY DEF SimulateDetections
  <2> QED
    BY <2>1 DEF Candidates
<1> QED
  BY <1>1 DEF Observation

\* A row with some columns changed.
LEMMA UpdatedRow ==
    ASSUME NEW A, NEW K, NEW L,
           NEW old \in [actors : A, visibility : K, light : L, revision : Nat, time : Nat],
           NEW x \in A, NEW y \in K, NEW z \in L, NEW r \in Nat, NEW t \in Nat
    PROVE  /\ LET new == [old EXCEPT !.actors = x, !.revision = r, !.time = t]
              IN  /\ new \in [actors : A, visibility : K, light : L, revision : Nat, time : Nat]
                  /\ new.revision = r /\ new.time = t /\ new.actors = x
           /\ LET new == [old EXCEPT !.visibility = y, !.light = z, !.revision = r]
              IN  /\ new \in [actors : A, visibility : K, light : L, revision : Nat, time : Nat]
                  /\ new.revision = r /\ new.time = old.time /\ new.actors = old.actors
OBVIOUS

\* A command that advances the scene or changes its context is the next one.
LEMMA CommandSucceeds ==
    ASSUME SceneTypeOK, NEW q \in Requests,
           \/ \E seconds \in Durations : AdvanceScene(q, seconds)
           \/ \E context \in Contexts : UpdateSceneContext(q, context)
    PROVE  /\ Finish(q) /\ UNCHANGED evidenceVars
           /\ \E new : Succeeds(new, request[q]) /\ Flush(request[q], new)
<1>1. request[q] \in history \cup {None} /\ history \subseteq Row
  BY DEF SceneTypeOK
<1>2. CASE \E seconds \in Durations : AdvanceScene(q, seconds)
  <2>1. PICK seconds \in Durations : AdvanceScene(q, seconds)
    BY <1>2
  <2> DEFINE old == request[q]
             advanced == Advanced(old, seconds)
             new == [old EXCEPT !.actors = advanced, !.revision = @ + 1, !.time = @ + seconds]
  <2>2. Finish(q) /\ Flush(old, new)
    BY <2>1 DEF AdvanceScene
  <2>3. old \in Row /\ seconds \in Nat
    BY <1>1, <2>2, SceneAssumption DEF Finish
  <2>4. advanced \in [DOMAIN Actors -> Motion]
    BY <2>3, AdvancedTyped
  <2> HIDE DEF advanced, old
  <2>5. /\ new \in Row /\ new.revision = old.revision + 1
        /\ new.time = old.time + seconds /\ new.actors = advanced
    <3> DEFINE A == [DOMAIN Actors -> Motion]
               K == {c.visibility : c \in Settings}
               L == {c.light : c \in Settings}
    <3>1. /\ old \in [actors : A, visibility : K, light : L, revision : Nat, time : Nat]
          /\ advanced \in A /\ seconds \in Nat
      BY <2>3, <2>4 DEF Row, Motion
    <3>2. old.revision + 1 \in Nat /\ old.time + seconds \in Nat
      BY <3>1
    <3> HIDE DEF A, K, L
    <3> QED
      BY ONLY <3>1, <3>2, UpdatedRow DEF A, K, L, Row, Motion
  <2>6. Succeeds(new, old)
    <3> HIDE DEF new
    <3> QED
      BY <2>5 DEF Succeeds, advanced
  <2> QED
    BY <2>2, <2>6 DEF Flush, old
<1>3. CASE \E context \in Contexts : UpdateSceneContext(q, context)
  <2>1. PICK context \in Contexts : UpdateSceneContext(q, context)
    BY <1>3
  <2> DEFINE old == request[q]
             new == [old EXCEPT !.visibility = context.visibility, !.light = context.light,
                               !.revision = @ + 1]
  <2>2. Finish(q) /\ Flush(old, new)
    BY <2>1 DEF UpdateSceneContext
  <2>3. old \in Row
    BY <1>1, <2>2 DEF Finish
  <2> HIDE DEF old
  <2>4. /\ new \in Row /\ new.revision = old.revision + 1
        /\ new.time = old.time /\ new.actors = old.actors
    <3> DEFINE A == [DOMAIN Actors -> Motion]
               K == {c.visibility : c \in Settings}
               L == {c.light : c \in Settings}
    <3>1. /\ old \in [actors : A, visibility : K, light : L, revision : Nat, time : Nat]
          /\ context.visibility \in K /\ context.light \in L
      BY <2>3 DEF Row, Settings, Motion
    <3>2. old.revision + 1 \in Nat
      BY <3>1
    <3> HIDE DEF A, K, L
    <3> QED
      BY ONLY <3>1, <3>2, UpdatedRow DEF A, K, L, Row, Motion
  <2>5. Succeeds(new, old)
    <3> HIDE DEF new
    <3> QED
      BY <2>4 DEF Succeeds
  <2> QED
    BY <2>2, <2>5 DEF Flush, old
<1> QED
  BY <1>2, <1>3

\* The steps of the scene keep what is known of it.
LEMMA RowStep ==
    ASSUME AdasInv, UNCHANGED <<evidenceVars, scenarioVars>>,
           \/ CreateScene
           \/ \E q \in Requests :
                \/ \E seconds \in Durations : AdvanceScene(q, seconds)
                \/ \E context \in Contexts : UpdateSceneContext(q, context)
    PROVE  AdasInv'
<1>1. /\ sensors' = sensors /\ observations' = observations /\ results' = results
  BY DEF evidenceVars
<1>2. /\ scene' \in Row /\ history' \subseteq Row /\ overtaken' \in BOOLEAN
      /\ scene' \in history' /\ history \subseteq history'
      /\ OneLine' /\ ActorsFollowTheirScripts'
      /\ request' \in [Requests -> history' \cup {None}]
  <2>1. CASE CreateScene
    <3>1. request' = request /\ request \in [Requests -> history \cup {None}]
      BY <2>1 DEF CreateScene, AdasInv, SceneTypeOK
    <3>2. history \subseteq history'
      BY <2>1, CreateKeeps DEF AdasInv
    <3> QED
      BY <2>1, <3>1, <3>2, CreateKeeps DEF AdasInv
  <2>2. CASE \E q \in Requests :
                \/ \E seconds \in Durations : AdvanceScene(q, seconds)
                \/ \E context \in Contexts : UpdateSceneContext(q, context)
    <3>1. PICK q \in Requests :
                \/ \E seconds \in Durations : AdvanceScene(q, seconds)
                \/ \E context \in Contexts : UpdateSceneContext(q, context)
      BY <2>2
    <3>2. SceneTypeOK /\ OneLine /\ ActorsFollowTheirScripts
      BY DEF AdasInv
    <3>3. PICK new : Finish(q) /\ Succeeds(new, request[q]) /\ Flush(request[q], new)
      BY <3>1, <3>2, CommandSucceeds
    <3>4. request[q] \in history
      BY <3>2, <3>3 DEF Finish, SceneTypeOK
    <3>5. /\ scene' \in Row /\ history' \subseteq Row /\ overtaken' \in BOOLEAN
          /\ scene' \in history' /\ history \subseteq history'
          /\ OneLine' /\ ActorsFollowTheirScripts'
      BY <3>2, <3>3, <3>4, CommitKeeps
    <3> QED
      BY <3>2, <3>3, <3>5, FinishKeeps
  <2> QED
    BY <2>1, <2>2
<1>3. SceneTypeOK'
  BY <1>1, <1>2 DEF AdasInv, SceneTypeOK
<1>4. ResultsAreReproducible' /\ DecisionsAreReproducible'
  BY <1>1, <1>2, ResultsKept, DecisionsKept DEF AdasInv
<1> QED
  BY <1>2, <1>3, <1>4 DEF AdasInv

\* Every other step of a request leaves the scene alone and reads it at most.
LEMMA OthersKeepRows ==
    ASSUME AdasInv, UNCHANGED rowVars,
           request' \in [Requests -> history \cup {None}],
           \A o \in observations' : o.sensor \in sensors' /\ o.detections \subseteq DOMAIN Actors,
           \A r \in results' : r.observation \in observations',
           ResultsAreReproducible', DecisionsAreReproducible'
    PROVE  AdasInv'
<1>1. /\ scene' \in Row \cup {None} /\ history' \subseteq Row /\ overtaken' \in BOOLEAN
      /\ scene' # None => scene' \in history'
      /\ history' = history /\ OneLine' /\ ActorsFollowTheirScripts'
  BY RowKept DEF AdasInv
<1> QED
  BY <1>1 DEF AdasInv, SceneTypeOK

\* Loading, refusing and configuring a sensor add nothing to reproduce.
LEMMA PlainStep ==
    ASSUME AdasInv, UNCHANGED scenarioVars, NEW q \in Requests,
           \/ Load(q) \/ Refuse(q)
           \/ \E sensor \in DOMAIN Sensors : CreateSensor(q, sensor)
    PROVE  AdasInv'
<1>1. /\ UNCHANGED rowVars /\ UNCHANGED <<observations, results>>
      /\ sensors \subseteq sensors' /\ history' = history
  BY DEF Load, Refuse, CreateSensor, rowVars, evidenceVars
<1>2. request' \in [Requests -> history \cup {None}]
  <2>1. CASE Load(q)
    BY <2>1 DEF Load, AdasInv, SceneTypeOK
  <2>2. CASE Finish(q)
    BY <1>1, <2>2, FinishKeeps DEF AdasInv
  <2> QED
    BY <2>1, <2>2 DEF Refuse, CreateSensor
<1>3. ResultsAreReproducible' /\ DecisionsAreReproducible'
  BY <1>1, ResultsKept, DecisionsKept DEF AdasInv
<1>4. /\ \A o \in observations' : o.sensor \in sensors' /\ o.detections \subseteq DOMAIN Actors
      /\ \A r \in results' : r.observation \in observations'
  BY <1>1 DEF AdasInv, SceneTypeOK
<1> QED
  BY <1>1, <1>2, <1>3, <1>4, OthersKeepRows

\* An observation is computed from the scene that its request has read.
LEMMA ObservationStep ==
    ASSUME AdasInv, UNCHANGED scenarioVars, NEW q \in Requests,
           NEW id, NEW sensor \in sensors, CaptureObservation(q, id, sensor)
    PROVE  AdasInv'
<1> DEFINE new == Observation(id, request[q], sensor)
<1>1. /\ Finish(q) /\ UNCHANGED rowVars /\ history' = history
      /\ sensors' = sensors /\ results' = results
      /\ observations' = observations \cup {new}
  BY DEF CaptureObservation, rowVars
<1>2. request[q] \in history /\ request' \in [Requests -> history \cup {None}]
  BY <1>1, FinishKeeps DEF AdasInv
<1>3. new.detections \subseteq DOMAIN Actors /\ new.sensor = sensor /\ new.id = id
  BY ObservationTyped
<1>4. \A o \in observations' : \E s \in history' : o = Observation(o.id, s, o.sensor)
  <2>1. new = Observation(new.id, request[q], new.sensor)
    BY <1>3
  <2> HIDE DEF new
  <2> QED
    BY <1>1, <1>2, <2>1 DEF AdasInv, ResultsAreReproducible
<1> HIDE DEF new
<1>5. ResultsAreReproducible'
  <2>1. \A r \in results' : \E s \in history' :
          /\ s.revision = r.observation.revision
          /\ r.score = ScorePredictions(r.predictions, GroundTruth(s, r.observation))
    BY <1>1 DEF AdasInv, ResultsAreReproducible
  <2> QED
    BY <1>4, <2>1 DEF ResultsAreReproducible
<1>6. DecisionsAreReproducible'
  BY <1>1, DecisionsKept DEF AdasInv
<1>7. /\ \A o \in observations' : o.sensor \in sensors' /\ o.detections \subseteq DOMAIN Actors
      /\ \A r \in results' : r.observation \in observations'
  BY <1>1, <1>3 DEF AdasInv, SceneTypeOK
<1> QED
  BY <1>1, <1>2, <1>5, <1>6, <1>7, OthersKeepRows

\* A score is computed from a scene at the revision of its observation.
LEMMA PerceptionStep ==
    ASSUME AdasInv, UNCHANGED scenarioVars, NEW q \in Requests, NEW id,
           NEW observation \in observations, NEW predictions,
           CreatePerceptionResult(q, id, observation, predictions)
    PROVE  AdasInv'
<1> DEFINE new == [id |-> id, observation |-> observation, revision |-> observation.revision,
                   predictions |-> predictions,
                   score |-> ScorePredictions(predictions, GroundTruth(request[q], observation))]
<1>1. /\ Finish(q) /\ UNCHANGED rowVars /\ history' = history
      /\ sensors' = sensors /\ observations' = observations
      /\ results' = results \cup {new}
      /\ request[q].revision = observation.revision
  BY DEF CreatePerceptionResult, Store, rowVars
<1>2. request[q] \in history /\ request' \in [Requests -> history \cup {None}]
  BY <1>1, FinishKeeps DEF AdasInv
<1>3. /\ new.observation = observation /\ new.predictions = predictions
      /\ new.score = ScorePredictions(predictions, GroundTruth(request[q], observation))
  OBVIOUS
<1> HIDE DEF new
<1>4. ResultsAreReproducible'
  <2>1. \A r \in results' : \E s \in history' :
          /\ s.revision = r.observation.revision
          /\ r.score = ScorePredictions(r.predictions, GroundTruth(s, r.observation))
    BY <1>1, <1>2, <1>3 DEF AdasInv, ResultsAreReproducible
  <2>2. \A o \in observations' : \E s \in history' : o = Observation(o.id, s, o.sensor)
    BY <1>1 DEF AdasInv, ResultsAreReproducible
  <2> QED
    BY <2>1, <2>2 DEF ResultsAreReproducible
<1>5. DecisionsAreReproducible'
  BY <1>1, DecisionsKept DEF AdasInv
<1>6. /\ \A o \in observations' : o.sensor \in sensors' /\ o.detections \subseteq DOMAIN Actors
      /\ \A r \in results' : r.observation \in observations'
  BY <1>1, <1>3 DEF AdasInv, SceneTypeOK
<1> QED
  BY <1>1, <1>2, <1>4, <1>5, <1>6, OthersKeepRows

\* What the steps of plans, scenarios and evidence leave as it was.
LEMMA ScenarioStep ==
    ASSUME AdasInv, NEW q \in Requests, Finish(q), UNCHANGED <<rowVars, evidenceVars>>,
           DecisionsAreReproducible'
    PROVE  AdasInv'
<1>1. /\ history' = history /\ sensors' = sensors
      /\ observations' = observations /\ results' = results
  BY DEF rowVars, evidenceVars
<1>2. request' \in [Requests -> history \cup {None}]
  BY <1>1, FinishKeeps DEF AdasInv
<1>3. ResultsAreReproducible'
  BY <1>1, ResultsKept DEF AdasInv
<1>4. /\ \A o \in observations' : o.sensor \in sensors' /\ o.detections \subseteq DOMAIN Actors
      /\ \A r \in results' : r.observation \in observations'
  BY <1>1 DEF AdasInv, SceneTypeOK
<1> QED
  BY <1>1, <1>2, <1>3, <1>4, OthersKeepRows

\* A plan is decided on a scene at the revision of its result.
LEMMA PlanStep ==
    ASSUME AdasInv, NEW q \in Requests, NEW id, NEW result, NEW parameters,
           CreatePlanningEvaluation(q, id, result, parameters)
    PROVE  AdasInv'
<1> DEFINE decision == Decision(request[q], result.predictions, parameters)
           new == [id |-> id, result |-> result, parameters |-> parameters, decision |-> decision]
<1>1. /\ Finish(q) /\ UNCHANGED <<rowVars, evidenceVars>> /\ history' = history
      /\ executions' = executions /\ evidence' = evidence
      /\ evaluations' = evaluations \cup {new}
      /\ request[q].revision = result.revision
  BY DEF CreatePlanningEvaluation, rowVars
<1>2. request[q] \in history
  BY <1>1, FinishKeeps DEF AdasInv
<1> HIDE DEF decision
<1>3. new.result = result /\ new.parameters = parameters /\ new.decision = decision
  OBVIOUS
<1> HIDE DEF new
<1>4. \A e \in evaluations' : \E s \in history' :
        s.revision = e.result.revision /\ e.decision = Decision(s, e.result.predictions, e.parameters)
  <2> SUFFICES ASSUME NEW e \in evaluations'
               PROVE  \E s \in history' :
                        /\ s.revision = e.result.revision
                        /\ e.decision = Decision(s, e.result.predictions, e.parameters)
    OBVIOUS
  <2>1. CASE e \in evaluations
    BY <1>1, <2>1 DEF AdasInv, DecisionsAreReproducible
  <2>2. CASE e = new
    <3>1. e.decision = Decision(request[q], e.result.predictions, e.parameters)
      BY <1>3, <2>2 DEF decision
    <3> QED
      BY <1>1, <1>2, <1>3, <2>2, <3>1
  <2> QED
    BY <1>1, <2>1, <2>2
<1>5. DecisionsAreReproducible'
  BY <1>1, <1>4 DEF AdasInv, DecisionsAreReproducible
<1> QED
  BY <1>1, <1>5, ScenarioStep

\* A scenario is decided on a scene at the revision of its result.
LEMMA ExecutionStep ==
    ASSUME AdasInv, NEW q \in Requests, NEW id, NEW result, NEW parameters, NEW fault, NEW expected,
           ExecuteScenario(q, id, result, parameters, fault, expected)
    PROVE  AdasInv'
<1> DEFINE decision == Decision(request[q], InjectFaults(result.predictions, fault), parameters)
           passed == Assertions(decision, result.score, expected)
           coverage == Cardinality({i \in 1..3 : passed[i]})
           status == IF \A i \in 1..3 : passed[i] THEN "passed" ELSE "failed"
           new == [id |-> id, result |-> result, parameters |-> parameters, fault |-> fault,
                   expected |-> expected, decision |-> decision,
                   coverage |-> coverage, status |-> status]
<1>1. /\ Finish(q) /\ UNCHANGED <<rowVars, evidenceVars>> /\ history' = history
      /\ evaluations' = evaluations /\ evidence' = evidence
      /\ executions' = executions \cup {new}
      /\ request[q].revision = result.revision
  BY DEF ExecuteScenario, rowVars
<1>2. request[q] \in history
  BY <1>1, FinishKeeps DEF AdasInv
<1> HIDE DEF decision, coverage, status
<1>3. /\ new.result = result /\ new.parameters = parameters /\ new.decision = decision
      /\ new.fault = fault
  OBVIOUS
<1> HIDE DEF new
<1>4. \A x \in executions' : \E s \in history' :
        /\ s.revision = x.result.revision
        /\ x.decision = Decision(s, InjectFaults(x.result.predictions, x.fault), x.parameters)
  <2> SUFFICES ASSUME NEW x \in executions'
               PROVE  \E s \in history' :
                        /\ s.revision = x.result.revision
                        /\ x.decision = Decision(s, InjectFaults(x.result.predictions, x.fault),
                                                 x.parameters)
    OBVIOUS
  <2>1. CASE x \in executions
    BY <1>1, <2>1 DEF AdasInv, DecisionsAreReproducible
  <2>2. CASE x = new
    <3>1. x.decision = Decision(request[q], InjectFaults(x.result.predictions, x.fault), x.parameters)
      BY <1>3, <2>2 DEF decision
    <3> QED
      BY <1>1, <1>2, <1>3, <2>2, <3>1
  <2> QED
    BY <1>1, <2>1, <2>2
<1>5. \A e \in evidence' : \E x \in executions' :
        /\ e.execution = x.id /\ e.status = x.status
        /\ e.references.displayed \subseteq {x.status}
        /\ e.alerts = AlertTypes(x.decision.alerts)
  BY <1>1 DEF AdasInv, DecisionsAreReproducible
<1>6. DecisionsAreReproducible'
  BY <1>1, <1>4, <1>5 DEF AdasInv, DecisionsAreReproducible
<1> QED
  BY <1>1, <1>6, ScenarioStep

\* Evidence shows what its execution stored.
LEMMA IntegrationStep ==
    ASSUME AdasInv, NEW q \in Requests, NEW id, NEW execution \in executions, NEW references,
           CreateIntegrationEvidence(q, id, execution, references)
    PROVE  AdasInv'
<1> DEFINE alerts == AlertTypes(execution.decision.alerts)
           new == [id |-> id, execution |-> execution.id, references |-> references,
                   status |-> execution.status, maneuver |-> execution.decision.maneuver,
                   alerts |-> alerts, coverage |-> execution.coverage]
<1>1. /\ Finish(q) /\ UNCHANGED <<rowVars, evidenceVars>> /\ history' = history
      /\ evaluations' = evaluations /\ executions' = executions
      /\ evidence' = evidence \cup {new}
      /\ references.displayed \subseteq {execution.status}
  BY DEF CreateIntegrationEvidence, rowVars
<1> HIDE DEF alerts
<1>2. /\ new.execution = execution.id /\ new.references = references
      /\ new.status = execution.status /\ new.alerts = alerts
  OBVIOUS
<1> HIDE DEF new
<1>3. \A e \in evidence' : \E x \in executions' :
        /\ e.execution = x.id /\ e.status = x.status
        /\ e.references.displayed \subseteq {x.status}
        /\ e.alerts = AlertTypes(x.decision.alerts)
  BY <1>1, <1>2 DEF AdasInv, DecisionsAreReproducible, alerts
<1>4. DecisionsAreReproducible'
  BY <1>1, <1>3 DEF AdasInv, DecisionsAreReproducible
<1> QED
  BY <1>1, <1>4, ScenarioStep

\* A step that changes nothing.
LEMMA AdasStutters ==
    ASSUME AdasInv, UNCHANGED vars
    PROVE  AdasInv'
<1>1. /\ UNCHANGED rowVars /\ UNCHANGED scenarioVars /\ history' = history /\ request' = request
      /\ sensors' = sensors /\ observations' = observations /\ results' = results
  BY DEF vars, sceneVars, rowVars, evidenceVars
<1>2. ResultsAreReproducible' /\ DecisionsAreReproducible'
  BY <1>1, ResultsKept, DecisionsKept DEF AdasInv
<1>3. /\ request' \in [Requests -> history \cup {None}]
      /\ \A o \in observations' : o.sensor \in sensors' /\ o.detections \subseteq DOMAIN Actors
      /\ \A r \in results' : r.observation \in observations'
  BY <1>1 DEF AdasInv, SceneTypeOK
<1> QED
  BY <1>1, <1>2, <1>3, OthersKeepRows

\* The invariant holds at first.
LEMMA AdasInit == Init => AdasInv
<1> SUFFICES ASSUME Init PROVE AdasInv
  OBVIOUS
<1>1. /\ scene = None /\ history = {} /\ overtaken = FALSE
      /\ sensors = {} /\ observations = {} /\ results = {}
      /\ request = [q \in Requests |-> None]
      /\ evaluations = {} /\ executions = {} /\ evidence = {}
  BY DEF Init, SceneInit
<1> QED
  BY <1>1 DEF AdasInv, SceneTypeOK, OneLine, ActorsFollowTheirScripts,
              ResultsAreReproducible, DecisionsAreReproducible

\* Every step keeps it.
LEMMA AdasNext == AdasInv /\ [Next]_vars => AdasInv'
<1> SUFFICES ASSUME AdasInv, [Next]_vars PROVE AdasInv'
  OBVIOUS
<1>1. CASE SceneStep /\ UNCHANGED scenarioVars
  <2>1. CASE CreateScene
    <3>1. UNCHANGED evidenceVars
      BY <2>1 DEF CreateScene, evidenceVars
    <3> QED
      BY <1>1, <2>1, <3>1, RowStep
  <2>2. CASE \E q \in Requests :
               \/ \E seconds \in Durations : AdvanceScene(q, seconds)
               \/ \E context \in Contexts : UpdateSceneContext(q, context)
    <3>1. UNCHANGED evidenceVars
      BY <2>2, CommandSucceeds DEF AdasInv
    <3> QED
      BY <1>1, <2>2, <3>1, RowStep
  <2>3. CASE \E q \in Requests : \/ Load(q) \/ Refuse(q)
                                 \/ \E sensor \in DOMAIN Sensors : CreateSensor(q, sensor)
    BY <1>1, <2>3, PlainStep
  <2>4. CASE \E q \in Requests, id \in Observations, sensor \in sensors :
               CaptureObservation(q, id, sensor)
    BY <1>1, <2>4, ObservationStep
  <2>5. CASE \E q \in Requests, id \in Results, observation \in observations,
                predictions \in PredictionLists :
               CreatePerceptionResult(q, id, observation, predictions)
    BY <1>1, <2>5, PerceptionStep
  <2> QED
    BY <1>1, <2>1, <2>2, <2>3, <2>4, <2>5 DEF SceneStep
<1>2. CASE \E q \in Requests, result \in results, parameters \in Parameters, id \in Evaluations :
             CreatePlanningEvaluation(q, id, result, parameters)
  BY <1>2, PlanStep
<1>3. CASE \E q \in Requests, result \in results, parameters \in Parameters,
              id \in Executions, fault \in Faults, expected \in Expectations :
             ExecuteScenario(q, id, result, parameters, fault, expected)
  BY <1>3, ExecutionStep
<1>4. CASE \E q \in Requests, id \in Evidences, execution \in executions, references \in References :
             CreateIntegrationEvidence(q, id, execution, references)
  BY <1>4, IntegrationStep
<1>5. CASE UNCHANGED vars
  BY <1>5, AdasStutters
<1> QED
  BY <1>1, <1>2, <1>3, <1>4, <1>5 DEF Next

\* ADAS-F-028, ADAS-F-039: the scene, observations, scores, plans, scenarios
\* and evidence of a vehicle tell one story (require_scene, advance_scene,
\* capture_observation, create_perception_result, create_planning_evaluation,
\* execute_scenario, create_integration_evidence).
THEOREM Reproducible == Spec => []EvidenceIsReproducible
<1>1. AdasInv => EvidenceIsReproducible
  BY DEF AdasInv, EvidenceIsReproducible
<1> QED
  BY <1>1, AdasInit, AdasNext, PTL DEF Spec

-----------------------------------------------------------------------------
(* Risks and answers                                                          *)

\* A passed scenario met all that it expected.
Passed(x) ==
    x.status = "passed" =>
        /\ x.coverage = 3
        /\ x.decision.maneuver = x.expected.maneuver
        /\ x.expected.alerts \subseteq AlertTypes(x.decision.alerts)

\* What is stored of requests, results and faults.
DecisionsKnown ==
    /\ \A r \in results : r.predictions \in PredictionLists
    /\ \A e \in evaluations \cup executions :
          e.result.predictions \in PredictionLists /\ e.parameters \in Parameters
    /\ \A x \in executions :
          /\ x.fault # <<>> => x.fault[1] \in DOMAIN x.result.predictions
          /\ Passed(x)

\* The status and the coverage of three assertions.
LEMMA AllAsserted ==
    ASSUME NEW decision, NEW score, NEW expected,
           \A i \in 1..3 : Assertions(decision, score, expected)[i]
    PROVE  /\ Cardinality({i \in 1..3 : Assertions(decision, score, expected)[i]}) = 3
           /\ decision.maneuver = expected.maneuver
           /\ expected.alerts \subseteq AlertTypes(decision.alerts)
<1> DEFINE P == Assertions(decision, score, expected)
<1>1. {i \in 1..3 : P[i]} = 1..3
  <2> HIDE DEF P
  <2>1. \A i \in 1..3 : P[i]
    BY DEF P
  <2> QED
    BY ONLY <2>1, Zenon
<1>2. Cardinality(1..3) = 3
  <2>1. 1 \in Int /\ 3 \in Int
    OBVIOUS
  <2>2. Cardinality(1..3) = IF 1 > 3 THEN 0 ELSE 3 - 1 + 1
    BY ONLY <2>1, FS_Interval, Zenon
  <2> QED
    BY ONLY <2>2
<1>3. PICK b1 \in BOOLEAN : b1 = (decision.maneuver = expected.maneuver)
  OBVIOUS
<1>4. PICK b2 \in BOOLEAN : b2 = (expected.alerts \subseteq AlertTypes(decision.alerts))
  OBVIOUS
<1>5. PICK b3 : b3 = F1AtLeast(score, expected.f1)
  BY Zenon
<1>6. P = <<b1, b2, b3>>
  BY ONLY <1>3, <1>4, <1>5, Zenon DEF Assertions
<1>7. P[1] /\ P[2]
  OBVIOUS
<1> HIDE DEF P
<1>8. b1 /\ b2
  BY <1>6, <1>7
<1> QED
  BY <1>1, <1>2, <1>3, <1>4, <1>8 DEF P

\* What DecisionsKnown says is fixed when a row is stored.
LEMMA KnownStep == DecisionsKnown /\ [Next]_vars => DecisionsKnown'
<1> SUFFICES ASSUME DecisionsKnown, [Next]_vars PROVE DecisionsKnown'
  OBVIOUS
<1>1. CASE UNCHANGED scenarioVars /\ results' = results
  BY <1>1 DEF DecisionsKnown, scenarioVars, Passed
<1>2. CASE \E q \in Requests, id \in Results, observation \in observations,
              predictions \in PredictionLists :
             /\ UNCHANGED scenarioVars
             /\ CreatePerceptionResult(q, id, observation, predictions)
  <2>1. PICK q \in Requests, id \in Results, observation \in observations,
             predictions \in PredictionLists :
               /\ UNCHANGED scenarioVars
               /\ CreatePerceptionResult(q, id, observation, predictions)
    BY <1>2
  <2>2. PICK score :
          results' = results \cup
            {[id |-> id, observation |-> observation, revision |-> observation.revision,
              predictions |-> predictions, score |-> score]}
    BY <2>1 DEF CreatePerceptionResult, Store
  <2>3. \A r \in results' : r.predictions \in PredictionLists
    BY <2>2 DEF DecisionsKnown
  <2> QED
    BY <2>1, <2>3 DEF DecisionsKnown, scenarioVars, Passed
<1>3. CASE \E q \in Requests, result \in results, parameters \in Parameters, id \in Evaluations :
             CreatePlanningEvaluation(q, id, result, parameters)
  <2>1. PICK q \in Requests, result \in results, parameters \in Parameters, id \in Evaluations :
             CreatePlanningEvaluation(q, id, result, parameters)
    BY <1>3
  <2>2. /\ results' = results /\ executions' = executions
        /\ \E decision : evaluations' = evaluations \cup
             {[id |-> id, result |-> result, parameters |-> parameters, decision |-> decision]}
    BY <2>1 DEF CreatePlanningEvaluation, evidenceVars
  <2>3. \A e \in evaluations' : e.result.predictions \in PredictionLists /\ e.parameters \in Parameters
    BY <2>2 DEF DecisionsKnown
  <2> QED
    BY <2>2, <2>3 DEF DecisionsKnown, Passed
<1>4. CASE \E q \in Requests, result \in results, parameters \in Parameters,
              id \in Executions, fault \in Faults, expected \in Expectations :
             ExecuteScenario(q, id, result, parameters, fault, expected)
  <2>1. PICK q \in Requests, result \in results, parameters \in Parameters,
             id \in Executions, fault \in Faults, expected \in Expectations :
             ExecuteScenario(q, id, result, parameters, fault, expected)
    BY <1>4
  <2> DEFINE decision == Decision(request[q], InjectFaults(result.predictions, fault), parameters)
             passed == Assertions(decision, result.score, expected)
             coverage == Cardinality({i \in 1..3 : passed[i]})
             status == IF \A i \in 1..3 : passed[i] THEN "passed" ELSE "failed"
             new == [id |-> id, result |-> result, parameters |-> parameters, fault |-> fault,
                     expected |-> expected, decision |-> decision,
                     coverage |-> coverage, status |-> status]
  <2>2. /\ results' = results /\ evaluations' = evaluations
        /\ executions' = executions \cup {new}
        /\ fault # <<>> => fault[1] \in DOMAIN result.predictions
    BY <2>1 DEF ExecuteScenario, evidenceVars
  <2>3. status = "passed" => /\ coverage = 3
                             /\ decision.maneuver = expected.maneuver
                             /\ expected.alerts \subseteq AlertTypes(decision.alerts)
    <3> SUFFICES ASSUME status = "passed"
                 PROVE  /\ coverage = 3
                        /\ decision.maneuver = expected.maneuver
                        /\ expected.alerts \subseteq AlertTypes(decision.alerts)
      OBVIOUS
    <3> HIDE DEF decision
    <3>1. \A i \in 1..3 : passed[i]
      OBVIOUS
    <3> QED
      BY ONLY <3>1, AllAsserted
  <2> HIDE DEF decision, coverage, status
  <2>4. /\ new.result = result /\ new.parameters = parameters /\ new.fault = fault
        /\ new.coverage = coverage /\ new.status = status
        /\ new.decision = decision /\ new.expected = expected
    OBVIOUS
  <2> HIDE DEF new
  <2>5. Passed(new)
    BY <2>3, <2>4 DEF Passed
  <2>6. result.predictions \in PredictionLists
    BY DEF DecisionsKnown
  <2>7. \A x \in executions' :
          /\ x.result.predictions \in PredictionLists /\ x.parameters \in Parameters
          /\ x.fault # <<>> => x.fault[1] \in DOMAIN x.result.predictions
          /\ Passed(x)
    <3> SUFFICES ASSUME NEW x \in executions'
                 PROVE  /\ x.result.predictions \in PredictionLists /\ x.parameters \in Parameters
                        /\ x.fault # <<>> => x.fault[1] \in DOMAIN x.result.predictions
                        /\ Passed(x)
      OBVIOUS
    <3>1. CASE x \in executions
      BY <3>1 DEF DecisionsKnown
    <3>2. CASE x = new
      BY <2>2, <2>4, <2>5, <2>6, <3>2
    <3> QED
      BY <2>2, <3>1, <3>2
  <2> QED
    BY <2>2, <2>7 DEF DecisionsKnown, Passed
<1>5. CASE \E q \in Requests, id \in Evidences, execution \in executions, references \in References :
             CreateIntegrationEvidence(q, id, execution, references)
  <2>1. evaluations' = evaluations /\ executions' = executions /\ results' = results
    BY <1>5 DEF CreateIntegrationEvidence, evidenceVars
  <2> QED
    BY <2>1 DEF DecisionsKnown, Passed
<1>6. CASE SceneStep /\ UNCHANGED scenarioVars
  <2>1. \/ results' = results
        \/ \E q \in Requests, id \in Results, observation \in observations,
              predictions \in PredictionLists :
             CreatePerceptionResult(q, id, observation, predictions)
    BY <1>6 DEF SceneStep, CreateScene, Load, Refuse, AdvanceScene, UpdateSceneContext, Flush,
                CreateSensor, CaptureObservation, evidenceVars
  <2> QED
    BY <1>1, <1>2, <1>6, <2>1
<1>7. CASE UNCHANGED vars
  BY <1>1, <1>7 DEF vars, sceneVars, evidenceVars
<1> QED
  BY <1>3, <1>4, <1>5, <1>6, <1>7 DEF Next

\* A fault that drops a prediction only takes alerts away.
LEMMA DroppingHidesOnly ==
    ASSUME AdasInv, DecisionsKnown, ~overtaken,
           NEW x \in executions, NEW e \in evaluations,
           e.result = x.result, e.parameters = x.parameters,
           x.fault # <<>> => x.fault[2] = None
    PROVE  AlertTypes(x.decision.alerts) \subseteq AlertTypes(e.decision.alerts)
<1> DEFINE list == x.result.predictions
           p == x.parameters
<1>1. PICK s \in history : s.revision = x.result.revision /\ e.decision = Decision(s, list, p)
  BY DEF AdasInv, DecisionsAreReproducible
<1>2. PICK t \in history :
        t.revision = x.result.revision /\ x.decision = Decision(t, InjectFaults(list, x.fault), p)
  BY DEF AdasInv, DecisionsAreReproducible
<1>3. s = t /\ s \in Row
  BY <1>1, <1>2 DEF AdasInv, OneLine, SceneTypeOK
<1>4. p \in Parameters /\ list \in PredictionLists
  BY DEF DecisionsKnown
<1>5. ToSet(InjectFaults(list, x.fault)) \subseteq ToSet(list)
  <2>1. CASE x.fault = <<>>
    BY <2>1 DEF InjectFaults
  <2>2. CASE x.fault # <<>>
    <3>1. x.fault[1] \in DOMAIN list /\ x.fault[2] = None
      BY <2>2 DEF DecisionsKnown
    <3>2. InjectFaults(list, x.fault) = RemoveAt(list, x.fault[1])
      BY <2>2, <3>1 DEF InjectFaults
    <3>3. list \in Seq(STRING \X STRING \X STRING)
      BY <1>4, SceneAssumption
    <3> QED
      BY <3>1, <3>2, <3>3, DroppedFewer
  <2> QED
    BY <2>1, <2>2
<1> HIDE DEF list, p
<1> QED
  BY <1>1, <1>2, <1>3, <1>4, <1>5, FewerAlerts

\* The decisions of a state are as strong as the alerts they answer.
LEMMA RisksFollow == AdasInv /\ DecisionsKnown => DecisionsAnswerRisks
<1> SUFFICES ASSUME AdasInv, DecisionsKnown PROVE DecisionsAnswerRisks
  OBVIOUS
<1>1. \A e \in evaluations : ManeuverAnswers(e.decision)
  <2> SUFFICES ASSUME NEW e \in evaluations PROVE ManeuverAnswers(e.decision)
    OBVIOUS
  <2>1. PICK s \in history : e.decision = Decision(s, e.result.predictions, e.parameters)
    BY DEF AdasInv, DecisionsAreReproducible
  <2>2. s \in Row /\ e.parameters \in Parameters
    BY DEF AdasInv, SceneTypeOK, DecisionsKnown
  <2> QED
    BY <2>1, <2>2, DecisionAnswers
<1>2. \A x \in executions : ManeuverAnswers(x.decision)
  <2> SUFFICES ASSUME NEW x \in executions PROVE ManeuverAnswers(x.decision)
    OBVIOUS
  <2>1. PICK s \in history :
          x.decision = Decision(s, InjectFaults(x.result.predictions, x.fault), x.parameters)
    BY DEF AdasInv, DecisionsAreReproducible
  <2>2. s \in Row /\ x.parameters \in Parameters
    BY DEF AdasInv, SceneTypeOK, DecisionsKnown
  <2> QED
    BY <2>1, <2>2, DecisionAnswers
<1>3. \A x \in executions, e \in evaluations :
        /\ ~overtaken
        /\ e.result = x.result /\ e.parameters = x.parameters
        /\ x.fault # <<>> => x.fault[2] = None
        => AlertTypes(x.decision.alerts) \subseteq AlertTypes(e.decision.alerts)
  BY DroppingHidesOnly
<1>4. \A x \in executions : x.status = "passed" =>
        /\ x.coverage = 3
        /\ x.decision.maneuver = x.expected.maneuver
        /\ x.expected.alerts \subseteq AlertTypes(x.decision.alerts)
  BY DEF DecisionsKnown, Passed
<1> QED
  BY <1>1, <1>2, <1>3, <1>4 DEF DecisionsAnswerRisks

\* ADAS-F-032: a maneuver is at least as strong as every alert asks for and no
\* stronger, dropped predictions only hide alerts, and a passed scenario met
\* all that it expected (evaluate_plan, _alerts, _inject_faults, execute_scenario).
THEOREM RisksAreAnswered == Spec => []DecisionsAnswerRisks
<1>1. Init => DecisionsKnown
  BY DEF Init, SceneInit, DecisionsKnown
<1> QED
  BY <1>1, AdasInit, AdasNext, KnownStep, RisksFollow, PTL DEF Spec
=============================================================================
