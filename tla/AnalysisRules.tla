--------------------------- MODULE AnalysisRules ---------------------------
(* The deterministic rules of the AI engine: how a batch of log lines is     *)
(* turned into a timeline, clusters and anomalies, and how the signals of a  *)
(* failure are ranked and scored.  A line is a record [time, level, cluster] *)
(* (times in seconds; the cluster is the normalised message) or NoMatch.     *)
EXTENDS Integers, Sequences, FiniteSets, FiniteSetsExt, SequencesExt

CONSTANTS
    NoMatch,       \* a line the log pattern does not match
    LogBatches,    \* the batches a caller may submit
    SignalSets     \* the signals a caller may submit

SevereLevels == {"error", "critical"}

(* The lines numbered I, by time and then by number.                         *)
InOrder(lines, I) ==
    CHOOSE t \in SetToSeqs(I) : \A i, j \in DOMAIN t : i < j =>
        \/ lines[t[i]].time < lines[t[j]].time
        \/ lines[t[i]].time = lines[t[j]].time /\ t[i] < t[j]

Matched(lines) == {i \in DOMAIN lines : lines[i] # NoMatch}
Timeline(lines) == InOrder(lines, Matched(lines))

ClusterIds(lines) == {lines[i].cluster : i \in Matched(lines)}

(* The events of one cluster, in the order of the timeline.                  *)
InCluster(lines, c) == {i \in Matched(lines) : lines[i].cluster = c}
ClusterEvents(lines, c) == InOrder(lines, InCluster(lines, c))

(* Every run of three consecutive events of a cluster is looked at, until    *)
(* one lies within ten seconds.                                              *)
HasBurst(lines, c) ==
    LET events == ClusterEvents(lines, c) IN
    \E start \in 1..(Len(events) - 2) :
        lines[events[start + 2]].time - lines[events[start]].time <= 10

Anomaly(type, severity, c, lines) ==
    [type |-> type, severity |-> severity, cluster |-> c, lines |-> InCluster(lines, c)]

(* A severe level in a cluster, and a burst of it, are an anomaly each.      *)
Anomalies(lines) ==
    LET levels(c) == {lines[i].level : i \in InCluster(lines, c)} IN
    {Anomaly("severe_event", IF "critical" \in levels(c) THEN "critical" ELSE "high", c, lines) :
        c \in {x \in ClusterIds(lines) : levels(x) \cap SevereLevels # {}}}
    \cup {Anomaly("burst", "medium", c, lines) : c \in {x \in ClusterIds(lines) : HasBurst(lines, x)}}

(* A batch needs a line that parses and a timeline of at most seven days.    *)
Analysable(lines) ==
    LET t == Timeline(lines) IN
    /\ t # <<>>
    /\ lines[Last(t)].time - lines[t[1]].time <= 7 * 86400

-----------------------------------------------------------------------------
SeverityWeight == [info |-> 5, low |-> 15, medium |-> 35, high |-> 65, critical |-> 90]

(* What the schemas admit: numbered lines, and signals with distinct codes.  *)
ASSUME InputAssumption ==
    /\ \A lines \in LogBatches :
         /\ IsFiniteSet(DOMAIN lines) /\ DOMAIN lines \subseteq Nat
         /\ \A i \in DOMAIN lines : lines[i] # NoMatch => lines[i].time \in Nat /\ lines[i].cluster \in Nat
    /\ \A signals \in SignalSets :
         /\ IsFiniteSet(signals) /\ signals # {}
         /\ \A s \in signals : /\ s.severity \in DOMAIN SeverityWeight /\ s.code \in Nat
                               /\ s.count \in Nat /\ s.confidence \in 0..100 /\ s.detectability \in 0..100
         /\ \A s, t \in signals : s.code = t.code => s = t

(* The support of a signal in hundredths: severity, weighted by how often    *)
(* (five times is often) and how confidently (in percent) it was seen.       *)
Support(signal) ==
    LET often == IF signal.count < 5 THEN signal.count ELSE 5 IN
    (SeverityWeight[signal.severity] * (80 + 4 * often) * (100 + signal.confidence) + 100) \div 200

(* Hypotheses, best supported first, then by code.                           *)
RankHypotheses(signals) ==
    CHOOSE t \in SetToSeqs(signals) : \A i, j \in DOMAIN t : i < j =>
        \/ Support(t[i]) > Support(t[j])
        \/ Support(t[i]) = Support(t[j]) /\ t[i].code < t[j].code

(* Likelihood, impact and detectability (in percent), 45 : 40 : 15.          *)
RiskScore(signals) ==
    LET likelihood == Support(RankHypotheses(signals)[1])
        impact == CHOOSE w \in {SeverityWeight[s.severity] : s \in signals} :
                    \A s \in signals : w >= SeverityWeight[s.severity]
        detectable == MapThenSumSet(LAMBDA s : s.detectability, signals) \div Cardinality(signals)
        score == (45 * likelihood + 4000 * impact + 1500 * (100 - detectable) + 5000) \div 10000
    IN IF score > 100 THEN 100 ELSE score

RiskBand(score) ==
    CASE score < 25 -> "low" [] score \in 25..49 -> "medium" [] score \in 50..74 -> "high" [] OTHER -> "critical"
=============================================================================
