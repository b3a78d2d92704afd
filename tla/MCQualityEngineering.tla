----------------------- MODULE MCQualityEngineering -----------------------
EXTENDS QualityEngineering, TLC

Line(time, level, c) == [time |-> time, level |-> level, cluster |-> c]
MCLogBatches ==
    [1..4 -> {Line(t, "info", 1) : t \in {0, 6, 10, 17}}] \cup
    [1..3 -> {Line(0, "info", 1), Line(9, "error", 1), Line(10, "critical", 2), NoMatch, Line(700000, "info", 2)}]

Signal(code, severity, count, confidence, detectability, evidence) ==
    [code |-> code, severity |-> severity, count |-> count, confidence |-> confidence,
     detectability |-> detectability, evidence |-> evidence]
MCSignalSets ==
    LET first == {Signal(1, s, n, 80, d, {"e1"}) : s \in {"low", "high", "critical"}, n \in {1, 7}, d \in {0, 100}}
        second == {Signal(2, s, 5, 0, 50, {"e2"}) : s \in {"info", "medium", "critical"}}
    IN {{a} : a \in first} \cup {{a, b} : a \in first, b \in second}

Symmetry == Permutations(Requests)
=============================================================================
