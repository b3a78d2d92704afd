SPECIFICATION QualitySpec
CONSTANTS
  Definitions = {d1, d2}
  Suites = {s1}
  Profiles = {p1}
  FaultCampaigns = {fc}
  MutationCampaigns = {mc}
  Jobs = {j1}
  Requests = {q1, q2}
  Idle = Idle
  NotStored = NotStored
  FaultExecutions = {fe}
  MutationExecutions = {me}
  Steps = {t1, t2}
  Required = {t1}
  Requirements = {r1}
  MaxCoverageVersion = 3
  NoScore = NoScore
  NoMatch = NoMatch
  AiRequests = {a1, a2}
  Attempts = {x1, x2, x3, x4}
  LogAnalyses = {l1}
  RiskAnalyses = {k1}
  Suggestions = {g1, g2}
  Conversations = {c1}
  Exchanges = {m1, m2, m3}
  Projections = {v1}
  Users = {u1, u2}
  Evidence = {"e1", "e2"}
  Contents = {"c1", "c2"}
  Adapters = {"local", "external"}
  LogBatches <- MCLogBatches
  SignalSets <- MCSignalSets
  MaxAttempts = 3
  MaxCitations = 1
  MaxExchanges = 2
  Null = Null
  QualityWorkloads = {"schedule", "fault", "mutation", "coverage", "attempt", "log", "risk", "suggestion", "chat"}
SYMMETRY Symmetry
CHECK_DEADLOCK FALSE
INVARIANTS
  ExecutionsAreSound
  EvidenceIsGoverned
PROPERTIES
  DecisionsStand
