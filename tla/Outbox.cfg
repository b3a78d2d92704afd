CONSTANTS
    Events = {e1, e2, e3}
    Workers = {w1, w2}
    BatchLimit = 2
    MaxFailures = 2
SPECIFICATION FairSpec
INVARIANTS
    BatchesAreSound
PROPERTIES
    ImplementsRelay
    DeliversEveryEvent
\* every transaction ended and every event published
CHECK_DEADLOCK FALSE
