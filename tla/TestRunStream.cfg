CONSTANTS
    Cases = {a, b}
    Progresses = {0, 100}
    Viewers = {v1}
    MaxOpen = 2
    Nothing = Nothing
SPECIFICATION StreamSpec
INVARIANTS
    RunIsDerived
    NewestIsOnItsWay
PROPERTIES
    OnlyForward
    LiveViewersCatchUp
\* a finished run takes no further step
CHECK_DEADLOCK FALSE
