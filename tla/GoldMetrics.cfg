SPECIFICATION Spec
CONSTANTS
    T1 = T1
    T2 = T2
    Team = {T1, T2}
    Null = Null
    Grid <- MCGrid
    XgOne = 100
    Event <- MCEvent
    MaxEvents = 3
    MaxBadIds = 1
INVARIANTS
    RejectedForCause
    XtOfContainingCell
    IntervalsPartition
    AcceptedPassesTests
    TimelineEndsAtXg
    MomentumKnowsLabels
CHECK_DEADLOCK FALSE
