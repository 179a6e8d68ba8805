SPECIFICATION RebuildSpec
CONSTANTS
    m1 = m1
    a = a
    b = b
    c = c
    T1 = T1
    T2 = T2
    T3 = T3
    Match = {m1}
    Content = {a, b, c}
    Team = {T1, T2, T3}
    Box <- MCBox
    Builder = {1, 2, 3}
    Run = {1, 2}
    Rebuild = {3}
    MaxRebuilds = 2
    DbtSlots = 1
    NoContent = NoContent
    Parses = {a, b, c}
    Valid = {a, b, c}
    Serves <- AllRevisions
    MaxClears = 0
INVARIANTS
    RebuildTypeOK
    TeamMatchInPairs
PROPERTIES
    RebuildRepairs
    TablesSurviveRebuilds
    AloneServesOneVersion
    RebuildReconciles
CHECK_DEADLOCK FALSE
