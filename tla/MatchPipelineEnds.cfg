SPECIFICATION Spec
CONSTANTS
    m1 = m1
    m2 = m2
    a = a
    b = b
    c = c
    x = x
    y = y
    T1 = T1
    T2 = T2
    T3 = T3
    Match = {m1, m2}
    Content = {a, b, c, x, y}
    Team = {T1, T2, T3}
    Box <- MCBox
    Builder = {1, 2}
    Run = {1, 2}
    DbtSlots = 1
    NoContent = NoContent
    Parses = {a, b, c, x}
    Valid = {a, b, c}
    Serves <- Revisions
    MaxClears = 0
INVARIANTS
    DbtFailsOnlyOnRevision
PROPERTIES
    RunsEnd
CHECK_DEADLOCK FALSE
