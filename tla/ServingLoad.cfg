SPECIFICATION Spec
CONSTANTS
    m1 = m1
    m2 = m2
    a = a
    b = b
    Match = {m1, m2}
    Content = {a, b}
    Load = {1, 2, 3}
    Size <- MCSize
    NoContent = NoContent
    Unknown = Unknown
INVARIANTS
    TypeOK
    OneCopy
PROPERTIES
    LoadHeals
    TableSpec
    LoadsEnd
CHECK_DEADLOCK FALSE
